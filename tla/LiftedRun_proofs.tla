--------------------------- MODULE LiftedRun_proofs ---------------------------
(***************************************************************************)
(* Proofs about TraceLifter, for every size of the address space, every    *)
(* machine code, manager and sequence of calls; then about LiftedRun:      *)
(* lifted code and its runtime implement the machine, and the memory       *)
(* pointer is handed on until a call has returned.                         *)
(*                                                                         *)
(* A run of lifted code is a run of the lifter with more variables, so     *)
(* that what the first part says of traces is at hand.  What is missing    *)
(* there is what blocks have to do with the code they are made from        *)
(* (FollowsCode); from it follows, frame by frame, where control is.       *)
(***************************************************************************)
EXTENDS LiftedRun, TLAPS

-----------------------------------------------------------------------------
(* Block contents. *)

LEMMA ZeroIsAddress == 0 \in Addresses
BY SpaceIsPositive DEF Addresses

\* Only branches have targets, and those that the kind says.
LEMMA TargetsByKind ==
  ASSUME NEW c \in Contents
  PROVE  /\ c.kind \in {"br", "call", "condcall"} => Targets(c) = {c.to}
         /\ c.kind = "condbr" => Targets(c) = {c.to, c.els}
         /\ c.kind \in {"empty", "open", "tail"} => Targets(c) = {}
BY DEF Targets, Contents, Kinds

LEMMA TargetsAreAddresses ==
  ASSUME NEW c \in Contents PROVE Targets(c) \subseteq Addresses
<1>1. c.kind \in Kinds /\ c.to \in Addresses /\ c.els \in Addresses
  BY DEF Contents
<1> QED BY <1>1, TargetsByKind DEF Kinds

LEMMA EmptyBlock ==
  /\ Empty \in Contents /\ Empty.kind = "empty" /\ Empty.callee = "none"
  /\ Targets(Empty) = {}
<1>1. Empty \in Contents /\ Empty.kind = "empty" /\ Empty.callee = "none"
  BY ZeroIsAddress DEF Empty, Contents, Kinds, Callees
<1> QED BY <1>1, TargetsByKind

LEMMA BranchBlock ==
  ASSUME NEW a \in Addresses
  PROVE  /\ Br(a) \in Contents
         /\ Br(a).kind = "br" /\ Br(a).ran = TRUE /\ Br(a).callee = "none"
BY ZeroIsAddress DEF Br, Empty, Contents, Kinds, Callees

LEMMA CondBranchBlock ==
  ASSUME NEW a \in Addresses, NEW b \in Addresses
  PROVE  /\ CondBr(a, b) \in Contents
         /\ CondBr(a, b).kind = "condbr" /\ CondBr(a, b).ran = TRUE
         /\ CondBr(a, b).callee = "none"
BY ZeroIsAddress DEF CondBr, Empty, Contents, Kinds, Callees

LEMMA TailCallBlock ==
  ASSUME NEW callee \in Callees, NEW ran \in BOOLEAN
  PROVE  /\ TailCall(callee, ran) \in Contents
         /\ TailCall(callee, ran).kind = "tail"
         /\ TailCall(callee, ran).ran = ran
         /\ TailCall(callee, ran).callee = callee
BY ZeroIsAddress DEF TailCall, Empty, Contents, Kinds, Callees

LEMMA TailTraceBlock ==
  ASSUME NEW t \in Addresses
  PROVE  /\ TailTrace(t) \in Contents
         /\ TailTrace(t).kind = "tail" /\ TailTrace(t).callee = "trace"
         /\ TailTrace(t).trace = t
BY ZeroIsAddress DEF TailTrace, TailCall, Empty, Contents, Kinds, Callees

LEMMA CallBlock ==
  ASSUME NEW callee \in Callees, NEW t \in Addresses, NEW next \in Addresses
  PROVE  /\ Call(callee, t, next) \in Contents
         /\ Call(callee, t, next).kind = "call"
         /\ Call(callee, t, next).ran = TRUE
         /\ Call(callee, t, next).callee = callee
         /\ Call(callee, t, next).trace = t
BY ZeroIsAddress DEF Call, Empty, Contents, Kinds, Callees

LEMMA CallTraceBlock ==
  ASSUME NEW t \in Addresses, NEW next \in Addresses
  PROVE  /\ Call("trace", t, next) \in Contents
         /\ Call("trace", t, next).kind = "call"
         /\ Call("trace", t, next).ran = TRUE
         /\ Call("trace", t, next).trace = t
BY ZeroIsAddress DEF Call, Empty, Contents, Kinds, Callees

LEMMA CondCallBlock ==
  ASSUME NEW callee \in Callees, NEW next \in Addresses
  PROVE  /\ CondCall(callee, next) \in Contents
         /\ CondCall(callee, next).kind = "condcall"
         /\ CondCall(callee, next).ran = TRUE
         /\ CondCall(callee, next).callee = callee
BY ZeroIsAddress DEF CondCall, Call, Empty, Contents, Kinds, Callees

LEMMA OpenBlock ==
  Open \in Contents /\ Open.kind = "open" /\ Open.ran = TRUE
  /\ Open.callee = "none"
BY ZeroIsAddress DEF Open, Empty, Contents, Kinds, Callees

\* Filling in a terminator changes neither targets nor callees of traces.
LEMMA FilledBlock ==
  ASSUME NEW c \in Contents
  PROVE  /\ Filled(c) \in Contents
         /\ Filled(c).kind \notin {"empty", "open"}
         /\ Targets(Filled(c)) = Targets(c)
         /\ Filled(c).ran = c.ran
         /\ c.kind \in {"tail", "call"} => Filled(c) = c
         /\ Filled(c) = c \/ Filled(c).callee = "missing_block"
<1>1. c.ran \in BOOLEAN /\ c.kind \in Kinds BY DEF Contents
<1>2. CASE c.kind \in {"empty", "open"}
  <2>1. Filled(c) = TailCall("missing_block", c.ran) BY <1>2 DEF Filled
  <2>2. /\ Filled(c) \in Contents /\ Filled(c).kind = "tail"
        /\ Filled(c).ran = c.ran /\ Filled(c).callee = "missing_block"
    <3>1. "missing_block" \in Callees BY DEF Callees
    <3> QED BY <1>1, <2>1, <3>1, TailCallBlock
  <2>3. Targets(c) = {} /\ Targets(Filled(c)) = {}
    BY <1>2, <2>2, TargetsByKind
  <2> QED BY <1>2, <2>2, <2>3
<1>3. CASE c.kind \notin {"empty", "open"}
  BY <1>3 DEF Filled
<1> QED BY <1>2, <1>3

-----------------------------------------------------------------------------
(* One step of the inner loop. *)

\* What fills an empty block a: the kind is decided, the instruction comes
\* with it, and a trace that it calls is declared or queued.
Emits(a, c) ==
  /\ Emit(a, c)
  /\ blocks[a].kind = "empty"
  /\ c \in Contents
  /\ c.kind # "empty"
  /\ c.ran = TRUE \/ c.callee = "trace" \/ ~HasBytes(a)
  /\ c.callee = "trace" =>
       /\ c.kind \in {"tail", "call"}
       /\ c.trace \in traces \cup Known \cup trace_work_list'

LEMMA InstructionTypes ==
  ASSUME TypeOK, NEW a \in Addresses, HasBytes(a)
  PROVE  /\ image[a].next \in Addresses /\ image[a].taken \in Addresses
         /\ image[a].not_taken \in Addresses
         /\ image[a].category \in Categories
<1>1. a \in 0..Space /\ Space \in Nat \ {0} /\ a % Space >= a
  BY SpaceIsPositive DEF Addresses, HasBytes
<1>2. a \in 0..Space - 1 BY <1>1
<1>3. image[a] \in Instructions BY <1>2, ImagesAreCode DEF TypeOK
<1> QED BY <1>3 DEF Instructions, HasBytes

LEMMA InstructionStep ==
  ASSUME TypeOK, NEW a \in inst_work_list, LiftInstruction(a)
  PROVE  /\ LiftUnchanged
         /\ trace_work_list \subseteq trace_work_list'
         /\ trace_work_list' \subseteq Addresses
         /\ \/ /\ blocks[a].kind # "empty"
               /\ inst_work_list' = inst_work_list \ {a}
               /\ UNCHANGED blocks
            \/ \E c : Emits(a, c)
<1> DEFINE Goal == /\ LiftUnchanged
                   /\ trace_work_list \subseteq trace_work_list'
                   /\ trace_work_list' \subseteq Addresses
                   /\ \/ /\ blocks[a].kind # "empty"
                         /\ inst_work_list' = inst_work_list \ {a}
                         /\ UNCHANGED blocks
                      \/ \E c : Emits(a, c)
<1> a \in Addresses /\ trace_work_list \subseteq Addresses BY DEF TypeOK
\* What is common to the cases that leave trace_work_list alone.
<1>1. ASSUME NEW c, Emits(a, c), UNCHANGED trace_work_list PROVE Goal
  <2>1. LiftUnchanged BY <1>1 DEF Emits, Emit
  <2> QED BY <1>1, <2>1
<1> HIDE DEF Goal
<1> SUFFICES Goal BY DEF Goal
<1>2. CASE LiftAgain(a) BY <1>2 DEF LiftAgain, Goal
<1>3. CASE LiftTailCall(a)
  <2>1. a \in traces \cup Known
    BY <1>3 DEF LiftTailCall, TailIntoTrace, Declared
  <2>2. Emits(a, TailTrace(a))
    BY <1>3, <2>1, TailTraceBlock DEF LiftTailCall, Emits
  <2> QED BY <1>1, <1>3, <2>2 DEF LiftTailCall
<1>4. CASE LiftNoBytes(a)
  <2>1. "missing_block" \in Callees /\ "missing_block" # "trace" BY DEF Callees
  <2>2. Emits(a, TailCall("missing_block", FALSE))
    BY <1>4, <2>1, TailCallBlock DEF LiftNoBytes, Emits
  <2> QED BY <1>1, <1>4, <2>2 DEF LiftNoBytes
\* The tail calls of intrinsics behind an instruction.
<1>5. ASSUME NEW callee \in Callees, callee # "trace",
             Emit(a, TailCall(callee, TRUE)), blocks[a].kind = "empty",
             UNCHANGED trace_work_list
      PROVE  Goal
  <2>1. Emits(a, TailCall(callee, TRUE)) BY <1>5, TailCallBlock DEF Emits
  <2> QED BY <1>1, <1>5, <2>1
<1>6. CASE LiftError(a)
  <2>1. "error" \in Callees BY DEF Callees
  <2> QED BY <1>5, <1>6, <2>1 DEF LiftError, Lifting
<1>7. CASE LiftIndirectJump(a)
  <2>1. "jump" \in Callees BY DEF Callees
  <2> QED BY <1>5, <1>7, <2>1 DEF LiftIndirectJump, Lifting
<1>8. CASE LiftReturn(a)
  <2>1. "function_return" \in Callees BY DEF Callees
  <2> QED BY <1>5, <1>8, <2>1 DEF LiftReturn, Lifting
<1>9. HasBytes(a) => /\ image[a].next \in Addresses
                     /\ image[a].taken \in Addresses
                     /\ image[a].not_taken \in Addresses
  BY InstructionTypes
<1>10. ASSUME NEW t \in Addresses, Emit(a, Br(t)), blocks[a].kind = "empty",
              UNCHANGED trace_work_list
       PROVE  Goal
  <2>1. Emits(a, Br(t)) BY <1>10, BranchBlock DEF Emits
  <2> QED BY <1>1, <1>10, <2>1
<1>11. CASE LiftFallThrough(a)
  BY <1>9, <1>10, <1>11 DEF LiftFallThrough, Lifting
<1>12. CASE LiftDirectJump(a)
  BY <1>9, <1>10, <1>12 DEF LiftDirectJump, Lifting
<1>13. CASE LiftCallOfNext(a)
  BY <1>9, <1>10, <1>13 DEF LiftCallOfNext, Lifting
<1>14. CASE LiftHyperCall(a)
  <2>1. "async_hyper_call" \in Callees BY DEF Callees
  <2>2. Emits(a, Call("async_hyper_call", 0, image[a].next))
    BY <1>9, <1>14, <2>1, CallBlock, ZeroIsAddress
    DEF LiftHyperCall, Lifting, Emits
  <2> QED BY <1>1, <1>14, <2>2 DEF LiftHyperCall
<1>15. CASE LiftConditionalHyperCall(a)
  <2>1. "async_hyper_call" \in Callees BY DEF Callees
  <2>2. Emits(a, CondCall("async_hyper_call", image[a].next))
    BY <1>9, <1>15, <2>1, CondCallBlock
    DEF LiftConditionalHyperCall, Lifting, Emits
  <2> QED BY <1>1, <1>15, <2>2 DEF LiftConditionalHyperCall
<1>16. CASE LiftIndirectCall(a)
  <2>1. "function_call" \in Callees BY DEF Callees
  <2>2. Emits(a, Call("function_call", 0, image[a].next))
    BY <1>9, <1>16, <2>1, CallBlock, ZeroIsAddress
    DEF LiftIndirectCall, Lifting, Emits
  <2> QED BY <1>1, <1>16, <2>2 DEF LiftIndirectCall
<1>17. CASE LiftDirectCall(a)
  <2>2. image[a].taken \in traces \cup Known \cup trace_work_list'
    BY <1>17 DEF LiftDirectCall, Declared
  <2>1. PICK c : c = Call("trace", image[a].taken, image[a].next) OBVIOUS
  <2>3. Emits(a, c)
    <3>1. Emit(a, c) /\ blocks[a].kind = "empty"
      BY <1>17, <2>1 DEF LiftDirectCall, Lifting
    <3>2. image[a].taken \in Addresses /\ image[a].next \in Addresses
      BY <1>9, <1>17 DEF LiftDirectCall, Lifting
    <3>3. /\ c \in Contents /\ c.kind = "call" /\ c.ran = TRUE
          /\ c.trace = image[a].taken
      BY <2>1, <3>2, CallTraceBlock
    <3> QED BY <2>2, <3>1, <3>3 DEF Emits
  <2>4. LiftUnchanged BY <1>17 DEF LiftDirectCall, Emit
  <2>5. /\ trace_work_list \subseteq trace_work_list'
        /\ trace_work_list' \subseteq Addresses
    <3>1. image[a].taken \in Addresses
      BY <1>9, <1>17 DEF LiftDirectCall, Lifting
    <3>2. trace_work_list' \in {trace_work_list,
                                trace_work_list \cup {image[a].taken}}
      BY <1>17 DEF LiftDirectCall
    <3> QED BY <3>1, <3>2
  <2> QED BY <2>3, <2>4, <2>5 DEF Goal
<1>18. CASE LiftConditionalBranch(a)
  <2>1. Emits(a, CondBr(image[a].taken, image[a].not_taken))
    BY <1>9, <1>18, CondBranchBlock
    DEF LiftConditionalBranch, Lifting, Emits
  <2> QED BY <1>1, <1>18, <2>1 DEF LiftConditionalBranch
<1>19. CASE LiftNothing(a)
  <2>1. Emits(a, Open) BY <1>19, OpenBlock DEF LiftNothing, Lifting, Emits
  <2> QED BY <1>1, <1>19, <2>1 DEF LiftNothing
<1> QED
  BY <1>2, <1>3, <1>4, <1>6, <1>7, <1>8, <1>11, <1>12, <1>13, <1>14, <1>15,
     <1>16, <1>17, <1>18, <1>19 DEF LiftInstruction

-----------------------------------------------------------------------------
(* Type correctness. *)

LEMMA TypeInitially == Init => TypeOK
<1> SUFFICES ASSUME Init PROVE TypeOK OBVIOUS
<1> QED BY DEF Init, TypeOK

LEMMA EmitTypes ==
  ASSUME TypeOK, NEW a \in inst_work_list, NEW c, Emits(a, c)
  PROVE  /\ inst_work_list' \subseteq Addresses
         /\ DOMAIN blocks' = DOMAIN blocks \cup Targets(c)
         /\ DOMAIN blocks' \subseteq Addresses
         /\ \A b \in DOMAIN blocks' : blocks'[b] \in Contents
<1>1. Targets(c) \subseteq Addresses BY TargetsAreAddresses DEF Emits
<1> QED BY <1>1, EmptyBlock DEF Emits, Emit, TypeOK

LEMMA TypeInductive == TypeOK /\ [Next]_vars => TypeOK'
<1> SUFFICES ASSUME TypeOK, [Next]_vars PROVE TypeOK' OBVIOUS
<1>1. ASSUME NEW a \in requests, CallLift(a) PROVE TypeOK'
  <2>1. a \in Nat /\ Space \in Nat \ {0}
    BY RequestsAreNat, SpaceIsPositive DEF TypeOK
  <2>2. a % Space \in 0..Space BY <2>1
  <2> QED BY <1>1, <2>2 DEF CallLift, TypeOK, Addresses
<1>2. ASSUME NEW t \in trace_work_list, SkipTrace(t) PROVE TypeOK'
  BY <1>2 DEF SkipTrace, TypeOK
<1>3. ASSUME NEW t \in trace_work_list, BeginTrace(t) PROVE TypeOK'
  <2>1. t \in Addresses BY DEF TypeOK
  <2>2. CASE t \in funcs \/ inst_work_list # {}
    BY <1>3, <2>2 DEF BeginTrace, TypeOK
  <2>3. CASE ~(t \in funcs \/ inst_work_list # {})
    BY <1>3, <2>1, <2>3, EmptyBlock DEF BeginTrace, TypeOK
  <2> QED BY <2>2, <2>3
<1>4. CASE FinishTrace
  <2>1. func \in Addresses BY <1>4 DEF FinishTrace, TypeOK
  <2>2. DOMAIN bodies' = traces' BY <1>4 DEF FinishTrace, TypeOK
  <2>3. \A t \in traces' : /\ DOMAIN bodies'[t] \subseteq Addresses
                           /\ \A a \in DOMAIN bodies'[t] :
                                bodies'[t][a] \in Contents
    <3>1. \A t \in traces' : bodies'[t] =
            IF t = func THEN [a \in DOMAIN blocks |-> Filled(blocks[a])]
            ELSE bodies[t]
      BY <1>4 DEF FinishTrace, TypeOK
    <3>2. \A a \in DOMAIN blocks : Filled(blocks[a]) \in Contents
      BY FilledBlock DEF TypeOK
    <3> QED BY <1>4, <3>1, <3>2 DEF FinishTrace, TypeOK
  <2> QED BY <1>4, <2>1, <2>2, <2>3 DEF FinishTrace, TypeOK
<1>5. ASSUME NEW a \in inst_work_list, LiftInstruction(a) PROVE TypeOK'
  <2>1. LiftUnchanged /\ trace_work_list' \subseteq Addresses
    BY <1>5, InstructionStep
  <2>2. /\ inst_work_list' \subseteq Addresses
        /\ DOMAIN blocks' \subseteq Addresses
        /\ \A b \in DOMAIN blocks' : blocks'[b] \in Contents
    BY <1>5, InstructionStep, EmitTypes DEF TypeOK
  <2> QED BY <2>1, <2>2 DEF LiftUnchanged, TypeOK
<1>6. CASE UNCHANGED vars BY <1>6 DEF vars, TypeOK
<1> QED BY <1>1, <1>2, <1>3, <1>4, <1>5, <1>6 DEF Next

(***************************************************************************)
(* Every step of Lift keeps addresses and blocks what they are, up to the  *)
(* next address past the end of the address space.                         *)
(***************************************************************************)
THEOREM TypeCorrect == Spec => []TypeOK
BY TypeInitially, TypeInductive, PTL DEF Spec

-----------------------------------------------------------------------------
(***************************************************************************)
(* The trace under construction and those that are finished are the        *)
(* functions with a body, and nothing is left on inst_work_list between    *)
(* traces: so the CHECKs hold.                                             *)
(***************************************************************************)
Bookkeeping ==
  /\ ~aborted
  /\ func = NoTrace => inst_work_list = {} /\ funcs = traces
  /\ func # NoTrace => func \notin traces /\ funcs = traces \cup {func}

LEMMA BookkeepingInductive ==
  TypeOK /\ Bookkeeping /\ [Next]_vars => Bookkeeping'
<1> SUFFICES ASSUME TypeOK, Bookkeeping, [Next]_vars PROVE Bookkeeping'
  OBVIOUS
<1>1. ASSUME NEW a \in requests, CallLift(a) PROVE Bookkeeping'
  BY <1>1 DEF CallLift, Bookkeeping
<1>2. ASSUME NEW t \in trace_work_list, SkipTrace(t) PROVE Bookkeeping'
  BY <1>2 DEF SkipTrace, Bookkeeping
<1>3. ASSUME NEW t \in trace_work_list, BeginTrace(t) PROVE Bookkeeping'
  <2>1. t \notin funcs /\ inst_work_list = {} /\ t \notin traces
    BY <1>3 DEF BeginTrace, Bookkeeping, Defined
  <2>2. t # NoTrace
    BY NoTraceIsNone, SpaceIsPositive DEF TypeOK, Addresses
  <2> QED BY <1>3, <2>1, <2>2 DEF BeginTrace, Bookkeeping
<1>4. CASE FinishTrace BY <1>4 DEF FinishTrace, Bookkeeping
<1>5. ASSUME NEW a \in inst_work_list, LiftInstruction(a)
      PROVE  Bookkeeping'
  BY <1>5, InstructionStep DEF Bookkeeping, LiftUnchanged
<1>6. CASE UNCHANGED vars BY <1>6 DEF vars, Bookkeeping
<1> QED BY <1>1, <1>2, <1>3, <1>4, <1>5, <1>6 DEF Next

LEMMA BookkeepingInitially == Init => Bookkeeping
BY DEF Init, Bookkeeping

(***************************************************************************)
(* No CHECK of Lift fails: no function that has its body is lifted into    *)
(* again, whatever calls, recursion and requests there are.                *)
(***************************************************************************)
THEOREM ChecksAlwaysHold == Spec => []ChecksHold
<1>1. Bookkeeping => ChecksHold BY DEF Bookkeeping, ChecksHold
<1> QED BY <1>1, TypeCorrect, BookkeepingInitially, BookkeepingInductive, PTL
  DEF Spec

\* What a step does to the finished traces.
LEMMA FinishedTraces ==
  ASSUME TypeOK, Bookkeeping, [Next]_vars
  PROVE  /\ traces \subseteq traces'
         /\ \A t \in traces : bodies'[t] = bodies[t]
         /\ image' = image
<1>1. ASSUME NEW a \in requests, CallLift(a)
      PROVE  UNCHANGED <<image, traces, bodies>>
  BY <1>1 DEF CallLift
<1>2. ASSUME NEW t \in trace_work_list, SkipTrace(t) \/ BeginTrace(t)
      PROVE  UNCHANGED <<image, traces, bodies>>
  BY <1>2 DEF SkipTrace, BeginTrace
<1>3. CASE FinishTrace BY <1>3 DEF FinishTrace, Bookkeeping, TypeOK
<1>4. ASSUME NEW a \in inst_work_list, LiftInstruction(a)
      PROVE  UNCHANGED <<image, traces, bodies>>
  BY <1>4, InstructionStep DEF LiftUnchanged
<1>5. CASE UNCHANGED vars BY <1>5 DEF vars
<1> QED BY <1>1, <1>2, <1>3, <1>4, <1>5 DEF Next

(***************************************************************************)
(* A trace that the manager has been given stays as it is, for good.       *)
(***************************************************************************)
THEOREM TracesAreFinal == Spec => TracesFinal
<1>1. TypeOK /\ Bookkeeping /\ [Next]_vars
        => [/\ traces \subseteq traces'
            /\ \A t \in traces : bodies'[t] = bodies[t]]_vars
  BY FinishedTraces
<1> QED BY <1>1, TypeCorrect, BookkeepingInitially, BookkeepingInductive, PTL
  DEF Spec, TracesFinal

-----------------------------------------------------------------------------
(***************************************************************************)
(* The trace under construction: its head has a block, what is still empty *)
(* is on the list, and branches lead to blocks.                            *)
(***************************************************************************)
CallsTrace(bs, a) ==
  bs[a].callee = "trace" => bs[a].kind \in {"tail", "call"}

GoodBlock(bs, a) ==
  /\ bs[a].ran \/ bs[a].callee = "trace" \/ ~HasBytes(a)
  /\ Targets(bs[a]) \subseteq DOMAIN bs

HalfComplete ==
  func # NoTrace =>
    /\ func \in DOMAIN blocks
    /\ inst_work_list \subseteq DOMAIN blocks
    /\ \A a \in DOMAIN blocks :
         /\ CallsTrace(blocks, a)
         /\ \/ blocks[a].kind = "empty" /\ a \in inst_work_list
            \/ blocks[a].kind # "empty" /\ GoodBlock(blocks, a)

LEMMA HalfCompleteInductive ==
  TypeOK /\ Bookkeeping /\ HalfComplete /\ [Next]_vars => HalfComplete'
<1> SUFFICES ASSUME TypeOK, Bookkeeping, HalfComplete, [Next]_vars
             PROVE  HalfComplete'
  OBVIOUS
<1>0. image' = image BY FinishedTraces
<1>1. CASE UNCHANGED <<func, blocks, inst_work_list>>
  BY <1>0, <1>1 DEF HalfComplete, CallsTrace, GoodBlock, HasBytes
<1>2. ASSUME NEW a \in requests, CallLift(a) PROVE HalfComplete'
  BY <1>1, <1>2 DEF CallLift
<1>3. ASSUME NEW t \in trace_work_list, SkipTrace(t) PROVE HalfComplete'
  BY <1>1, <1>3 DEF SkipTrace
<1>4. ASSUME NEW t \in trace_work_list, BeginTrace(t) PROVE HalfComplete'
  <2>1. t \notin funcs /\ inst_work_list = {}
    BY <1>4 DEF BeginTrace, Bookkeeping, Defined
  <2> QED BY <1>4, <2>1, EmptyBlock DEF BeginTrace, HalfComplete,
         CallsTrace
<1>5. CASE FinishTrace BY <1>5 DEF FinishTrace, HalfComplete
<1>6. ASSUME NEW a \in inst_work_list, LiftInstruction(a)
      PROVE  HalfComplete'
  <2>1. func # NoTrace /\ func' = func
    BY <1>6, InstructionStep DEF Bookkeeping, LiftUnchanged
  <2>2. CASE /\ blocks[a].kind # "empty"
             /\ inst_work_list' = inst_work_list \ {a}
             /\ UNCHANGED blocks
    BY <1>0, <2>1, <2>2 DEF HalfComplete, CallsTrace, GoodBlock, HasBytes
  <2>3. ASSUME NEW c, Emits(a, c) PROVE HalfComplete'
    <3>1. /\ DOMAIN blocks' = DOMAIN blocks \cup Targets(c)
          /\ inst_work_list' = (inst_work_list \ {a}) \cup Targets(c)
      BY <2>3 DEF Emits, Emit
    <3>2. ASSUME NEW b \in DOMAIN blocks'
          PROVE  /\ CallsTrace(blocks', b)
                 /\ \/ blocks'[b].kind = "empty" /\ b \in inst_work_list'
                    \/ blocks'[b].kind # "empty" /\ GoodBlock(blocks', b)
      <4>1. CASE b = a
        <5>1. blocks'[b] = c BY <2>3, <4>1 DEF Emits, Emit
        <5>2. c.ran \/ c.callee = "trace" \/ ~HasBytes(a)
          BY <2>3 DEF Emits
        <5> QED BY <2>3, <3>1, <4>1, <5>1, <5>2 DEF Emits, CallsTrace, GoodBlock
      <4>2. CASE b # a /\ b \in DOMAIN blocks
        <5>1. blocks'[b] = blocks[b] BY <2>3, <4>2 DEF Emits, Emit
        <5> QED BY <2>1, <3>1, <4>2, <5>1 DEF HalfComplete, CallsTrace, GoodBlock
      <4>3. CASE b # a /\ b \notin DOMAIN blocks
        <5>1. blocks'[b] = Empty BY <2>3, <4>3 DEF Emits, Emit
        <5> QED BY <3>1, <4>3, <5>1, EmptyBlock DEF CallsTrace
      <4> QED BY <4>1, <4>2, <4>3
    <3>3. func \in DOMAIN blocks' /\ inst_work_list' \subseteq DOMAIN blocks'
      BY <2>1, <3>1 DEF HalfComplete
    <3> QED BY <1>0, <2>1, <3>2, <3>3 DEF HalfComplete, CallsTrace, GoodBlock, HasBytes
  <2> QED BY <1>6, <2>2, <2>3, InstructionStep
<1>7. CASE UNCHANGED vars BY <1>1, <1>7 DEF vars
<1> QED BY <1>2, <1>3, <1>4, <1>5, <1>6, <1>7 DEF Next

LEMMA HalfCompleteInitially == Init => HalfComplete
BY DEF Init, HalfComplete

(***************************************************************************)
(* Every trace that the manager is given has the block of its head, a      *)
(* terminator in every block, the instruction in every block that has one, *)
(* and blocks for all targets of its branches.                             *)
(***************************************************************************)
THEOREM TracesAreComplete == Spec => []TracesComplete
<1>1. Init => TracesComplete BY DEF Init, TracesComplete
<1>2. TypeOK /\ Bookkeeping /\ HalfComplete /\ TracesComplete /\ [Next]_vars
        => TracesComplete'
  <2> SUFFICES ASSUME TypeOK, Bookkeeping, HalfComplete, TracesComplete,
                      [Next]_vars
               PROVE  TracesComplete'
    OBVIOUS
  <2>0. image' = image BY FinishedTraces
  <2> SUFFICES ASSUME NEW t \in traces'
               PROVE  /\ t \in DOMAIN bodies'[t]
                      /\ \A a \in DOMAIN bodies'[t] :
                           /\ bodies'[t][a].kind \notin {"empty", "open"}
                           /\ GoodBlock(bodies'[t], a)
    BY <2>0 DEF TracesComplete, GoodBlock, HasBytes
  <2>1. CASE t \in traces
    BY <2>1, FinishedTraces DEF TracesComplete, GoodBlock
  <2>2. CASE t \notin traces
    <3>1. FinishTrace
      BY <2>2, InstructionStep DEF Next, CallLift, SkipTrace, BeginTrace,
         LiftUnchanged, vars
    <3>2. /\ t = func /\ func # NoTrace /\ inst_work_list = {}
          /\ bodies'[t] = [a \in DOMAIN blocks |-> Filled(blocks[a])]
      BY <2>2, <3>1 DEF FinishTrace
    <3>3. ASSUME NEW a \in DOMAIN blocks
          PROVE  /\ bodies'[t][a].kind \notin {"empty", "open"}
                 /\ GoodBlock(bodies'[t], a)
      <4>1. GoodBlock(blocks, a) BY <3>2 DEF HalfComplete
      <4>2. blocks[a] \in Contents /\ bodies'[t][a] = Filled(blocks[a])
        BY <3>2 DEF TypeOK
      <4>3. /\ Filled(blocks[a]).kind \notin {"empty", "open"}
            /\ Targets(Filled(blocks[a])) = Targets(blocks[a])
            /\ Filled(blocks[a]).ran = blocks[a].ran
        BY <4>2, FilledBlock
      <4>4. /\ blocks[a].callee = "trace" => Filled(blocks[a]) = blocks[a]
            /\ Filled(blocks[a]).callee = "trace"
                 => Filled(blocks[a]) = blocks[a]
        BY <3>2, <4>2, FilledBlock DEF HalfComplete, CallsTrace
      <4> QED BY <3>2, <4>1, <4>2, <4>3, <4>4 DEF GoodBlock
    <3> QED BY <3>2, <3>3 DEF HalfComplete
  <2> QED BY <2>1, <2>2
<1> QED BY <1>1, <1>2, TypeCorrect, BookkeepingInitially,
           BookkeepingInductive, HalfCompleteInitially,
           HalfCompleteInductive, PTL DEF Spec

-----------------------------------------------------------------------------
(***************************************************************************)
(* What a trace may call: whatever has a body, is known to the manager, is *)
(* being lifted or still has to be.                                        *)
(***************************************************************************)
Callable == traces \cup Foreign \cup Known \cup trace_work_list
            \cup ({func} \ {NoTrace})

TracesCalledIn(body) ==
  {body[a].trace : a \in {b \in DOMAIN body : body[b].callee = "trace"}}

CallsQueued ==
  /\ \A t \in traces : TracesCalledIn(bodies[t]) \subseteq Callable
  /\ func # NoTrace => TracesCalledIn(blocks) \subseteq Callable

\* Nothing drops out: a trace leaves the list to be lifted, or because it is
\* defined.
LEMMA CallableGrows ==
  ASSUME TypeOK, Bookkeeping, [Next]_vars PROVE Callable \subseteq Callable'
<1> USE DEF Callable
<1>1. ASSUME NEW a \in requests, CallLift(a)
      PROVE  Callable \subseteq Callable'
  BY <1>1 DEF CallLift, Idle
<1>2. ASSUME NEW t \in trace_work_list, SkipTrace(t)
      PROVE  Callable \subseteq Callable'
  BY <1>2 DEF SkipTrace, Defined
<1>3. ASSUME NEW t \in trace_work_list, BeginTrace(t)
      PROVE  Callable \subseteq Callable'
  <2>1. t \notin funcs /\ inst_work_list = {}
    BY <1>3 DEF BeginTrace, Bookkeeping, Defined
  <2>2. t # NoTrace
    BY NoTraceIsNone, SpaceIsPositive DEF TypeOK, Addresses
  <2> QED BY <1>3, <2>1, <2>2 DEF BeginTrace
<1>4. CASE FinishTrace BY <1>4 DEF FinishTrace
<1>5. ASSUME NEW a \in inst_work_list, LiftInstruction(a)
      PROVE  Callable \subseteq Callable'
  BY <1>5, InstructionStep DEF LiftUnchanged
<1>6. CASE UNCHANGED vars BY <1>6 DEF vars
<1> QED BY <1>1, <1>2, <1>3, <1>4, <1>5, <1>6 DEF Next

LEMMA CallsQueuedInductive ==
  TypeOK /\ Bookkeeping /\ CallsQueued /\ [Next]_vars => CallsQueued'
<1> SUFFICES ASSUME TypeOK, Bookkeeping, CallsQueued, [Next]_vars
             PROVE  CallsQueued'
  OBVIOUS
<1>1. Callable \subseteq Callable' BY CallableGrows
<1>2. ASSUME NEW t \in traces
      PROVE  TracesCalledIn(bodies'[t]) \subseteq Callable'
  <2>1. bodies'[t] = bodies[t] BY FinishedTraces
  <2> QED BY <1>1, <2>1 DEF CallsQueued
<1>3. CASE traces' = traces /\ UNCHANGED <<func, blocks>>
  BY <1>1, <1>2, <1>3 DEF CallsQueued
<1>4. ASSUME NEW a \in requests, CallLift(a) PROVE CallsQueued'
  BY <1>3, <1>4 DEF CallLift
<1>5. ASSUME NEW t \in trace_work_list, SkipTrace(t) PROVE CallsQueued'
  BY <1>3, <1>5 DEF SkipTrace
<1>6. ASSUME NEW t \in trace_work_list, BeginTrace(t) PROVE CallsQueued'
  <2>1. t \notin funcs /\ inst_work_list = {}
    BY <1>6 DEF BeginTrace, Bookkeeping, Defined
  <2>2. /\ traces' = traces
        /\ DOMAIN blocks' = {t} /\ blocks'[t] = Empty
    BY <1>6, <2>1 DEF BeginTrace
  <2>3. TracesCalledIn(blocks') = {} BY <2>2, EmptyBlock DEF TracesCalledIn
  <2> QED BY <1>2, <2>2, <2>3 DEF CallsQueued
<1>7. CASE FinishTrace
  <2>1. /\ func # NoTrace /\ func' = NoTrace
        /\ traces' = traces \cup {func} /\ func \notin traces
        /\ bodies'[func] = [a \in DOMAIN blocks |-> Filled(blocks[a])]
    BY <1>7 DEF FinishTrace, Bookkeeping
  <2>2. TracesCalledIn(bodies'[func]) \subseteq TracesCalledIn(blocks)
    <3> SUFFICES ASSUME NEW a \in DOMAIN blocks,
                        Filled(blocks[a]).callee = "trace"
                 PROVE  Filled(blocks[a]).trace \in TracesCalledIn(blocks)
      BY <2>1 DEF TracesCalledIn
    <3>1. blocks[a] \in Contents BY DEF TypeOK
    <3>2. Filled(blocks[a]) = blocks[a] BY <3>1, FilledBlock
    <3> QED BY <3>2 DEF TracesCalledIn
  <2>3. TracesCalledIn(bodies'[func]) \subseteq Callable'
    BY <1>1, <2>1, <2>2 DEF CallsQueued
  <2> QED BY <1>2, <2>1, <2>3 DEF CallsQueued
<1>8. ASSUME NEW a \in inst_work_list, LiftInstruction(a)
      PROVE  CallsQueued'
  <2>1. func # NoTrace /\ func' = func /\ traces' = traces
    BY <1>8, InstructionStep DEF Bookkeeping, LiftUnchanged
  <2>2. CASE UNCHANGED blocks BY <1>3, <2>1, <2>2
  <2>3. ASSUME NEW c, Emits(a, c) PROVE CallsQueued'
    <3>1. /\ DOMAIN blocks' = DOMAIN blocks \cup Targets(c)
          /\ \A b \in DOMAIN blocks' :
               blocks'[b] = IF b = a THEN c
                            ELSE IF b \in DOMAIN blocks THEN blocks[b]
                            ELSE Empty
      BY <2>3 DEF Emits, Emit
    <3>2. c.callee = "trace" => c.trace \in Callable'
      BY <2>1, <2>3 DEF Emits, Callable
    <3>3. ASSUME NEW b \in DOMAIN blocks', blocks'[b].callee = "trace"
          PROVE  blocks'[b].trace \in Callable'
      <4>1. CASE b = a BY <3>1, <3>2, <3>3, <4>1
      <4>2. CASE b # a /\ b \in DOMAIN blocks
        <5>1. blocks'[b] = blocks[b] BY <3>1, <4>2
        <5>2. blocks[b].trace \in TracesCalledIn(blocks)
          BY <3>3, <4>2, <5>1 DEF TracesCalledIn
        <5> QED BY <1>1, <2>1, <5>1, <5>2 DEF CallsQueued
      <4>3. CASE b # a /\ b \notin DOMAIN blocks
        BY <3>1, <3>3, <4>3, EmptyBlock
      <4> QED BY <4>1, <4>2, <4>3
    <3>4. TracesCalledIn(blocks') \subseteq Callable'
      BY <3>3 DEF TracesCalledIn
    <3> QED BY <1>2, <2>1, <3>4 DEF CallsQueued
  <2> QED BY <1>8, <2>2, <2>3, InstructionStep
<1>9. CASE UNCHANGED vars BY <1>3, <1>9 DEF vars
<1> QED BY <1>4, <1>5, <1>6, <1>7, <1>8, <1>9 DEF Next

LEMMA CallsQueuedInitially == Init => CallsQueued
BY DEF Init, CallsQueued

(***************************************************************************)
(* Whenever no call of Lift is under way, the traces that lifted code      *)
(* calls have bodies, or were declared by the manager.                     *)
(***************************************************************************)
THEOREM CalledTracesAreDefined == Spec => []CalledTracesDefined
<1>1. CallsQueued => CalledTracesDefined
  <2> SUFFICES ASSUME CallsQueued, Idle, NEW t \in traces
               PROVE  CalledBy(t) \subseteq traces \cup Foreign \cup Known
    BY DEF CalledTracesDefined
  <2>1. CalledBy(t) = TracesCalledIn(bodies[t])
    BY DEF CalledBy, TracesCalledIn
  <2> QED BY <2>1 DEF CallsQueued, Callable, Idle
<1> QED BY <1>1, TypeCorrect, BookkeepingInitially, BookkeepingInductive,
           CallsQueuedInitially, CallsQueuedInductive, PTL DEF Spec

-----------------------------------------------------------------------------
(***************************************************************************)
(* A set of blocks that holds the head and is closed under branches is all *)
(* of them: every block can be reached.                                    *)
(***************************************************************************)
Reachable(body, t) ==
  \A S \in SUBSET DOMAIN body :
    (t \in S /\ \A a \in S : Targets(body[a]) \subseteq S) => S = DOMAIN body

ReachableSoFar == func # NoTrace => Reachable(blocks, func)

\* A block that is filled was empty, so its targets are reached through it.
LEMMA EmitReaches ==
  ASSUME TypeOK, HalfComplete, ReachableSoFar, func # NoTrace,
         NEW a \in inst_work_list, NEW c, Emits(a, c)
  PROVE  Reachable(blocks', func)
<1> SUFFICES ASSUME NEW S \in SUBSET DOMAIN blocks', func \in S,
                    \A b \in S : Targets(blocks'[b]) \subseteq S
             PROVE  S = DOMAIN blocks'
  BY DEF Reachable
<1>1. /\ DOMAIN blocks' = DOMAIN blocks \cup Targets(c)
      /\ \A b \in DOMAIN blocks :
           blocks'[b] = IF b = a THEN c ELSE blocks[b]
  BY DEF Emits, Emit
<1> DEFINE T == S \cap DOMAIN blocks
<1>2. T \in SUBSET DOMAIN blocks /\ func \in T BY DEF HalfComplete
<1>3. ASSUME NEW b \in T PROVE Targets(blocks[b]) \subseteq T
  <2>1. CASE blocks[b].kind = "empty"
    <3>1. blocks[b] \in Contents BY DEF TypeOK
    <3> QED BY <2>1, <3>1, TargetsByKind
  <2>2. CASE blocks[b].kind # "empty"
    <3>1. Targets(blocks[b]) \subseteq DOMAIN blocks
      BY <2>2 DEF HalfComplete, GoodBlock
    <3>2. blocks'[b] = blocks[b] BY <1>1, <2>2 DEF Emits
    <3> QED BY <3>1, <3>2
  <2> QED BY <2>1, <2>2
<1>4. T = DOMAIN blocks BY <1>2, <1>3 DEF ReachableSoFar, Reachable
<1>5. Targets(c) \subseteq S
  <2>1. a \in DOMAIN blocks BY DEF HalfComplete
  <2> QED BY <1>1, <1>4, <2>1
<1> QED BY <1>1, <1>4, <1>5

LEMMA ReachableInductive ==
  TypeOK /\ Bookkeeping /\ HalfComplete /\ ReachableSoFar /\ [Next]_vars
    => ReachableSoFar'
<1> SUFFICES ASSUME TypeOK, Bookkeeping, HalfComplete, ReachableSoFar,
                    [Next]_vars
             PROVE  ReachableSoFar'
  OBVIOUS
<1>1. CASE UNCHANGED <<func, blocks>> BY <1>1 DEF ReachableSoFar
<1>2. ASSUME NEW a \in requests, CallLift(a) PROVE ReachableSoFar'
  BY <1>1, <1>2 DEF CallLift
<1>3. ASSUME NEW t \in trace_work_list, SkipTrace(t) PROVE ReachableSoFar'
  BY <1>1, <1>3 DEF SkipTrace
<1>4. ASSUME NEW t \in trace_work_list, BeginTrace(t) PROVE ReachableSoFar'
  <2>1. t \notin funcs /\ inst_work_list = {}
    BY <1>4 DEF BeginTrace, Bookkeeping, Defined
  <2>2. func' = t /\ DOMAIN blocks' = {t} BY <1>4, <2>1 DEF BeginTrace
  <2> QED BY <2>2 DEF ReachableSoFar, Reachable
<1>5. CASE FinishTrace BY <1>5 DEF FinishTrace, ReachableSoFar
<1>6. ASSUME NEW a \in inst_work_list, LiftInstruction(a)
      PROVE  ReachableSoFar'
  <2>1. func # NoTrace /\ func' = func
    BY <1>6, InstructionStep DEF Bookkeeping, LiftUnchanged
  <2>2. CASE UNCHANGED blocks BY <1>1, <2>1, <2>2
  <2>3. ASSUME NEW c, Emits(a, c) PROVE ReachableSoFar'
    BY <2>1, <2>3, EmitReaches DEF ReachableSoFar
  <2> QED BY <1>6, <2>2, <2>3, InstructionStep
<1>7. CASE UNCHANGED vars BY <1>1, <1>7 DEF vars
<1> QED BY <1>2, <1>3, <1>4, <1>5, <1>6, <1>7 DEF Next

LEMMA ReachableInitially == Init => ReachableSoFar
BY DEF Init, ReachableSoFar

(***************************************************************************)
(* No trace has a block that its own branches do not lead to from its      *)
(* head: GetOrCreateBlock is only called for targets.                      *)
(***************************************************************************)
THEOREM TracesAreMinimal == Spec => []NoStrayBlocks
<1>1. Init => NoStrayBlocks BY DEF Init, NoStrayBlocks
<1>2. TypeOK /\ Bookkeeping /\ ReachableSoFar /\ NoStrayBlocks /\ [Next]_vars
        => NoStrayBlocks'
  <2> SUFFICES ASSUME TypeOK, Bookkeeping, ReachableSoFar, NoStrayBlocks,
                      [Next]_vars, NEW t \in traces'
               PROVE  Reachable(bodies'[t], t)
    BY DEF NoStrayBlocks, Reachable
  <2>1. CASE t \in traces
    BY <2>1, FinishedTraces DEF NoStrayBlocks, Reachable
  <2>2. CASE t \notin traces
    <3>1. FinishTrace
      BY <2>2, InstructionStep DEF Next, CallLift, SkipTrace, BeginTrace,
         LiftUnchanged, vars
    <3>2. /\ t = func /\ func # NoTrace
          /\ bodies'[t] = [a \in DOMAIN blocks |-> Filled(blocks[a])]
      BY <2>2, <3>1 DEF FinishTrace
    <3>3. \A a \in DOMAIN blocks :
            Targets(bodies'[t][a]) = Targets(blocks[a])
      BY <3>2, FilledBlock DEF TypeOK
    <3> QED BY <3>2, <3>3 DEF ReachableSoFar, Reachable
  <2> QED BY <2>1, <2>2
<1> QED BY <1>1, <1>2, TypeCorrect, BookkeepingInitially,
           BookkeepingInductive, HalfCompleteInitially,
           HalfCompleteInductive, ReachableInitially, ReachableInductive, PTL
        DEF Spec

-----------------------------------------------------------------------------
(***************************************************************************)
(* The block c of address a does what the instruction at a does: control   *)
(* goes where the machine goes.                                            *)
(***************************************************************************)
FollowsCode(c, a) ==
  /\ c.ran => HasBytes(a)
  /\ c.kind \in {"open", "br", "condbr", "call", "condcall"} => c.ran
  /\ c.kind \in {"br", "condcall"} => M!Successors(image[a]) = {c.to}
  /\ c.kind = "condbr" => /\ image[a].category = "ConditionalBranch"
                          /\ c.to = image[a].taken /\ c.els = image[a].not_taken
  /\ c.callee = "trace" =>
       \/ c.kind = "call" /\ M!Successors(image[a]) = {c.trace}
       \/ c.kind = "tail" /\ ~c.ran /\ c.trace = a

FaithfulBlocks ==
  /\ \A a \in DOMAIN blocks : FollowsCode(blocks[a], a)
  /\ \A t \in traces : \A a \in DOMAIN bodies[t] : FollowsCode(bodies[t][a], a)

(***************************************************************************)
(* Frames: a lifted function is in one of its blocks, and all but the      *)
(* running one wait behind a call.                                         *)
(***************************************************************************)
InItsTrace(f) ==
  f.kind = "lifted" =>
    /\ f.trace \in traces /\ f.at \in DOMAIN bodies[f.trace]
    /\ f.stage = "check" => bodies[f.trace][f.at].kind \in {"call", "condcall"}

Waiting(f) == f.kind = "lifted" => f.stage = "check"

GoodFrames ==
  /\ \A i \in 1..Len(stack) : InItsTrace(stack[i])
  /\ \A i \in 1..Len(stack) - 1 : Waiting(stack[i])

\* The newest pointer is at hand, unless a call has just returned.
Returning(f) == f.kind = "lifted" /\ f.stage = "check"
NewestMemory == ~resumed => Returning(Top) \/ Top.memory = last

\* A lifted function that is running is at the PC.
AtPC(f, p) == f.kind = "lifted" /\ f.stage = "run" => p = f.at

-----------------------------------------------------------------------------
(* What the lifter puts into a block follows the code. *)

LEMMA SuccessorsByCategory ==
  ASSUME TypeOK, NEW a \in Addresses, HasBytes(a)
  PROVE  /\ a \in DOMAIN image
         /\ M!Successors(image[a]) \subseteq Addresses
         /\ image[a].category \in {"DirectJump", "DirectFunctionCall"}
              => M!Successors(image[a]) = {image[a].taken}
         /\ image[a].category = "ConditionalBranch"
              => M!Successors(image[a]) = {image[a].taken, image[a].not_taken}
         /\ image[a].category \in {"Normal", "NoOp", "ConditionalAsyncHyperCall"}
              => M!Successors(image[a]) = {image[a].next}
<1>1. a \in DOMAIN image
  <2>1. a \in 0..Space /\ Space \in Nat \ {0} /\ a % Space >= a
    BY SpaceIsPositive DEF Addresses, HasBytes
  <2>2. a \in 0..Space - 1 BY <2>1
  <2> QED BY <2>2, ImagesAreCode DEF TypeOK
<1>2. /\ image[a].next \in Addresses /\ image[a].taken \in Addresses
      /\ image[a].not_taken \in Addresses /\ image[a].category \in Categories
  BY InstructionTypes
<1>3. M!Successors(image[a]) \subseteq Addresses
  BY <1>2 DEF M!Successors, Categories
<1> QED BY <1>1, <1>2, <1>3 DEF M!Successors

\* The blocks that the constructors make.
LEMMA EmptyFollows == ASSUME NEW a PROVE FollowsCode(Empty, a)
BY DEF FollowsCode, Empty

LEMMA BranchFollows ==
  ASSUME NEW a, NEW t, HasBytes(a), M!Successors(image[a]) = {t}
  PROVE  FollowsCode(Br(t), a)
BY DEF FollowsCode, Br, Empty

LEMMA CondBranchFollows ==
  ASSUME NEW a, HasBytes(a), image[a].category = "ConditionalBranch"
  PROVE  FollowsCode(CondBr(image[a].taken, image[a].not_taken), a)
BY DEF FollowsCode, CondBr, Empty

LEMMA TailCallFollows ==
  ASSUME NEW a, NEW callee \in Callees \ {"trace"}, NEW ran \in BOOLEAN,
         ran => HasBytes(a)
  PROVE  FollowsCode(TailCall(callee, ran), a)
BY DEF FollowsCode, TailCall, Empty

LEMMA TailTraceFollows == ASSUME NEW a PROVE FollowsCode(TailTrace(a), a)
BY DEF FollowsCode, TailTrace, TailCall, Empty

LEMMA CallFollows ==
  ASSUME NEW a, NEW callee \in Callees, NEW t, NEW next, HasBytes(a),
         callee = "trace" => M!Successors(image[a]) = {t}
  PROVE  FollowsCode(Call(callee, t, next), a)
BY DEF FollowsCode, Call, Empty

LEMMA CondCallFollows ==
  ASSUME NEW a, NEW callee \in Callees \ {"trace"}, NEW next, HasBytes(a),
         M!Successors(image[a]) = {next}
  PROVE  FollowsCode(CondCall(callee, next), a)
BY DEF FollowsCode, CondCall, Call, Empty

LEMMA OpenFollows == ASSUME NEW a, HasBytes(a) PROVE FollowsCode(Open, a)
BY DEF FollowsCode, Open, Empty

\* A block that is left without a terminator is no branch and calls nothing.
LEMMA FilledFollows ==
  ASSUME NEW a, NEW c \in Contents, FollowsCode(c, a)
  PROVE  FollowsCode(Filled(c), a)
<1>1. CASE c.kind \in {"empty", "open"}
  <2>1. c.ran \in BOOLEAN /\ (c.ran => HasBytes(a))
    BY DEF Contents, FollowsCode
  <2>2. "missing_block" \in Callees \ {"trace"} BY DEF Callees
  <2> QED BY <1>1, <2>1, <2>2, TailCallFollows DEF Filled
<1>2. CASE c.kind \notin {"empty", "open"} BY <1>2 DEF Filled
<1> QED BY <1>1, <1>2

LEMMA EmittedBlockFollows ==
  ASSUME TypeOK, NEW a \in inst_work_list, LiftInstruction(a)
  PROVE  UNCHANGED blocks \/ \E c : Emit(a, c) /\ FollowsCode(c, a)
<1> DEFINE Goal == UNCHANGED blocks \/ \E c : Emit(a, c) /\ FollowsCode(c, a)
<1> a \in Addresses BY DEF TypeOK
<1> HIDE DEF Goal
<1> SUFFICES Goal BY DEF Goal
<1>1. ASSUME NEW c, Emit(a, c), FollowsCode(c, a) PROVE Goal
  BY <1>1 DEF Goal
<1>2. CASE LiftAgain(a) BY <1>2 DEF LiftAgain, Goal
<1>3. CASE LiftTailCall(a)
  BY <1>1, <1>3, TailTraceFollows DEF LiftTailCall
<1>4. CASE LiftNoBytes(a)
  <2>1. "missing_block" \in Callees \ {"trace"} BY DEF Callees
  <2> QED BY <1>1, <1>4, <2>1, TailCallFollows DEF LiftNoBytes
<1>5. CASE LiftError(a)
  <2>1. "error" \in Callees \ {"trace"} BY DEF Callees
  <2> QED BY <1>1, <1>5, <2>1, TailCallFollows DEF LiftError, Lifting
<1>6. CASE LiftFallThrough(a)
  <2>1. M!Successors(image[a]) = {image[a].next}
    BY <1>6, SuccessorsByCategory DEF LiftFallThrough, Lifting
  <2> QED BY <1>1, <1>6, <2>1, BranchFollows DEF LiftFallThrough, Lifting
<1>7. CASE LiftDirectJump(a)
  <2>1. M!Successors(image[a]) = {image[a].taken}
    BY <1>7, SuccessorsByCategory DEF LiftDirectJump, Lifting
  <2> QED BY <1>1, <1>7, <2>1, BranchFollows DEF LiftDirectJump, Lifting
<1>8. CASE LiftIndirectJump(a)
  <2>1. "jump" \in Callees \ {"trace"} BY DEF Callees
  <2> QED BY <1>1, <1>8, <2>1, TailCallFollows DEF LiftIndirectJump, Lifting
<1>9. CASE LiftHyperCall(a)
  <2>1. "async_hyper_call" \in Callees \ {"trace"} BY DEF Callees
  <2> QED BY <1>1, <1>9, <2>1, CallFollows DEF LiftHyperCall, Lifting
<1>10. CASE LiftConditionalHyperCall(a)
  <2>1. "async_hyper_call" \in Callees \ {"trace"} BY DEF Callees
  <2>2. M!Successors(image[a]) = {image[a].next}
    BY <1>10, SuccessorsByCategory DEF LiftConditionalHyperCall, Lifting
  <2> QED BY <1>1, <1>10, <2>1, <2>2, CondCallFollows
          DEF LiftConditionalHyperCall, Lifting
<1>11. CASE LiftIndirectCall(a)
  <2>1. "function_call" \in Callees \ {"trace"} BY DEF Callees
  <2> QED BY <1>1, <1>11, <2>1, CallFollows DEF LiftIndirectCall, Lifting
\* The call that only reads the PC is a branch to where it would have gone.
<1>12. CASE LiftCallOfNext(a)
  <2>1. M!Successors(image[a]) = {image[a].next}
    BY <1>12, SuccessorsByCategory DEF LiftCallOfNext, Lifting
  <2> QED BY <1>1, <1>12, <2>1, BranchFollows DEF LiftCallOfNext, Lifting
<1>13. CASE LiftDirectCall(a)
  <2>1. M!Successors(image[a]) = {image[a].taken}
    BY <1>13, SuccessorsByCategory DEF LiftDirectCall, Lifting
  <2>2. FollowsCode(Call("trace", image[a].taken, image[a].next), a)
    BY <1>13, <2>1, CallFollows DEF LiftDirectCall, Lifting, Callees
  <2> QED BY <1>1, <1>13, <2>2 DEF LiftDirectCall
<1>14. CASE LiftReturn(a)
  <2>1. "function_return" \in Callees \ {"trace"} BY DEF Callees
  <2> QED BY <1>1, <1>14, <2>1, TailCallFollows DEF LiftReturn, Lifting
<1>15. CASE LiftConditionalBranch(a)
  BY <1>1, <1>15, CondBranchFollows DEF LiftConditionalBranch, Lifting
<1>16. CASE LiftNothing(a)
  BY <1>1, <1>16, OpenFollows DEF LiftNothing, Lifting
<1> QED
  BY <1>2, <1>3, <1>4, <1>5, <1>6, <1>7, <1>8, <1>9, <1>10, <1>11, <1>12,
     <1>13, <1>14, <1>15, <1>16 DEF LiftInstruction

LEMMA FaithfulInitially == Init => FaithfulBlocks
BY DEF Init, FaithfulBlocks

LEMMA FaithfulInductive ==
  TypeOK /\ Bookkeeping /\ FaithfulBlocks /\ [Next]_vars => FaithfulBlocks'
<1> SUFFICES ASSUME TypeOK, Bookkeeping, FaithfulBlocks, [Next]_vars
             PROVE  FaithfulBlocks'
  OBVIOUS
<1>1. \A c, a : FollowsCode(c, a)' <=> FollowsCode(c, a)
  <2>1. image' = image BY FinishedTraces
  <2> QED BY <2>1 DEF FollowsCode, HasBytes, M!Successors
<1>2. CASE UNCHANGED <<blocks, traces, bodies>>
  BY <1>1, <1>2 DEF FaithfulBlocks
<1>3. ASSUME NEW a \in requests, CallLift(a) PROVE FaithfulBlocks'
  BY <1>2, <1>3 DEF CallLift
<1>4. ASSUME NEW t \in trace_work_list, SkipTrace(t) PROVE FaithfulBlocks'
  BY <1>2, <1>4 DEF SkipTrace
<1>5. ASSUME NEW t \in trace_work_list, BeginTrace(t) PROVE FaithfulBlocks'
  <2>1. t \notin funcs /\ inst_work_list = {}
    BY <1>5 DEF BeginTrace, Bookkeeping, Defined
  <2>2. blocks' = [a \in {t} |-> Empty] /\ UNCHANGED <<traces, bodies>>
    BY <1>5, <2>1 DEF BeginTrace
  <2> QED BY <1>1, <2>2, EmptyFollows DEF FaithfulBlocks
<1>6. CASE FinishTrace
  <2>1. /\ DOMAIN blocks' = {} /\ traces' = traces \cup {func}
        /\ bodies'[func] = [a \in DOMAIN blocks |-> Filled(blocks[a])]
    BY <1>6 DEF FinishTrace
  <2>2. \A t \in traces : bodies'[t] = bodies[t] BY FinishedTraces
  <2>3. \A a \in DOMAIN blocks : FollowsCode(Filled(blocks[a]), a)
    BY FilledFollows DEF TypeOK, FaithfulBlocks
  <2>4. ASSUME NEW t \in traces', NEW a \in DOMAIN bodies'[t]
        PROVE  FollowsCode(bodies'[t][a], a)
    <3>1. CASE t = func BY <2>1, <2>3, <3>1
    <3>2. CASE t \in traces BY <2>2, <3>2 DEF FaithfulBlocks
    <3> QED BY <2>1, <3>1, <3>2
  <2> QED BY <1>1, <2>1, <2>4 DEF FaithfulBlocks
<1>7. ASSUME NEW a \in inst_work_list, LiftInstruction(a)
      PROVE  FaithfulBlocks'
  <2>1. UNCHANGED <<traces, bodies>>
    BY <1>7, InstructionStep DEF LiftUnchanged
  <2>2. ASSUME NEW c, Emit(a, c), FollowsCode(c, a) PROVE FaithfulBlocks'
    <3>1. \A b \in DOMAIN blocks' :
            \/ b = a /\ blocks'[b] = c
            \/ blocks'[b] = Empty
            \/ b \in DOMAIN blocks /\ blocks'[b] = blocks[b]
      BY <2>2 DEF Emit
    <3> QED BY <1>1, <2>1, <2>2, <3>1, EmptyFollows DEF FaithfulBlocks
  <2> QED BY <1>2, <1>7, <2>1, <2>2, EmittedBlockFollows
<1>8. CASE UNCHANGED vars BY <1>2, <1>8 DEF vars
<1> QED BY <1>3, <1>4, <1>5, <1>6, <1>7, <1>8 DEF Next

-----------------------------------------------------------------------------
(* Running lifted code is no step of the lifter. *)

LEMMA RunStepsAreLifterSteps == [RunNext]_allVars => [Next]_vars
BY DEF RunNext, allVars, RunBranch, RunConditionalBranch, RunTailCall,
       RunTailCallAfter, RunCall, RunNoHyperCall, RunCheck, RuntimeStep,
       RuntimeEnter, RuntimeReturn

LEMMA RunsLift == RunSpec => Spec
BY RunStepsAreLifterSteps, PTL DEF RunSpec, RunInit, Spec

\* What the first part and FaithfulBlocks say of the state.
Lifted ==
  TypeOK /\ Bookkeeping /\ HalfComplete /\ TracesComplete /\ FaithfulBlocks

LEMMA LiftedAlways == Spec => []Lifted
<1>1. Spec => []Bookkeeping
  BY TypeCorrect, BookkeepingInitially, BookkeepingInductive, PTL DEF Spec
<1>2. Spec => []HalfComplete
  BY <1>1, TypeCorrect, HalfCompleteInitially, HalfCompleteInductive, PTL
  DEF Spec
<1>3. Spec => []FaithfulBlocks
  BY <1>1, TypeCorrect, FaithfulInitially, FaithfulInductive, PTL DEF Spec
<1> QED BY <1>1, <1>2, <1>3, TypeCorrect, TracesAreComplete, PTL DEF Lifted

-----------------------------------------------------------------------------
(* Frames and stacks. *)

\* The inductive invariant: RunsAtItsPC is the part that matters.
RunTypes == /\ pc \in Addresses /\ stack \in Seq(Frames) /\ stack # <<>>
            /\ last \in Nat /\ resumed \in BOOLEAN
RunInv == RunTypes /\ GoodFrames /\ RunsAtItsPC /\ NewestMemory

LEMMA TopOfStack ==
  ASSUME RunTypes
  PROVE  Depth \in Nat \ {0} /\ Depth \in 1..Len(stack) /\ Top \in Frames
BY DEF RunTypes, Depth, Top

LEMMA RuntimeFrame ==
  ASSUME NEW mem \in Nat
  PROVE  /\ Runtime(mem) \in Frames /\ Runtime(mem).kind = "runtime"
         /\ Runtime(mem).memory = mem
BY ZeroIsAddress DEF Runtime, Frames

LEMMA FrameThatWaits ==
  ASSUME NEW f \in Frames, NEW mem \in Nat
  PROVE  LET g == [f EXCEPT !.stage = "check", !.memory = mem] IN
         /\ g \in Frames /\ g.kind = f.kind /\ g.trace = f.trace
         /\ g.stage = "check" /\ g.at = f.at
BY DEF Frames

LEMMA FrameThatResumes ==
  ASSUME NEW f \in Frames, NEW a \in Addresses
  PROVE  LET g == [f EXCEPT !.stage = "run", !.at = a] IN
         /\ g \in Frames /\ g.kind = f.kind /\ g.trace = f.trace
         /\ g.stage = "run" /\ g.at = a
BY DEF Frames

\* A function is entered at the head of its trace.
LEMMA EnteringFrame ==
  ASSUME Lifted, NEW t \in Addresses, NEW mem \in Nat
  PROVE  LET f == Entering(t, mem) IN
         /\ f \in Frames /\ InItsTrace(f) /\ f.memory = mem
         /\ f.kind = "lifted" => f.at = t
<1>1. CASE t \in traces
  <2>1. t \in DOMAIN bodies[t] BY <1>1 DEF Lifted, TracesComplete
  <2> QED BY <1>1, <2>1 DEF Entering, Frames, InItsTrace
<1>2. CASE t \notin traces
  BY <1>2, RuntimeFrame DEF Entering, InItsTrace
<1> QED BY <1>1, <1>2

LEMMA CalleesFrame ==
  ASSUME Lifted, NEW c \in Contents, NEW mem \in Nat
  PROVE  LET f == CalleeFrame(c, mem) IN
         /\ f \in Frames /\ InItsTrace(f) /\ f.memory = mem
         /\ f.kind = "lifted" => c.callee = "trace" /\ f.at = c.trace
<1>1. c.trace \in Addresses BY DEF Contents
<1>2. CASE c.callee = "trace"
  BY <1>1, <1>2, EnteringFrame DEF CalleeFrame
<1>3. CASE c.callee # "trace"
  BY <1>3, RuntimeFrame DEF CalleeFrame, InItsTrace
<1> QED BY <1>2, <1>3

\* Where a lifted function is.
LEMMA LiftedFrame ==
  ASSUME Lifted, RunInv, Top.kind = "lifted"
  PROVE  /\ Top.at \in Addresses /\ Content \in Contents
         /\ FollowsCode(Content, Top.at)
         /\ Targets(Content) \subseteq DOMAIN bodies[Top.trace]
         /\ Content.kind \notin {"empty", "open"}
         /\ Top.trace \in traces
         /\ Top.stage = "check" => Content.kind \in {"call", "condcall"}
<1>1. InItsTrace(Top) /\ Top \in Frames
  BY TopOfStack DEF RunInv, GoodFrames, Top
<1>2. Top.trace \in traces /\ Top.at \in DOMAIN bodies[Top.trace]
  BY <1>1 DEF InItsTrace
<1>3. Content \in Contents /\ Top.at \in Addresses
  BY <1>2 DEF Content, Lifted, TypeOK
<1>4. /\ FollowsCode(Content, Top.at)
      /\ Targets(Content) \subseteq DOMAIN bodies[Top.trace]
      /\ Content.kind \notin {"empty", "open"}
  BY <1>2 DEF Content, Lifted, FaithfulBlocks, TracesComplete
<1> QED BY <1>1, <1>2, <1>3, <1>4 DEF InItsTrace, Content

\* ... while it runs.
LEMMA RunningBlock ==
  ASSUME Lifted, RunInv, NEW kinds, InBlock(kinds)
  PROVE  /\ Content.kind \in kinds /\ pc = Top.at
         /\ Top.kind = "lifted" /\ Top.stage = "run"
         /\ Content.ran => /\ pc \in DOMAIN image
                          /\ M!Successors(Executed) \subseteq Addresses
<1>1. /\ Content.kind \in kinds /\ Top.kind = "lifted" /\ Top.stage = "run"
  BY DEF InBlock, Content
<1>2. pc = Top.at BY <1>1 DEF RunInv, RunsAtItsPC
<1>3. Content.ran => HasBytes(Top.at)
  BY <1>1, LiftedFrame DEF FollowsCode
<1> QED BY <1>1, <1>2, <1>3, LiftedFrame, SuccessorsByCategory
        DEF Executed, Lifted

LEMMA MemoryStep ==
  ASSUME RunInv, NEW inst, Execute(inst), ~Returning(Top)
  PROVE  /\ last' \in Nat /\ MemoryAfter(inst) \in Nat
         /\ ~resumed => MemoryAfter(inst) = last'
<1>1. Top.memory \in Nat BY TopOfStack DEF RunInv, Frames
<1>2. ~resumed => Top.memory = last BY DEF RunInv, NewestMemory
<1> QED BY <1>1, <1>2 DEF Execute, MemoryAfter, RunInv, RunTypes

-----------------------------------------------------------------------------
(* The three things that happen to the stack. *)

\* What the running frame of the next state has to be.
MayRun(f, p, newest, after) ==
  /\ f \in Frames /\ InItsTrace(f) /\ AtPC(f, p)
  /\ ~after => Returning(f) \/ f.memory = newest

LEMMA RunInvByTop ==
  ASSUME RunInv, UNCHANGED vars,
         pc' \in Addresses, last' \in Nat, resumed' \in BOOLEAN,
         stack' \in Seq(Frames), stack' # <<>>,
         \A i \in 1..Len(stack') : InItsTrace(stack'[i]),
         \A i \in 1..Len(stack') - 1 : Waiting(stack'[i]),
         MayRun(stack'[Len(stack')], pc', last', resumed')
  PROVE  RunInv'
<1>1. RunTypes' BY DEF RunTypes
<1>2. \A f : InItsTrace(f)' <=> InItsTrace(f) BY DEF InItsTrace, vars
<1>3. \A f : Waiting(f)' <=> Waiting(f) BY DEF Waiting
<1>4. GoodFrames' BY <1>2, <1>3 DEF GoodFrames
<1>5. Top' = stack'[Len(stack')] BY DEF Top, Depth
<1>6. RunsAtItsPC' BY <1>5 DEF RunsAtItsPC, MayRun, AtPC, InItsTrace, vars
<1>7. NewestMemory' BY <1>5 DEF NewestMemory, MayRun, Returning
<1> QED BY <1>1, <1>4, <1>6, <1>7 DEF RunInv

LEMMA ReplaceStep ==
  ASSUME RunInv, UNCHANGED vars,
         pc' \in Addresses, last' \in Nat, resumed' \in BOOLEAN,
         NEW f, stack' = ReplaceTop(f), MayRun(f, pc', last', resumed')
  PROVE  RunInv'
<1>1. Depth \in 1..Len(stack) /\ Depth = Len(stack) /\ stack \in Seq(Frames)
  BY TopOfStack DEF RunInv, RunTypes, Depth
<1>2. /\ stack' \in Seq(Frames) /\ Len(stack') = Len(stack)
      /\ stack'[Len(stack)] = f
      /\ \A i \in 1..Len(stack) - 1 : stack'[i] = stack[i]
  BY <1>1 DEF ReplaceTop, MayRun
<1>3. stack' # <<>> BY <1>1, <1>2
<1>4. \A i \in 1..Len(stack') : InItsTrace(stack'[i])
  BY <1>1, <1>2 DEF RunInv, GoodFrames, MayRun
<1>5. \A i \in 1..Len(stack') - 1 : Waiting(stack'[i])
  BY <1>2 DEF RunInv, GoodFrames
<1> QED BY <1>2, <1>3, <1>4, <1>5, RunInvByTop

LEMMA PushStep ==
  ASSUME RunInv, UNCHANGED vars,
         pc' \in Addresses, last' \in Nat, resumed' \in BOOLEAN,
         NEW f \in Frames, InItsTrace(f), Waiting(f),
         NEW g, stack' = Push(f, g), MayRun(g, pc', last', resumed')
  PROVE  RunInv'
<1>1. Depth \in 1..Len(stack) /\ Depth = Len(stack) /\ stack \in Seq(Frames)
  BY TopOfStack DEF RunInv, RunTypes, Depth
<1>2. /\ ReplaceTop(f) \in Seq(Frames) /\ Len(ReplaceTop(f)) = Len(stack)
      /\ ReplaceTop(f)[Len(stack)] = f
      /\ \A i \in 1..Len(stack) - 1 : ReplaceTop(f)[i] = stack[i]
  BY <1>1 DEF ReplaceTop
<1>3. /\ stack' \in Seq(Frames) /\ Len(stack') = Len(stack) + 1
      /\ stack'[Len(stack) + 1] = g
      /\ \A i \in 1..Len(stack) : stack'[i] = ReplaceTop(f)[i]
  BY <1>1, <1>2 DEF Push, MayRun
<1>4. stack' # <<>> BY <1>1, <1>3
<1>5. \A i \in 1..Len(stack) : i = Len(stack) \/ i \in 1..Len(stack) - 1
  BY <1>1
<1>6. \A i \in 1..Len(stack) : InItsTrace(stack'[i]) /\ Waiting(stack'[i])
  BY <1>1, <1>2, <1>3, <1>5 DEF RunInv, GoodFrames
<1>7. \A i \in 1..Len(stack') : i = Len(stack') \/ i \in 1..Len(stack)
  BY <1>1, <1>3
<1>8. /\ \A i \in 1..Len(stack') : InItsTrace(stack'[i])
      /\ \A i \in 1..Len(stack') - 1 : Waiting(stack'[i])
  BY <1>1, <1>3, <1>6, <1>7 DEF MayRun
<1> QED BY <1>3, <1>4, <1>8, RunInvByTop

LEMMA ReturnStep ==
  ASSUME RunInv, RuntimeReturn PROVE RunInv'
<1> DEFINE caller == stack[Depth - 1]
           f == IF caller.kind = "runtime" THEN Runtime(Top.memory) ELSE caller
<1>1. Depth = Len(stack) /\ stack \in Seq(Frames) /\ Depth \in Nat /\ Depth > 1
  BY TopOfStack DEF RunInv, RunTypes, Depth, RuntimeReturn
<1>2. stack' = Append(SubSeq(stack, 1, Depth - 2), f) /\ Top.kind = "runtime"
  BY DEF RuntimeReturn, InRuntime
<1>3. Depth - 1 \in 1..Len(stack) - 1 /\ Depth - 1 \in 1..Len(stack) BY <1>1
<1>4. caller \in Frames /\ InItsTrace(caller) /\ Waiting(caller)
  BY <1>1, <1>3 DEF RunInv, GoodFrames
<1>5. Top \in Frames /\ Top.memory \in Nat
  BY TopOfStack DEF RunInv, Frames
<1>6. ~resumed => Top.memory = last
  BY <1>2 DEF RunInv, NewestMemory, Returning
<1>7. MayRun(f, pc, last, resumed)
  <2>1. CASE caller.kind = "runtime"
    <3>1. f = Runtime(Top.memory) BY <2>1
    <3> QED BY <1>5, <1>6, <3>1, RuntimeFrame
            DEF MayRun, AtPC, InItsTrace, Returning
  <2>2. CASE caller.kind = "lifted"
    BY <1>4, <2>2 DEF MayRun, AtPC, Waiting, Returning
  <2> QED BY <1>4, <2>1, <2>2 DEF Frames
<1> HIDE DEF f
<1>8. f \in Frames BY <1>7 DEF MayRun
<1>9. /\ stack' \in Seq(Frames) /\ Len(stack') = Depth - 1
      /\ stack'[Depth - 1] = f
      /\ \A i \in 1..Depth - 2 : stack'[i] = stack[i]
  BY <1>1, <1>2, <1>8
<1>10. stack' # <<>> BY <1>1, <1>9
<1>11. /\ \A i \in 1..Len(stack') : InItsTrace(stack'[i])
       /\ \A i \in 1..Len(stack') - 1 : Waiting(stack'[i])
  <2>1. \A i \in 1..Depth - 2 :
          i \in 1..Len(stack) /\ i \in 1..Len(stack) - 1
    BY <1>1
  <2>2. \A i \in 1..Depth - 1 : i = Depth - 1 \/ i \in 1..Depth - 2 BY <1>1
  <2>3. Len(stack') - 1 = Depth - 2 BY <1>1, <1>9
  <2> QED BY <1>7, <1>9, <2>1, <2>2, <2>3 DEF RunInv, GoodFrames, MayRun
<1>12. /\ UNCHANGED vars /\ UNCHANGED <<pc, last, resumed>>
       /\ pc \in Addresses /\ last \in Nat /\ resumed \in BOOLEAN
  BY DEF RuntimeReturn, RunInv, RunTypes
<1> QED BY <1>7, <1>9, <1>10, <1>11, <1>12, RunInvByTop

-----------------------------------------------------------------------------
(* Each step keeps the invariant, and is a step of the machine or none. *)

StepsRight == RunInv' /\ [M!MachineStep]_<<image, pc>>

\* What blocks with an instruction have in common: it is the machine's.
LEMMA InstructionRuns ==
  ASSUME Lifted, RunInv, NEW kinds, InBlock(kinds), Content.ran,
         Execute(Executed), pc' \in M!Successors(Executed), UNCHANGED vars
  PROVE  /\ M!MachineStep
         /\ pc' \in Addresses /\ last' \in Nat
         /\ MemoryAfter(Executed) \in Nat
         /\ ~resumed => MemoryAfter(Executed) = last'
         /\ Top.at \in Addresses /\ resumed \in BOOLEAN
<1>1. /\ pc = Top.at /\ Top.stage = "run" /\ Top.kind = "lifted"
      /\ pc \in DOMAIN image /\ M!Successors(Executed) \subseteq Addresses
  BY RunningBlock
<1>2. ~Returning(Top) BY <1>1 DEF Returning
<1>3. M!MachineStep BY <1>1 DEF M!MachineStep, Executed, vars
<1>4. Top.at \in Addresses BY <1>1, LiftedFrame
<1> QED BY <1>1, <1>2, <1>3, <1>4, MemoryStep DEF RunInv, RunTypes

\* Going on at a block a that is a target of this one.
LEMMA GoesOn ==
  ASSUME Lifted, RunInv, NEW kinds, InBlock(kinds), Content.ran,
         Execute(Executed), pc' \in M!Successors(Executed),
         UNCHANGED <<vars, resumed>>,
         NEW a \in Targets(Content), pc' = a, stack' = ReplaceTop(GoTo(a))
  PROVE  StepsRight
<1>1. /\ M!MachineStep /\ pc' \in Addresses /\ last' \in Nat
      /\ MemoryAfter(Executed) \in Nat /\ resumed \in BOOLEAN
      /\ ~resumed => MemoryAfter(Executed) = last'
  BY InstructionRuns
<1>2. Top.kind = "lifted" /\ Top.stage = "run" BY RunningBlock
<1>3. /\ Top \in Frames /\ Top.trace \in traces
      /\ a \in DOMAIN bodies[Top.trace] /\ a \in Addresses
  BY <1>2, TopOfStack, LiftedFrame, TargetsAreAddresses DEF RunInv
<1>4. /\ GoTo(a) \in Frames /\ GoTo(a).kind = "lifted"
      /\ GoTo(a).trace = Top.trace /\ GoTo(a).stage = "run"
      /\ GoTo(a).at = a /\ GoTo(a).memory = MemoryAfter(Executed)
  BY <1>1, <1>2, <1>3 DEF GoTo, Frames
<1>5. MayRun(GoTo(a), pc', last', resumed')
  BY <1>1, <1>3, <1>4 DEF MayRun, InItsTrace, AtPC
<1> QED BY <1>1, <1>5, ReplaceStep DEF StepsRight

LEMMA BranchSteps == Lifted /\ RunInv /\ RunBranch => StepsRight
<1> SUFFICES ASSUME Lifted, RunInv, RunBranch PROVE StepsRight OBVIOUS
<1>1. InBlock({"br"}) BY DEF RunBranch
<1>2. /\ Content.kind = "br" /\ Content \in Contents
      /\ FollowsCode(Content, Top.at)
  BY <1>1, RunningBlock, LiftedFrame
<1>3. Content.ran /\ M!Successors(Executed) = {Content.to}
  BY <1>2 DEF FollowsCode, Executed
<1>4. Content.to \in Targets(Content) BY <1>2, TargetsByKind
<1> QED BY <1>1, <1>3, <1>4, GoesOn DEF RunBranch

LEMMA ConditionalBranchSteps ==
  Lifted /\ RunInv /\ RunConditionalBranch => StepsRight
<1> SUFFICES ASSUME Lifted, RunInv, RunConditionalBranch PROVE StepsRight
  OBVIOUS
<1>1. InBlock({"condbr"}) BY DEF RunConditionalBranch
<1>2. /\ Content.kind = "condbr" /\ Content \in Contents
      /\ FollowsCode(Content, Top.at) /\ Top.at \in Addresses
  BY <1>1, RunningBlock, LiftedFrame
<1>3. /\ Content.ran /\ Executed.category = "ConditionalBranch"
      /\ Content.to = Executed.taken /\ Content.els = Executed.not_taken
      /\ HasBytes(Top.at)
  BY <1>2 DEF FollowsCode, Executed
<1>4. M!Successors(Executed) = {Content.to, Content.els}
  BY <1>2, <1>3, SuccessorsByCategory DEF Executed, Lifted
<1>5. Content.to \in Targets(Content) /\ Content.els \in Targets(Content)
  BY <1>2, TargetsByKind
<1>6. PICK a \in {Content.to, Content.els} :
        pc' = a /\ stack' = ReplaceTop(GoTo(a))
  BY <1>3 DEF RunConditionalBranch
<1> QED BY <1>1, <1>3, <1>4, <1>5, <1>6, GoesOn DEF RunConditionalBranch

LEMMA NoHyperCallSteps == Lifted /\ RunInv /\ RunNoHyperCall => StepsRight
<1> SUFFICES ASSUME Lifted, RunInv, RunNoHyperCall PROVE StepsRight OBVIOUS
<1>1. InBlock({"condcall"}) BY DEF RunNoHyperCall
<1>2. /\ Content.kind = "condcall" /\ Content \in Contents
      /\ FollowsCode(Content, Top.at)
  BY <1>1, RunningBlock, LiftedFrame
<1>3. Content.ran /\ M!Successors(Executed) = {Content.to}
  BY <1>2 DEF FollowsCode, Executed
<1>4. Content.to \in Targets(Content) BY <1>2, TargetsByKind
<1> QED BY <1>1, <1>3, <1>4, GoesOn DEF RunNoHyperCall

\* A tail call without an instruction is of the trace at this very address.
LEMMA TailCallSteps == Lifted /\ RunInv /\ RunTailCall => StepsRight
<1> SUFFICES ASSUME Lifted, RunInv, RunTailCall PROVE StepsRight OBVIOUS
<1> DEFINE f == CalleeFrame(Content, Top.memory)
<1>1. InBlock({"tail"}) /\ ~Content.ran /\ stack' = ReplaceTop(f)
  BY DEF RunTailCall
<1>2. /\ Content.kind = "tail" /\ Content \in Contents /\ pc = Top.at
      /\ FollowsCode(Content, Top.at) /\ ~Returning(Top)
  BY <1>1, RunningBlock, LiftedFrame DEF Returning
<1>3. Top.memory \in Nat BY TopOfStack DEF RunInv, Frames
<1>4. /\ f \in Frames /\ InItsTrace(f) /\ f.memory = Top.memory
      /\ f.kind = "lifted" => Content.callee = "trace" /\ f.at = Content.trace
  BY <1>2, <1>3, CalleesFrame
<1>5. f.kind = "lifted" => f.at = pc BY <1>2, <1>4 DEF FollowsCode
<1>6. UNCHANGED <<vars, pc, last, resumed>> BY DEF RunTailCall
<1> HIDE DEF f
<1>7. MayRun(f, pc', last', resumed')
  BY <1>2, <1>4, <1>5, <1>6 DEF MayRun, AtPC, RunInv, NewestMemory
<1> QED BY <1>1, <1>6, <1>7, ReplaceStep
        DEF StepsRight, RunInv, RunTypes, vars

\* Behind an instruction, it leaves for an intrinsic.
LEMMA TailCallAfterSteps ==
  Lifted /\ RunInv /\ RunTailCallAfter => StepsRight
<1> SUFFICES ASSUME Lifted, RunInv, RunTailCallAfter PROVE StepsRight OBVIOUS
<1> DEFINE f == CalleeFrame(Content, MemoryAfter(Executed))
<1>1. InBlock({"tail"}) /\ Content.ran /\ stack' = ReplaceTop(f)
  BY DEF RunTailCallAfter
<1>2. /\ Content.kind = "tail" /\ Content \in Contents
      /\ FollowsCode(Content, Top.at)
  BY <1>1, RunningBlock, LiftedFrame
<1>3. /\ M!MachineStep /\ pc' \in Addresses /\ last' \in Nat
      /\ MemoryAfter(Executed) \in Nat /\ resumed \in BOOLEAN
      /\ ~resumed => MemoryAfter(Executed) = last'
  BY <1>1, InstructionRuns DEF RunTailCallAfter
<1>4. /\ f \in Frames /\ InItsTrace(f) /\ f.memory = MemoryAfter(Executed)
      /\ f.kind = "lifted" => Content.callee = "trace"
  BY <1>2, <1>3, CalleesFrame
<1>5. f.kind # "lifted" BY <1>1, <1>2, <1>4 DEF FollowsCode
<1>6. UNCHANGED <<vars, resumed>> BY DEF RunTailCallAfter
<1> HIDE DEF f
<1>7. MayRun(f, pc', last', resumed')
  BY <1>3, <1>4, <1>5, <1>6 DEF MayRun, AtPC
<1> QED BY <1>1, <1>3, <1>6, <1>7, ReplaceStep DEF StepsRight

LEMMA CallSteps == Lifted /\ RunInv /\ RunCall => StepsRight
<1> SUFFICES ASSUME Lifted, RunInv, RunCall PROVE StepsRight OBVIOUS
<1> DEFINE mem == MemoryAfter(Executed)
           f == [Top EXCEPT !.stage = "check", !.memory = mem]
           g == CalleeFrame(Content, mem)
<1>1. InBlock({"call", "condcall"}) /\ stack' = Push(f, g) BY DEF RunCall
<1>2. /\ Content.kind \in {"call", "condcall"} /\ Content \in Contents
      /\ FollowsCode(Content, Top.at)
      /\ Top.kind = "lifted" /\ Top \in Frames
  BY <1>1, RunningBlock, LiftedFrame, TopOfStack DEF RunInv
<1>3. Content.ran BY <1>2 DEF FollowsCode
<1>4. /\ M!MachineStep /\ pc' \in Addresses /\ last' \in Nat
      /\ mem \in Nat /\ resumed \in BOOLEAN
      /\ ~resumed => mem = last'
  BY <1>1, <1>3, InstructionRuns DEF RunCall
<1>5. /\ g \in Frames /\ InItsTrace(g) /\ g.memory = mem
      /\ g.kind = "lifted" => Content.callee = "trace" /\ g.at = Content.trace
  BY <1>2, <1>4, CalleesFrame
<1>6. g.kind = "lifted" => pc' = g.at
  BY <1>2, <1>5 DEF FollowsCode, RunCall, Executed
<1>7. /\ f \in Frames /\ f.kind = "lifted" /\ f.trace = Top.trace
      /\ f.stage = "check" /\ f.at = Top.at
  BY <1>2, <1>4, FrameThatWaits
<1>8. InItsTrace(f) /\ Waiting(f)
  <2>1. InItsTrace(Top) BY TopOfStack DEF RunInv, GoodFrames, Top
  <2> QED BY <1>2, <1>7, <2>1 DEF InItsTrace, Waiting, Content
<1>9. UNCHANGED <<vars, resumed>> BY DEF RunCall
<1> HIDE DEF f, g, mem
<1>10. MayRun(g, pc', last', resumed')
  BY <1>4, <1>5, <1>6, <1>9 DEF MayRun, AtPC
<1> QED BY <1>1, <1>4, <1>7, <1>8, <1>9, <1>10, PushStep DEF StepsRight

\* The block behind the call is entered if the PC says so, and only then.
LEMMA CheckSteps == Lifted /\ RunInv /\ RunCheck => StepsRight
<1> SUFFICES ASSUME Lifted, RunInv, RunCheck PROVE StepsRight OBVIOUS
<1>1. Top.kind = "lifted" /\ Top.stage = "check" BY DEF RunCheck
<1>2. /\ Content.kind \in {"call", "condcall"} /\ Content \in Contents
      /\ Targets(Content) \subseteq DOMAIN bodies[Top.trace]
      /\ Top.trace \in traces /\ Top \in Frames /\ Top.memory \in Nat
  BY <1>1, LiftedFrame, TopOfStack DEF RunInv, Frames
<1>3. Content.to \in DOMAIN bodies[Top.trace] /\ Content.to \in Addresses
  BY <1>2, TargetsByKind, TargetsAreAddresses
<1>4. /\ UNCHANGED <<vars, pc, last>> /\ resumed' = TRUE
      /\ pc \in Addresses /\ last \in Nat
  BY DEF RunCheck, RunInv, RunTypes
<1>5. CASE pc = Content.to
  <2> DEFINE f == [Top EXCEPT !.stage = "run", !.at = Content.to]
  <2>1. stack' = ReplaceTop(f) BY <1>5 DEF RunCheck
  <2>2. /\ f \in Frames /\ f.kind = "lifted" /\ f.trace = Top.trace
        /\ f.stage = "run" /\ f.at = Content.to
    <3>1. PICK top \in Frames, a \in Addresses : top = Top /\ a = Content.to
      BY <1>2, <1>3
    <3>2. f = [top EXCEPT !.stage = "run", !.at = a] BY <3>1
    <3> QED BY <1>1, <3>1, <3>2, FrameThatResumes
  <2> HIDE DEF f
  <2>3. MayRun(f, pc', last', resumed')
    BY <1>2, <1>3, <1>4, <1>5, <2>2 DEF MayRun, InItsTrace, AtPC
  <2> QED BY <1>4, <2>1, <2>3, ReplaceStep DEF StepsRight, vars
<1>6. CASE pc # Content.to
  <2> DEFINE f == Runtime(Top.memory)
  <2>1. stack' = ReplaceTop(f) BY <1>6 DEF RunCheck
  <2>2. f \in Frames /\ f.kind = "runtime" BY <1>2, RuntimeFrame
  <2> HIDE DEF f
  <2>3. MayRun(f, pc', last', resumed')
    BY <1>4, <2>2 DEF MayRun, InItsTrace, AtPC
  <2> QED BY <1>4, <2>1, <2>3, ReplaceStep DEF StepsRight, vars
<1> QED BY <1>5, <1>6

LEMMA RuntimeSteps ==
  Lifted /\ RunInv /\ (RuntimeStep \/ RuntimeEnter \/ RuntimeReturn)
    => StepsRight
<1> SUFFICES ASSUME Lifted, RunInv, RuntimeStep \/ RuntimeEnter \/ RuntimeReturn
             PROVE  StepsRight
  OBVIOUS
<1>1. Top.kind = "runtime" /\ ~Returning(Top)
  BY DEF RuntimeStep, RuntimeEnter, RuntimeReturn, InRuntime, Returning
<1>2. /\ Top \in Frames /\ Top.memory \in Nat /\ pc \in Addresses
      /\ last \in Nat /\ resumed \in BOOLEAN
      /\ ~resumed => Top.memory = last
  BY <1>1, TopOfStack DEF RunInv, RunTypes, Frames, NewestMemory
<1>3. CASE RuntimeStep
  <2> DEFINE f == Runtime(MemoryAfter(image[pc]))
  <2>1. stack' = ReplaceTop(f) /\ UNCHANGED <<vars, resumed>>
    BY <1>3 DEF RuntimeStep
  <2>2. M!MachineStep BY <1>3 DEF RuntimeStep, M!MachineStep, vars
  <2>3. pc' \in Addresses
    <3>1. HasBytes(pc)
      <4>1. image \in [0..Space - 1 -> Instructions] /\ Space \in Nat \ {0}
        BY ImagesAreCode, SpaceIsPositive DEF Lifted, TypeOK
      <4>2. pc \in 0..Space - 1 BY <1>3, <4>1 DEF RuntimeStep
      <4>3. pc % Space = pc BY <4>1, <4>2
      <4>4. image[pc].category # "NoBytes"
        BY <1>3 DEF RuntimeStep, M!Successors
      <4> QED BY <4>2, <4>3, <4>4 DEF HasBytes
    <3> QED BY <1>2, <1>3, <3>1, SuccessorsByCategory DEF RuntimeStep, Lifted
  <2>4. /\ last' \in Nat /\ MemoryAfter(image[pc]) \in Nat
        /\ ~resumed => MemoryAfter(image[pc]) = last'
    BY <1>1, <1>3, MemoryStep DEF RuntimeStep
  <2>5. f \in Frames /\ f.kind = "runtime" /\ f.memory = MemoryAfter(image[pc])
    BY <2>4, RuntimeFrame
  <2> HIDE DEF f
  <2>6. MayRun(f, pc', last', resumed')
    BY <2>1, <2>4, <2>5 DEF MayRun, InItsTrace, AtPC
  <2> QED BY <1>2, <2>1, <2>2, <2>3, <2>4, <2>6, ReplaceStep DEF StepsRight
<1>4. CASE RuntimeEnter
  <2> DEFINE g == Entering(pc, Top.memory)
  <2>1. stack' = Push(Top, g) /\ UNCHANGED <<vars, pc, last, resumed>>
    BY <1>4 DEF RuntimeEnter
  <2>2. /\ g \in Frames /\ InItsTrace(g) /\ g.memory = Top.memory
        /\ g.kind = "lifted" => g.at = pc
    BY <1>2, EnteringFrame
  <2> HIDE DEF g
  <2>3. MayRun(g, pc', last', resumed')
    BY <1>2, <2>1, <2>2 DEF MayRun, AtPC
  <2>4. InItsTrace(Top) /\ Waiting(Top) BY <1>1 DEF InItsTrace, Waiting
  <2> QED BY <1>2, <2>1, <2>3, <2>4, PushStep DEF StepsRight, vars
<1>5. CASE RuntimeReturn
  BY <1>5, ReturnStep DEF StepsRight, RuntimeReturn, vars
<1> QED BY <1>3, <1>4, <1>5

\* Lift only adds traces: no function changes while it waits.
LEMMA LiftSteps ==
  Lifted /\ RunInv /\ [Next]_vars /\ UNCHANGED runVars => StepsRight
<1> SUFFICES ASSUME Lifted, RunInv, [Next]_vars, UNCHANGED runVars
             PROVE  StepsRight
  OBVIOUS
<1>1. /\ traces \subseteq traces' /\ image' = image
      /\ \A t \in traces : bodies'[t] = bodies[t]
  BY FinishedTraces DEF Lifted
<1>2. \A f : InItsTrace(f) => InItsTrace(f)' BY <1>1 DEF InItsTrace
<1>3. UNCHANGED <<Top, pc, stack, last, resumed>> BY DEF runVars, Top, Depth
<1>4. RunTypes' BY <1>3 DEF RunInv, RunTypes
<1>5. \A f : Waiting(f)' <=> Waiting(f) BY DEF Waiting
<1>6. GoodFrames' BY <1>2, <1>3, <1>5 DEF RunInv, GoodFrames
<1>7. RunsAtItsPC'
  <2>1. InItsTrace(Top) BY TopOfStack DEF RunInv, GoodFrames, Top
  <2> QED BY <1>1, <1>3, <2>1 DEF RunInv, RunsAtItsPC, InItsTrace
<1>8. NewestMemory' BY <1>3 DEF RunInv, NewestMemory, Returning
<1> QED BY <1>1, <1>3, <1>4, <1>6, <1>7, <1>8 DEF StepsRight, RunInv

LEMMA RunInitially == RunInit => RunInv
<1> SUFFICES ASSUME RunInit PROVE RunInv OBVIOUS
<1>1. /\ Runtime(0) \in Frames /\ Runtime(0).kind = "runtime"
      /\ Runtime(0).memory = 0
  BY RuntimeFrame
<1>2. /\ stack \in Seq(Frames) /\ Len(stack) = 1 /\ stack[1] = Runtime(0)
      /\ stack # <<>>
  BY <1>1 DEF RunInit
<1>3. Top = Runtime(0) BY <1>2 DEF Top, Depth
<1>4. pc \in Addresses /\ last = 0 /\ resumed = FALSE BY DEF RunInit
<1>5. GoodFrames BY <1>1, <1>2 DEF GoodFrames, InItsTrace
<1> QED BY <1>1, <1>2, <1>3, <1>4, <1>5
        DEF RunInv, RunTypes, RunsAtItsPC, NewestMemory

LEMMA RunStep == Lifted /\ RunInv /\ [RunNext]_allVars => StepsRight
BY BranchSteps, ConditionalBranchSteps, TailCallSteps, TailCallAfterSteps,
   CallSteps, NoHyperCallSteps, CheckSteps, RuntimeSteps, LiftSteps
DEF RunNext, allVars

-----------------------------------------------------------------------------
(* The theorems. *)

LEMMA RunInvariant == RunSpec => [](Lifted /\ RunInv)
<1>1. Lifted /\ RunInv /\ [RunNext]_allVars => RunInv'
  BY RunStep DEF StepsRight
<1> QED BY <1>1, RunsLift, LiftedAlways, RunInitially, PTL DEF RunSpec

(***************************************************************************)
(* Types, which for the stack say that frames stay what they are.          *)
(***************************************************************************)
THEOREM RunTypesCorrect == RunSpec => []RunTypeOK
<1>1. Lifted /\ RunInv => RunTypeOK
  BY DEF Lifted, RunInv, RunTypes, RunTypeOK
<1> QED BY <1>1, RunInvariant, PTL

(***************************************************************************)
(* The block made from the bytes at an address is only entered with that   *)
(* address in the PC, whatever the image, the calls and the callees that   *)
(* come back elsewhere: Lift's comparison with next_pc is enough.          *)
(***************************************************************************)
THEOREM LiftedCodeIsAtItsPC == RunSpec => []RunsAtItsPC
<1>1. Lifted /\ RunInv => RunsAtItsPC BY DEF RunInv
<1> QED BY <1>1, RunInvariant, PTL

(***************************************************************************)
(* Every step of lifted code or its runtime is a step of the machine or    *)
(* leaves the PC alone: what Lift makes implements the machine it lifts.   *)
(***************************************************************************)
THEOREM LiftedCodeImplementsTheMachine == RunSpec => ImplementsMachine
<1>1. RunInit => M!MachineInit BY DEF RunInit, Init, M!MachineInit
<1>2. Lifted /\ RunInv /\ [RunNext]_allVars => [M!MachineStep]_<<image, pc>>
  BY RunStep DEF StepsRight
<1> QED BY <1>1, <1>2, RunInvariant, PTL
        DEF RunSpec, ImplementsMachine, M!MachineSpec

(***************************************************************************)
(* Until a call returns to lifted code, whoever writes memory starts from  *)
(* the newest pointer: blocks, tail calls and callees hand MEMORY on.      *)
(***************************************************************************)
THEOREM WritesAreOrderedUntilReturn == RunSpec => []WriteOrderUntilReturn
<1>1. RunInv => WriteOrderUntilReturn
  BY DEF RunInv, NewestMemory, WriteOrderUntilReturn, TotalWriteOrder,
         AboutToWrite, Returning
<1> QED BY <1>1, RunInvariant, PTL
===============================================================================
