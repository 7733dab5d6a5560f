---------------------------- MODULE TraceLifter -----------------------------
(***************************************************************************)
(* TraceLifter::Lift (remill/BC/Lifter.cpp): the recursive decoder that    *)
(* turns the machine code at an address, and everything that it can reach  *)
(* by direct control flow, into lifted functions, with the trace manager   *)
(* of tools/lift/Lift.cpp, generalised by traces that the manager knows    *)
(* ahead of time.  Lift may be called several times, as tests/X86/Lift.cpp *)
(* does.                                                                   *)
(*                                                                         *)
(* A trace (lifted function) is named by its address, and so is the block  *)
(* of an instruction in its trace.  The do_hyper_call and                  *)
(* unexpected_ret_pc blocks, which no other block can branch to, are part  *)
(* of the block they are made for.                                         *)
(***************************************************************************)
EXTENDS Naturals, FiniteSets

CONSTANTS Space,      \* size of the address space: addr_mask is Space - 1
          Images,     \* the machine code that a run considers
          Known,      \* traces the manager declares ahead of time
          Foreign,    \* traces the manager has defined in another module
          Requests,   \* the addresses Lift is called with
          NoTrace     \* a value that is no address

\* next_pc and branch targets are not masked: they may lie past the space.
Addresses == 0..Space

Categories == {"Invalid", "Unsupported", "Error", "Normal", "NoOp",
               "DirectJump", "IndirectJump", "DirectFunctionCall",
               "IndirectFunctionCall", "FunctionReturn", "ConditionalBranch",
               "AsyncHyperCall", "ConditionalAsyncHyperCall",
               "PipelineBranch"}

(***************************************************************************)
(* What decoding and looking up the semantics yields at an address:        *)
(* "NoBytes" if no byte is executable there, "Unsupported" for a valid     *)
(* instruction that has no semantics function, and "PipelineBranch" for it *)
(* and the other categories that Lift's switch has no case for.            *)
(***************************************************************************)
Instructions == [category  : Categories \cup {"NoBytes"},
                 next      : Addresses,
                 taken     : Addresses,
                 not_taken : Addresses,
                 writes    : BOOLEAN]    \* does it write memory?

ASSUME SpaceIsPositive == Space \in Nat \ {0}
ASSUME ImagesAreCode == Images \subseteq [0..Space - 1 -> Instructions]
ASSUME ManagerTraces == /\ Known \subseteq Addresses
                        /\ Foreign \subseteq Addresses
                        /\ Known \cap Foreign = {}
ASSUME RequestsAreNat == Requests \subseteq Nat
ASSUME NoTraceIsNone == NoTrace \notin Nat

VARIABLES image,            \* the machine code
          requests,         \* addresses Lift is still to be called with
          traces,           \* SimpleTraceManager::traces
          funcs,            \* the lifted functions with a body in the module
          bodies,           \* the finished bodies: trace -> blocks
          trace_work_list,  \* traces to lift before Lift returns
          func,             \* the trace that is being lifted
          inst_work_list,   \* instructions to lift into func
          blocks,           \* the blocks of func made so far
          aborted           \* has a CHECK failed?

vars == <<image, requests, traces, funcs, bodies, trace_work_list, func,
          inst_work_list, blocks, aborted>>

-----------------------------------------------------------------------------
(***************************************************************************)
(* The contents of blocks.  `ran` tells whether the instruction's          *)
(* semantics come before the terminator; `callee` and `trace` are what a   *)
(* call or tail call targets, "trace" being another lifted function.       *)
(***************************************************************************)
Kinds == {"empty", "open", "br", "condbr", "tail", "call", "condcall"}

Callees == {"none", "trace", "error", "missing_block", "jump",
            "function_call", "function_return", "async_hyper_call"}

Contents == [kind : Kinds, ran : BOOLEAN, callee : Callees,
             trace : Addresses, to : Addresses, els : Addresses]

Empty == [kind |-> "empty", ran |-> FALSE, callee |-> "none",
          trace |-> 0, to |-> 0, els |-> 0]

\* llvm::BranchInst::Create
Br(a) == [Empty EXCEPT !.kind = "br", !.ran = TRUE, !.to = a]
CondBr(a, b) == [Empty EXCEPT !.kind = "condbr", !.ran = TRUE, !.to = a,
                              !.els = b]

\* AddTerminatingTailCall
TailCall(callee, ran) == [Empty EXCEPT !.kind = "tail", !.ran = ran,
                                   !.callee = callee]
TailTrace(t) == [TailCall("trace", FALSE) EXCEPT !.trace = t]

\* AddCall, and the comparison of the PC with next_pc after it: the block of
\* next_pc if they agree, missing_block otherwise.
Call(callee, t, next) == [Empty EXCEPT !.kind = "call", !.ran = TRUE,
                           !.callee = callee, !.trace = t, !.to = next]

\* The same behind a branch to do_hyper_call that may go to next_pc instead.
CondCall(callee, next) == [Call(callee, 0, next) EXCEPT !.kind = "condcall"]

\* An instruction whose category has no case: no terminator yet.
Open == [Empty EXCEPT !.kind = "open", !.ran = TRUE]

\* The blocks that a block branches to: the arguments of the GetOrCreate...
\* methods, which also queue them.
Targets(c) == CASE c.kind \in {"br", "call", "condcall"} -> {c.to}
                [] c.kind = "condbr"                     -> {c.to, c.els}
                [] OTHER                                 -> {}

-----------------------------------------------------------------------------
Init ==
  /\ image \in Images
  /\ requests = Requests
  /\ traces = {}
  /\ funcs = {}
  /\ bodies = [t \in {} |-> Empty]
  /\ trace_work_list = {}
  /\ func = NoTrace
  /\ inst_work_list = {}
  /\ blocks = [a \in {} |-> Empty]
  /\ aborted = FALSE

\* std::set::begin
IsFirst(a, S) == a \in S /\ \A b \in S : a <= b

Idle == trace_work_list = {} /\ func = NoTrace /\ ~aborted

\* Faulty variant: the address is not compared with the mask.
CallLiftUnmasked(a) ==
  /\ Idle /\ a \in requests
  /\ requests' = requests \ {a}
  /\ trace_work_list' = {a}
  /\ UNCHANGED <<image, traces, funcs, bodies, func, inst_work_list, blocks,
                 aborted>>

\* Lift is called.  It returns at once if the address does not fit the mask.
CallLift(a) ==
  /\ Idle /\ a \in requests
  /\ requests' = requests \ {a}
  /\ trace_work_list' = IF a % Space < a THEN {} ELSE {a % Space}
  /\ UNCHANGED <<image, traces, funcs, bodies, func, inst_work_list, blocks,
                 aborted>>

\* A trace is declared in this module if it has been lifted into it, or if
\* the manager knew of it; a trace of another module does not count.
Declared(a) == a \in traces \cup Known
\* Faulty variant: a manager that forgets what it was given.
DefinedElsewhere(a) == a \in Foreign
Defined(a)  == a \in traces \cup Foreign

-----------------------------------------------------------------------------
(* The outer loop. *)

SkipTrace(t) ==
  /\ func = NoTrace /\ IsFirst(t, trace_work_list) /\ ~aborted
  /\ Defined(t)
  /\ trace_work_list' = trace_work_list \ {t}
  /\ UNCHANGED <<image, requests, traces, funcs, bodies, func,
                 inst_work_list, blocks, aborted>>

\* CHECK(state.func->isDeclaration()), CHECK(state.inst_work_list.empty()).
BeginTrace(t) ==
  /\ func = NoTrace /\ IsFirst(t, trace_work_list) /\ ~aborted
  /\ ~Defined(t)
  /\ trace_work_list' = trace_work_list \ {t}
  /\ IF t \in funcs \/ inst_work_list # {}
     THEN /\ aborted' = TRUE
          /\ UNCHANGED <<funcs, func, inst_work_list, blocks>>
     ELSE /\ funcs' = funcs \cup {t}
          /\ func' = t
          /\ inst_work_list' = {t}
          /\ blocks' = [a \in {t} |-> Empty]
          /\ UNCHANGED aborted
  /\ UNCHANGED <<image, requests, traces, bodies>>

\* All blocks left without a terminator get one; then the manager is told.
Filled(c) == IF c.kind \in {"empty", "open"}
             THEN TailCall("missing_block", c.ran)
             ELSE c

FinishTrace ==
  /\ func # NoTrace /\ inst_work_list = {}
  /\ bodies' = [t \in DOMAIN bodies \cup {func} |->
                  IF t = func THEN [a \in DOMAIN blocks |-> Filled(blocks[a])]
                  ELSE bodies[t]]
  /\ traces' = traces \cup {func}
  /\ func' = NoTrace
  /\ blocks' = [a \in {} |-> Empty]
  /\ UNCHANGED <<image, requests, funcs, trace_work_list, inst_work_list,
                 aborted>>

-----------------------------------------------------------------------------
(* The inner loop: one instruction address a. *)

Pop(a) == func # NoTrace /\ IsFirst(a, inst_work_list)

LiftUnchanged == UNCHANGED <<image, requests, traces, funcs, bodies, func,
                             aborted>>

\* Faulty variant: the address stays on the list.
LiftAgainForever(a) ==
  /\ Pop(a) /\ blocks[a].kind # "empty"
  /\ LiftUnchanged /\ UNCHANGED <<inst_work_list, trace_work_list, blocks>>

\* We have already lifted this instruction block.
LiftAgain(a) ==
  /\ Pop(a) /\ blocks[a].kind # "empty"
  /\ inst_work_list' = inst_work_list \ {a}
  /\ LiftUnchanged /\ UNCHANGED <<trace_work_list, blocks>>

\* Faulty variant: target blocks are made but not queued.
EmitOnly(a, c) ==
  /\ blocks' = [b \in DOMAIN blocks \cup Targets(c) |->
                  IF b = a THEN c
                  ELSE IF b \in DOMAIN blocks THEN blocks[b] ELSE Empty]
  /\ inst_work_list' = inst_work_list \ {a}
  /\ LiftUnchanged

\* Faulty variant: the block of the next address is made in any case.
EmitWithNext(a, c) ==
  LET next == Targets(c) \cup ({a + 1} \cap Addresses) IN
  /\ blocks' = [b \in DOMAIN blocks \cup next |->
                  IF b = a THEN c
                  ELSE IF b \in DOMAIN blocks THEN blocks[b] ELSE Empty]
  /\ inst_work_list' = (inst_work_list \ {a}) \cup next
  /\ LiftUnchanged

\* Put c into block a; make and queue the blocks that it branches to.
Emit(a, c) ==
  /\ blocks' = [b \in DOMAIN blocks \cup Targets(c) |->
                  IF b = a THEN c
                  ELSE IF b \in DOMAIN blocks THEN blocks[b] ELSE Empty]
  /\ inst_work_list' = (inst_work_list \ {a}) \cup Targets(c)
  /\ LiftUnchanged

\* The address is the head of another trace.
TailIntoTrace(a) == a # func /\ Declared(a)

LiftTailCall(a) ==
  /\ Pop(a) /\ blocks[a].kind = "empty"
  /\ TailIntoTrace(a)
  /\ Emit(a, TailTrace(a))
  /\ UNCHANGED trace_work_list

\* The first byte is within the mask, and executable.
HasBytes(a) == a % Space >= a /\ image[a].category # "NoBytes"

LiftNoBytes(a) ==
  /\ Pop(a) /\ blocks[a].kind = "empty" /\ ~TailIntoTrace(a)
  /\ ~HasBytes(a)
  /\ Emit(a, TailCall("missing_block", FALSE))
  /\ UNCHANGED trace_work_list

Lifting(a, categories) ==
  /\ Pop(a) /\ blocks[a].kind = "empty" /\ ~TailIntoTrace(a) /\ HasBytes(a)
  /\ image[a].category \in categories

\* Invalid and unsupported instructions get the semantics of
\* INVALID_INSTRUCTION and UNSUPPORTED_INSTRUCTION in front.
LiftError(a) ==
  /\ Lifting(a, {"Invalid", "Unsupported", "Error"})
  /\ Emit(a, TailCall("error", TRUE))
  /\ UNCHANGED trace_work_list

LiftFallThrough(a) ==
  /\ Lifting(a, {"Normal", "NoOp"})
  /\ Emit(a, Br(image[a].next))
  /\ UNCHANGED trace_work_list

LiftDirectJump(a) ==
  /\ Lifting(a, {"DirectJump"})
  /\ Emit(a, Br(image[a].taken))
  /\ UNCHANGED trace_work_list

LiftIndirectJump(a) ==
  /\ Lifting(a, {"IndirectJump"})
  /\ Emit(a, TailCall("jump", TRUE))
  /\ UNCHANGED trace_work_list

LiftHyperCall(a) ==
  /\ Lifting(a, {"AsyncHyperCall"})
  /\ Emit(a, Call("async_hyper_call", 0, image[a].next))
  /\ UNCHANGED trace_work_list

LiftConditionalHyperCall(a) ==
  /\ Lifting(a, {"ConditionalAsyncHyperCall"})
  /\ Emit(a, CondCall("async_hyper_call", image[a].next))
  /\ UNCHANGED trace_work_list

LiftIndirectCall(a) ==
  /\ Lifting(a, {"IndirectFunctionCall"})
  /\ Emit(a, Call("function_call", 0, image[a].next))
  /\ UNCHANGED trace_work_list

\* A call of the next instruction reads the PC: no call is made of it.
LiftCallOfNext(a) ==
  /\ Lifting(a, {"DirectFunctionCall"})
  /\ image[a].taken = image[a].next
  /\ Emit(a, Br(image[a].next))
  /\ UNCHANGED trace_work_list

\* Faulty variant: the callee is declared but not queued.
LiftDirectCallOnly(a) ==
  /\ Lifting(a, {"DirectFunctionCall"})
  /\ image[a].taken # image[a].next
  /\ Emit(a, Call("trace", image[a].taken, image[a].next))
  /\ UNCHANGED trace_work_list

\* A trace that is not declared yet is declared, and lifted later.
LiftDirectCall(a) ==
  /\ Lifting(a, {"DirectFunctionCall"})
  /\ image[a].taken # image[a].next
  /\ Emit(a, Call("trace", image[a].taken, image[a].next))
  /\ trace_work_list' = IF Declared(image[a].taken)
                        THEN trace_work_list
                        ELSE trace_work_list \cup {image[a].taken}

LiftReturn(a) ==
  /\ Lifting(a, {"FunctionReturn"})
  /\ Emit(a, TailCall("function_return", TRUE))
  /\ UNCHANGED trace_work_list

\* Faulty variant: the targets are swapped.
LiftSwappedBranch(a) ==
  /\ Lifting(a, {"ConditionalBranch"})
  /\ Emit(a, CondBr(image[a].not_taken, image[a].taken))
  /\ UNCHANGED trace_work_list

LiftConditionalBranch(a) ==
  /\ Lifting(a, {"ConditionalBranch"})
  /\ Emit(a, CondBr(image[a].taken, image[a].not_taken))
  /\ UNCHANGED trace_work_list

\* No case of the switch applies.
LiftNothing(a) ==
  /\ Lifting(a, {"PipelineBranch"})
  /\ Emit(a, Open)
  /\ UNCHANGED trace_work_list

LiftInstruction(a) ==
  \/ LiftAgain(a) \/ LiftTailCall(a) \/ LiftNoBytes(a) \/ LiftError(a)
  \/ LiftFallThrough(a) \/ LiftDirectJump(a) \/ LiftIndirectJump(a)
  \/ LiftHyperCall(a) \/ LiftConditionalHyperCall(a) \/ LiftIndirectCall(a)
  \/ LiftCallOfNext(a) \/ LiftDirectCall(a) \/ LiftReturn(a)
  \/ LiftConditionalBranch(a) \/ LiftNothing(a)

Next ==
  \/ \E a \in requests : CallLift(a)
  \/ \E t \in trace_work_list : SkipTrace(t) \/ BeginTrace(t)
  \/ FinishTrace
  \/ \E a \in inst_work_list : LiftInstruction(a)

\* Lift is a sequential loop that nothing preempts.
Spec == Init /\ [][Next]_vars /\ WF_vars(Next)

-----------------------------------------------------------------------------
(* Properties. *)

TypeOK ==
  /\ image \in Images
  /\ requests \subseteq Requests
  /\ traces \subseteq Addresses
  /\ funcs \subseteq Addresses
  /\ DOMAIN bodies = traces
  /\ \A t \in traces : /\ DOMAIN bodies[t] \subseteq Addresses
                       /\ \A a \in DOMAIN bodies[t] :
                            bodies[t][a] \in Contents
  /\ trace_work_list \subseteq Addresses
  /\ func \in Addresses \cup {NoTrace}
  /\ inst_work_list \subseteq Addresses
  /\ DOMAIN blocks \subseteq Addresses
  /\ \A a \in DOMAIN blocks : blocks[a] \in Contents
  /\ aborted \in BOOLEAN

(***************************************************************************)
(* No CHECK of Lift fails: a trace that is called again, by itself, by a   *)
(* trace it calls or by a later call of Lift, is never lifted a second     *)
(* time into the function that already has its body.                       *)
(***************************************************************************)
ChecksHold == ~aborted

(***************************************************************************)
(* A trace that the manager is given is complete: it has the block of its  *)
(* head, every block has a terminator, and every branch of it leads to a   *)
(* block with the instruction there, unless there are no bytes or another  *)
(* trace begins, whatever the order in which blocks were made.             *)
(***************************************************************************)
TracesComplete ==
  \A t \in traces :
    /\ t \in DOMAIN bodies[t]
    /\ \A a \in DOMAIN bodies[t] :
         /\ bodies[t][a].kind \notin {"empty", "open"}
         /\ bodies[t][a].ran \/ bodies[t][a].callee = "trace" \/ ~HasBytes(a)
         /\ Targets(bodies[t][a]) \subseteq DOMAIN bodies[t]

(***************************************************************************)
(* A trace has no more than it needs: every block can be reached from the  *)
(* head through the trace's own branches.                                  *)
(***************************************************************************)
NoStrayBlocks ==
  \A t \in traces : \A S \in SUBSET DOMAIN bodies[t] :
    (t \in S /\ \A a \in S : Targets(bodies[t][a]) \subseteq S)
      => S = DOMAIN bodies[t]

\* The traces that trace t calls or tail-calls.
CalledBy(t) == {bodies[t][a].trace :
                  a \in {b \in DOMAIN bodies[t] :
                           bodies[t][b].callee = "trace"}}

(***************************************************************************)
(* When Lift returns, every trace that lifted code calls has a body, here  *)
(* or in the module it came from, unless the manager declared it ahead of  *)
(* time: then whoever told the manager so owes it.                         *)
(***************************************************************************)
CalledTracesDefined ==
  Idle => \A t \in traces : CalledBy(t) \subseteq traces \cup Foreign \cup Known

(***************************************************************************)
(* SetLiftedTraceDefinition is called once for a trace, with a body that   *)
(* never changes after.                                                    *)
(***************************************************************************)
TracesFinal ==
  [][/\ traces \subseteq traces'
     /\ \A t \in traces : bodies'[t] = bodies[t]]_vars

\* Lift returns, even for loops and (mutual) recursion, and so do all calls.
Terminates == <>(Idle /\ requests = {})
=============================================================================
