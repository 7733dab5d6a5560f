----------------------------- MODULE LiftedRun ------------------------------
(***************************************************************************)
(* The lifted functions at work.  After the calls of Lift the bitcode is   *)
(* run: control goes through the blocks of TraceLifter's bodies, calls     *)
(* nest, and the control-flow intrinsics leave for the runtime, which is   *)
(* not part of remill: it is modelled as an emulator of the machine that   *)
(* enters lifted traces where there are any, returns when it likes, and    *)
(* hands on the memory pointer as it should.                               *)
(*                                                                         *)
(* The opaque memory pointer is the number of the write that made it:      *)
(* __remill_write_memory_* take the pointer and return a new one.          *)
(***************************************************************************)
EXTENDS TraceLifter, Sequences

CONSTANTS MaxDepth,   \* bound on the nesting of calls
          MaxWrites   \* bound on the number of memory writes

ASSUME RunBounds == MaxDepth \in Nat \ {0} /\ MaxWrites \in Nat

VARIABLES pc,        \* the PC register in State
          stack,     \* the active functions, the running one last
          last,      \* the newest memory pointer
          resumed    \* has lifted code gone on after a call?

runVars == <<pc, stack, last, resumed>>
allVars == <<vars, runVars>>

M == INSTANCE Machine WITH pc <- pc, image <- image

\* memory is the value of the MEMORY variable.  A frame at "check" waits for
\* its callee, to compare the PC.
Frames == [kind : {"lifted", "runtime"}, trace : Addresses, at : Addresses,
           stage : {"run", "check"}, memory : Nat]

Runtime(mem) == [kind |-> "runtime", trace |-> 0, at |-> 0, stage |-> "run",
                 memory |-> mem]

\* A function with a body here starts at its head; any other, such as a trace
\* the manager only declared, is the runtime's business.
Entering(t, mem) ==
  IF t \in traces
  THEN [kind |-> "lifted", trace |-> t, at |-> t, stage |-> "run",
        memory |-> mem]
  ELSE Runtime(mem)

CalleeFrame(c, mem) == IF c.callee = "trace" THEN Entering(c.trace, mem)
                       ELSE Runtime(mem)

RunInit ==
  /\ Init
  /\ pc \in Addresses
  /\ stack = <<Runtime(0)>>
  /\ last = 0
  /\ resumed = FALSE

Ready == Idle /\ requests = {}
Depth == Len(stack)
Top == stack[Depth]
ReplaceTop(f) == [stack EXCEPT ![Depth] = f]
Push(f, g) == Append(ReplaceTop(f), g)

\* The memory pointer after the semantics of inst; a write makes a new one.
CanExecute(inst) == inst.writes => last < MaxWrites
\* Faulty variant: the new pointer is not stored to MEMORY.
MemoryKept(inst) == Top.memory
MemoryAfter(inst) == IF inst.writes THEN last + 1 ELSE Top.memory
Execute(inst) ==
  /\ CanExecute(inst)
  /\ last' = IF inst.writes THEN last + 1 ELSE last

-----------------------------------------------------------------------------
(* Lifted code. *)

InBlock(kinds) ==
  /\ Ready /\ Top.kind = "lifted" /\ Top.stage = "run"
  /\ bodies[Top.trace][Top.at].kind \in kinds

Content == bodies[Top.trace][Top.at]
Executed == image[Top.at]
GoTo(a) == [Top EXCEPT !.at = a, !.memory = MemoryAfter(Executed)]

RunBranch ==
  /\ InBlock({"br"})
  /\ Execute(Executed)
  /\ pc' \in M!Successors(Executed)
  /\ stack' = ReplaceTop(GoTo(Content.to))
  /\ UNCHANGED <<vars, resumed>>

RunConditionalBranch ==
  /\ InBlock({"condbr"})
  /\ Execute(Executed)
  /\ \/ pc' = Executed.taken /\ stack' = ReplaceTop(GoTo(Content.to))
     \/ pc' = Executed.not_taken /\ stack' = ReplaceTop(GoTo(Content.els))
  /\ UNCHANGED <<vars, resumed>>

\* A tail call without an instruction in front of it ...
RunTailCall ==
  /\ InBlock({"tail"}) /\ ~Content.ran
  /\ stack' = ReplaceTop(CalleeFrame(Content, Top.memory))
  /\ UNCHANGED <<vars, pc, last, resumed>>

\* ... and one behind an instruction.
RunTailCallAfter ==
  /\ InBlock({"tail"}) /\ Content.ran
  /\ Execute(Executed)
  /\ pc' \in M!Successors(Executed)
  /\ stack' = ReplaceTop(CalleeFrame(Content, MemoryAfter(Executed)))
  /\ UNCHANGED <<vars, resumed>>

\* The callee gets the current MEMORY; what it returns is not used again.
RunCall ==
  /\ InBlock({"call", "condcall"})
  /\ Depth < MaxDepth
  /\ Execute(Executed)
  /\ pc' \in M!Successors(Executed)
  /\ LET mem == MemoryAfter(Executed) IN
     stack' = Push([Top EXCEPT !.stage = "check", !.memory = mem],
                   CalleeFrame(Content, mem))
  /\ UNCHANGED <<vars, resumed>>

\* The interrupt need not be raised.
RunNoHyperCall ==
  /\ InBlock({"condcall"})
  /\ Execute(Executed)
  /\ pc' \in M!Successors(Executed)
  /\ stack' = ReplaceTop(GoTo(Content.to))
  /\ UNCHANGED <<vars, resumed>>

\* After the call: go on at next_pc, or leave for missing_block.
RunCheck ==
  /\ Ready /\ Top.kind = "lifted" /\ Top.stage = "check"
  /\ stack' = ReplaceTop(IF pc = Content.to
                         THEN [Top EXCEPT !.stage = "run", !.at = Content.to]
                         ELSE Runtime(Top.memory))
  /\ resumed' = TRUE
  /\ UNCHANGED <<vars, pc, last>>

-----------------------------------------------------------------------------
(* The runtime. *)

InRuntime == Ready /\ Top.kind = "runtime"

RuntimeStep ==
  /\ InRuntime
  /\ pc \in DOMAIN image
  /\ Execute(image[pc])
  /\ pc' \in M!Successors(image[pc])
  /\ stack' = ReplaceTop(Runtime(MemoryAfter(image[pc])))
  /\ UNCHANGED <<vars, resumed>>

RuntimeEnter ==
  /\ InRuntime /\ Depth < MaxDepth
  /\ pc \in traces
  /\ stack' = Push(Top, Entering(pc, Top.memory))
  /\ UNCHANGED <<vars, pc, last, resumed>>

\* Return, through the tail calls, to the caller: another activation of the
\* runtime, which goes on with the returned pointer, or lifted code.
RuntimeReturn ==
  /\ InRuntime /\ Depth > 1
  /\ LET caller == stack[Depth - 1]
         rest == SubSeq(stack, 1, Depth - 2) IN
     stack' = Append(rest, IF caller.kind = "runtime"
                           THEN Runtime(Top.memory) ELSE caller)
  /\ UNCHANGED <<vars, pc, last, resumed>>

RunNext == \/ Next /\ UNCHANGED runVars
           \/ RunBranch \/ RunConditionalBranch \/ RunTailCall
           \/ RunTailCallAfter \/ RunCall \/ RunNoHyperCall \/ RunCheck
           \/ RuntimeStep \/ RuntimeEnter \/ RuntimeReturn

\* Lift is not preempted; lifted code may stop at any time.
RunSpec == RunInit /\ [][RunNext]_allVars /\ WF_vars(Next)

-----------------------------------------------------------------------------
(* Properties. *)

RunTypeOK ==
  /\ TypeOK
  /\ pc \in Addresses
  /\ stack \in Seq(Frames) /\ stack # <<>>
  /\ last \in Nat
  /\ resumed \in BOOLEAN

(***************************************************************************)
(* Lifted code never runs an instruction that the machine would not run:   *)
(* whenever the block made from the bytes at an address is entered, the    *)
(* PC in State is that address.  Calls whose callee comes back somewhere   *)
(* else, calls of the next instruction and traces entered in the middle    *)
(* of another are where this could fail.                                   *)
(***************************************************************************)
RunsAtItsPC ==
  (Top.kind = "lifted" /\ Top.stage = "run") =>
     pc = Top.at /\ Top.at \in DOMAIN bodies[Top.trace]

\* The lifted code together with its runtime implements the machine.
ImplementsMachine == M!MachineSpec

(***************************************************************************)
(* "The memory pointer is also replaced in the case of memory write        *)
(* intrinsics. This is to enforce a total order across all memory writes"  *)
(* (docs/LIFE_OF_AN_INSTRUCTION.md): whoever writes next starts from the   *)
(* newest memory.                                                          *)
(***************************************************************************)
AboutToWrite ==
  IF Top.kind = "lifted"
  THEN Top.stage = "run" /\ Content.ran /\ Executed.writes
  ELSE Ready /\ pc \in DOMAIN image /\ image[pc].writes

TotalWriteOrder == AboutToWrite => Top.memory = last

(***************************************************************************)
(* Branches, tail calls and the way into a callee do thread the memory     *)
(* pointer: the order can only break where a call returns to lifted code.  *)
(***************************************************************************)
WriteOrderUntilReturn == ~resumed => TotalWriteOrder
=============================================================================
