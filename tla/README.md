# Remill: a TLA+ development

Remill translates machine code into LLVM bitcode. Its C++ library decodes
instructions, lifts *traces* (everything reachable from an address by direct
control flow) into functions over a `State` structure, an opaque `Memory`
pointer and a program counter, optimises the stores to `State` that unoptimised
lifted code is full of, and moves and stores the resulting modules. The library
is sequential; what is hard in it is mostly *order*: worklists that must reach
everything whatever order LLVM gives them, results that are used while they
still change, long legal sequences of calls, and code that is split over
functions which call each other. Interleaving comes in at both ends: the code
that it produces runs in several threads, and several runs of the tool may write
to one file.

    LiveSets ── VisitBlock                     one block, one instruction a step
        └────── DeadStoreEliminator ── DeadStoreRun      the pass, and its effect
    StateAlias                                 what the pass knows of each pointer
    RegisterForwarding                         what is done to one block after it
    Decoder, BranchTargets                     the Instruction object; its targets
    TraceLifter ── LiftedRun ── (refines) Machine        lifting, and its effect
    LiftedAtomics                              what threads of lifted code may do
    MoveFunctions                              cloning and moving between modules
    StoreModule ── (refines) ModuleFile        writing the output

with proofs in the `*_proofs` modules and TLC instances in the `MC*` modules.
Some of these are about two components: `Visitors_proofs` about `VisitBlock` and
`StateAlias`, the two visitors that find dead stores; `DeadStoreRun_proofs`
about `DeadStoreEliminator` first, `LiftedRun_proofs` about `TraceLifter`;
`Instructions_proofs` about `Decoder` and `RegisterForwarding`;
`Semantics_proofs` about `BranchTargets` and `LiftedAtomics`.

## Inventory

For each part of the repository: its state, its operations, what is hard, and
what makes it correct.

**Trace lifter** (`remill/BC/Lifter.cpp`, `TraceLifter::Lift`; the managers in
`tools/lift/Lift.cpp` and `tests/X86/Lift.cpp`). State: the module, the
manager's map of traces, `trace_work_list`, `inst_work_list`, the blocks of the
function being lifted. `Lift` pops traces in address order, pops instructions
in address order, decodes, lifts, and creates and queues the targets. It calls
the manager (declarations, definitions, bytes), the decoder and the instruction
lifter. Hard: a block may be made as a target before or after its instruction
is lifted and is met again from several branches; a trace that calls itself or
is requested twice must not get a second body; calls declare traces that still
have to be lifted; addresses wrap around at the top of the space; decoding
fails in four ways. Correct: no `CHECK` fails, every finished trace is
complete, minimal and final, every callee exists, and `Lift` returns.

**Lifted code and its runtime** (`Lifter.cpp`, `Util.cpp`,
`Arch/Runtime/Intrinsics.h`). State: the `PC` register, the call stack, the
`MEMORY` variable of each activation. Hard: a call may come back to a PC other
than the one behind it, calls of the next instruction become branches, traces
overlap, the memory pointer is passed along by hand. Correct: a block runs only
when the PC is its address, lifted code does what the machine does, writes are
totally ordered by the memory pointer.

**Dead store elimination** (`remill/BC/DeadStoreEliminator.cpp`,
`LiveSetBlockVisitor`). State: a live set (`std::bitset<256>`) per block, two
worklists, `to_remove`. Backward dataflow analysis over the whole module,
across calls of lifted functions, then removal. Hard: the starting point (only
blocks without successors), the order of visits, entry blocks whose
predecessors are the callers, sets that are written while others are judged by
them, partial stores, cascades of deletions. Correct: the result is the least
solution of the dataflow equations, only dead stores go, nothing that is used
is erased, the loop ends.

**Alias analysis of State** (`StateSlots`, `ForwardAliasVisitor`, same file).
State: offsets of values and of accesses, excluded values, four lists of
instructions. A fixpoint of rounds over `Progress`, `NoProgress`, `Incomplete`
and `Error`, then one final pass. Hard: PHI nodes whose loop values are not
known yet, functions laid out in another order than they run, rounds that end
too early, giving up half way. Correct: what is known is what the pointers are
when the function runs, every access is known, no instruction is lost.

**Register forwarding** (`ForwardingBlockVisitor`, same file). State:
`slot_to_load` during a backward scan of a block. Hard: narrow and wide accesses
of one slot, conversions, moving loads over stores. Correct: every block
computes what it did.

**Instruction lifter** (`InstructionLifter`, `Lifter.cpp`). Stateless apart
from the block: finds the semantics function, opens an atomic region, lifts
operands, advances `PC`, stores the new memory pointer. Correct: each parameter
has its operand, operands are computed from the PC of the instruction, regions
are closed.

**Cloning and moving functions** (`CloneFunctionInto`,
`MoveFunctionIntoModule`, `Util.cpp`). State: two modules and the references
between their objects. Hard: functions that use each other are moved one by one, and
what has local linkage can be neither found by name nor linked to, only copied.
Correct: what can be linked to is there once, and what has moved refers to the
new module, operand by operand as before.

**Pipeline and files** (`tools/lift/Lift.cpp`, `Optimizer.cpp`,
`StoreModuleToFile`, `OS/FileSystem.cpp`). State: files. Hard: a temporary file
that is renamed before it is flushed, short writes, crashes, runs at the same
time. Correct: the file changes hands in one step, holds the beginning of one
module and never a mixture, and a run that succeeds has stored all of its own.

**Architectures** (`Arch/*`). Decoders turn bytes into `Instruction`s. State:
the `Instruction` object, which is reset, decoded at once or lazily, finalized
and lifted. Hard: decoding appends to the object; targets are computed twice, for
the lifter and for the lifted code. Correct: the object has the operands of its
semantics, both targets agree. The tables of bit patterns are mostly generated.

**Instruction semantics** (`Arch/*/Semantics`, `Arch/Runtime/Operators.h`).
Pure functions on `State`, except that they read and write memory other threads
share. Hard: atomic instructions become several intrinsics; barriers have to
name the right pair of accesses, on the right side. Correct: no update is lost,
accesses stay where the architecture keeps them.

**Intrinsic table** (`IntrinsicTable.cpp`): a one-time lookup. **Tests,
scripts, build files, ISA specifications**: no logic of their own.

`PROJECT.json` lists the hazards, each at its line, with the properties that
cover it or the reason why none does.

## The modules and the code

### LiveSets, VisitBlock: one backward scan

`LiveSets` defines programs as the eliminator sees them: blocks with loads,
stores, calls, external callees and computations on State *slots*, successors,
function entries. Bits outside `Slots` are the spare bits of the 256-bit set.
`LiveBefore` gives the result of a scan by its *path* definition: a bit is live
at a position iff, going forward, something makes it live before anything kills
it. `VisitBlock` is the loop of the method of that name, one instruction per
step; `live`, `inst_it`, `to_remove`, `block_map` and `on_remove_pass` are its
variables, and each case of its `if` chain is an action. The run `visit_block`
and the theorems `ScanCorrect`, `RemovalCorrect` and `ReturnCorrect` show that
the loop computes `LiveBefore`, so that the other modules may take a whole visit
as one step. What the alias analysis found of a call is part of the program:
`reads` are the `live_args` of the call, and `known` says whether there are any.
Without, `LiveArgsOf` makes everything live, because such a call may read any
register.

### DeadStoreEliminator: the pass

`FindLiveInsts` (with `SwapWorkLists` and `FindDone`), `CollectDeadInsts`,
`DeleteDeadInsts` are the three loops in order. Worklists are sets: the vectors
of the code follow the order of LLVM's use lists, which nothing fixes. The
vectors may hold a block several times; `FindLiveInsts` may therefore leave a
block it has visited in `curr_wl`, to be visited again in the same round. (A
visit that changes nothing and leaves the block is a stuttering step, so this
does not hide that the loop ends.)

### DeadStoreRun: what the pass does to the code

Composes the pass with the execution of the code it rewrote. The original and
the optimised module are run side by side; `stale` is the set of slots where
their States differ because a store was erased. `StaleNeverRead` is what "dead
store elimination" promises.

### TraceLifter: from machine code to functions

`Lift` with both worklists. An image gives for each address the category, the
next address and the branch targets, i.e. what the decoder yields (external to
the module). The actions of the inner loop correspond to the cases of the
`switch` over `inst.category`; `Emit` stands for the `GetOrCreate...Block`
calls. `Known` are traces that the manager declares ahead of time (those of
`tests/X86/Lift.cpp`), `Foreign` those it defines in another module.

### LiftedRun and Machine: what lifted code does

`Machine` is the abstract specification: fetch at `pc`, go to a successor.
`LiftedRun` runs the bodies that `TraceLifter` has made, with a call stack, the
PC and the memory pointer of each activation, and an external runtime behind
the control-flow intrinsics that emulates the machine and may enter lifted
traces again. `ImplementsMachine == M!MachineSpec` states the refinement, `pc`
and `image` being mapped to themselves.

### StateAlias: what is known of each pointer

A function is a sequence of instructions in layout order. `Visit` has a case for
each visit method of `ForwardAliasVisitor` and yields its result and what it
leaves in `state_offset`, `exclude` and `state_access_offset`; the actions are
the body of the inner loop, the end of a round and the final pass. `MayBe`
computes independently what offset each value can have when the function runs,
by any path; `OffsetsAreTrue`, `AccessesAreFound` and `ArgumentsAreLive` compare
the two. They hold where arithmetic is by constants (`ConstantArithmetic`: an
`add` of two pointers is not), the last two where moreover what is selected or
joined is never a constant (`Usual`), and in either of two cases (`Analyzed`):

- blocks are laid out in a reverse postorder and no address is a constant
  (`InOrder`): then one round resolves every value;
- what the final pass leaves over, which `Analyze` at most logs
  (`DeadStoreEliminator.cpp:630`), depends on nothing it found and joins no two
  values (`Completed`).

Without either, an offset may be wrong although `Analyze` returned true: a cast
of a constant never makes progress, the rounds stop early, and the final pass
visits a PHI node before the value that loops back to it has an offset.

### RegisterForwarding: one block

`VisitStore`, `VisitFirstLoad`, `ForwardLoad` and `ReorderLoads` are the cases of
`ForwardingBlockVisitor::VisitBlock`, `cur` its reverse iterator. `Run` executes
a block on a State of bytes, with conversions that lose what they lose;
`SameMeaning` says that the block, at any moment of the scan, does what it did.
Three conditions name what lifted code looks like after optimisation: accesses
stay in their slot (`InSlots`), floats of two sizes do not share an offset
(`OneFloat`), pointers are computed before the block (`EarlyPointers`).

### MoveFunctions: two modules

Objects are functions, variables and aliases in the source or the new module;
`refs` are the operands of each function, plain, in a cast, or nested in another
constant, as a set: several operands of the same shape count as one.
`MoveFunctionIntoModule(f)` and `CloneFunctionInto(f)` are one step each, as the
code does them with nothing in between; where a `CHECK` or `LOG(FATAL)` stops them
the program stops (`MoveAborts`, `CloneAborts`).

A function is found by its name. A variable is looked up with
`getGlobalVariable`, which passes over those with local linkage (`Found`,
`internal`). So an operand that is a variable with local linkage gets a copy of its
own, with a name that LLVM alters when it is taken (`Copy`); the first one has the
name itself (`Dest`; a plain operand is taken to come before a cast of the same
variable, which matters for the name only). `CannotDeclare` has what cannot be
declared: a function with local linkage that is not there yet, a variable with
local linkage without an initializer (`Uninitialized`) or with one that needs
relocation (`Relocated`), and an alias (`Others`). `CloneFunctionInto` finds and
inserts by name whatever the linkage is, and makes it external.

### StoreModule and ModuleFile: the output file

A run stores IR, then writes a temporary file, asks `has_error`, renames, and
falls back on `CopyFile`; every system call may fail where it may, and a run may
crash at any step. The stream writes what is left in its buffer when it is
destroyed, after the rename (`Flush`, at `"close"`); it may fail there, or the run
may crash before it, and the file has its final name by then. `system` says on
which kind of system the runs are: how many chunks of a module are in the file
when `MoveFile` is called, and whether the rename works.

`ModuleFile` is the abstract specification: there is always the beginning of one
module in the file, of `upto` chunks; the file changes from one run's to another's
in one step (`Replace`); a run that succeeds has added the rest (`Complete`); one
that fails before its step leaves the file alone (`Fail`), one that fails behind
it may leave its module short (`FailLate`). The mapping shows the file as it is,
in the window between rename and flush too. That readers never find half a module,
which is what the temporary file is for, does not hold (`NeverHalf`, below).

### BranchTargets: where control goes

Each step executes an instruction at `block`, where the lifter has put it, while
the lifted code has `pc`. `X86Decode`, `AArch64Decode` and `MipsDecode` give the
successor addresses and the displacements of the operands as the three decoders
compute them, with the width of the PC and of a `uint64_t`; `Address` is
`LiftAddressOperand`. `PCIsBlock` says that the two agree.

### Decoder: the Instruction object

`Reset`, `DecodeInstruction`, `LazyDecodeInstruction`, `FinalizeDecode` and
`LiftIntoBlock` in any legal order on one object. `Kinds` describes encodings by
category, number of operands and features: the external tables. The number of
operands is what the properties are about.

### LiftedAtomics: threads

`LiftIntoBlock` and `Semantics` translate instructions into reads, writes,
barriers and atomic regions; then the threads run, and the runtime may perform
accesses in any order that the intrinsics and the architecture leave open
(`relaxed`: store-load on X86, everything on AArch64). Atomic regions exclude
each other and nothing else, and the intrinsics do what `Intrinsics.h` says of
them; the runtime itself is external. A write of `"inc"` stores what the last read
of the same word before it has got, plus 1 (`Source`); being of the same word, the
two stay in order. `MONITOR` is a local variable of the function of a trace. All
threads of a system run one architecture (`SystemsAssumption`).

## The runs

| run | question | result |
|---|---|---|
| `visit_block` | does one scan compute the path definition, and push exactly the dead stores? | holds |
| `dead_store_run` | does FindLiveInsts end, in every order, with the least solution; is a register ever read after its store was erased? | holds, if every block can reach an exit |
| `port_loop` | may sets of blocks "not visited yet" stay empty, as a comment says? | violated |
| `lifted_run` | do Lift's CHECKs hold; are traces complete, minimal, their callees defined; does Lift return; does lifted code refine the machine? | holds |
| `write_order` | does the memory pointer order all writes, as the documentation says? | violated |
| `state_alias` | are the offsets true and complete, whatever the layout and the loops; do the rounds end? | holds, under the conditions above |
| `forwarding` | does a block mean the same, and are redundant loads gone? | holds, under the conditions above |
| `store_module` | does the file change hands in one step and hold the beginning of one module only, is success true, is nothing left behind, does every run end? | holds, on the systems below |
| `move_functions` | is what has moved self-contained, and what can be linked to unique, after any order of moves and clones; do all arrive? | holds, if every operand can be declared or copied and no clone uses a global with local linkage |
| `branch_targets` | do the lifter's edges lead where the operands lead? | holds on X86, AMD64, AArch64 |
| `decoder` | does an object have the operands of its semantics, however it was used? | holds but for branches decoded twice |
| `lifted_atomics` | is an update lost, a lock taken twice, a fence passed, a region left open? | no |

`ImplementsModuleFile` speaks of systems where the rename works, whatever crashes
or fails before or behind it; `SuccessMeansStored` of those, and of those where the
rename fails but nothing is left in the buffer of the stream. `NoTmpLeft` speaks of
every run that has ended but those that crashed and those whose `CopyFile` failed:
its `LOG(FATAL)` comes before `MoveFile`'s `RemoveFile`. The type invariants
(`TypeOK`, `RunTypeOK`, `ThreadsTypeOK`), `LiveSetsGrow`, `CollectLeavesLiveSets`,
`ErasedOnce`, `TracesFinal`, `RunsAtItsPC`, `EveryInstructionOnce` and
`PendingLoadsAreCurrent` hold in the same instances and are not part of these
configurations: they are proved, or follow from what is checked or are means to
it.

### Bounds

- *Programs* (`MCPrograms`): two functions, four blocks. Three blocks of `f`
  are enough for a diamond, a loop with an exit, two exits and a loop without
  exit; `g` makes calls out of loops, recursion and callees that never return.
  Blocks have up to two or three instructions, from a load, a full and a partial
  store, calls, external callees with and without `live_args`, and computations:
  every kill/gen pair and order.
  One slot suffices, because the analysis treats slots independently and a
  cascade of deletions needs no second one. One spare bit stands for the spare
  bits; a set without any, 256 slots, is not exercised.
- *Images* (`MCImages`): three addresses in a space of three, so that the last
  instruction's next address lies outside. Address 0 takes every category and
  every target. `Requests` holds an address twice reached and one beyond the
  mask.
- `MaxDepth` bounds the nesting of calls in a run (2 and 3: a call within a
  call, or the runtime within a trace within the runtime), `MaxWrites` the
  memory pointers (2). Both are guards on pushing and writing only.
- *Functions of `StateAlias`*: two values of any kind with an access or a call,
  and three values joined by PHI nodes, in every layout: loops of two nodes,
  uses before definitions, offsets beyond the State of three bytes.
- *Blocks of `RegisterForwarding`*: all of four loads, stores and calls on two
  registers of two bytes: a chain of three loads, a store or call between any two.
- *Scenarios of `MoveFunctions`*: three functions with up to two operands each,
  cycles and self references included, which share a variable with local linkage
  in two shapes; two functions with the operands that stop the tool; two with any
  operands where they are cloned too.
- *Systems of `StoreModule`*: modules of three chunks, of which none to all are
  flushed before the rename, so that a flush, too, and a copy may stop in the
  middle. Three runs where the rename works and one chunk is flushed; two with any
  number of chunks, whether the rename works or not.
- *`BranchTargets`*: a `uint64_t` of 7 bits, PCs of 7 or 6 bits: every address
  and displacement near both ends. One call in progress.
- *`Decoder`*: an encoding of each category, and encodings of each set of
  features, on architectures with and without them.
- *`LiftedAtomics`*: straight programs of up to four instructions, two or three
  threads: each pair of accesses around each fence and update, pairs of exclusive
  accesses.
- `Deadlock` is not checked where things end: the passes, the runs at their
  bounds or in undefined memory, the threads.

### Fairness

`Lift`, `FindLiveInsts` and the loops after it, `Analyze` and the moving of
functions are sequential C++ loops that nothing preempts and that wait for
nobody: `WF_vars(Next)` says that the thread keeps executing, and no more. Which
order the work is done in stays free. The variables of a run of lifted code are
not among `vars`: it may stop anywhere. In `StoreModule` each run is a process,
with weak fairness of its own; a crash ends it. In `LiftedAtomics` some thread
that can go on does; programs are straight, so no thread can spin.

## What is proved

For every set of blocks, functions, slots and bits, and every set of well-formed
programs of any size; for every size of `State` and every LLVM function over it; for every address space, machine code, manager and
sequence of requests; for any number of runs, chunks and faults; for any two
modules, traces and globals; for all word sizes and displacements; and for all
encodings, with any number of operands:

| theorem | statement |
|---|---|
| `Visitors_proofs!TypeCorrect` | the scan keeps its types |
| `ScanCorrect` | `live` is always `LiveBefore` of the rest of the block |
| `RemovalCorrect` | exactly the dead stores are pushed, only on the remove pass |
| `ReturnCorrect` | `block_map` gets the entry set, and "changed" is reported iff it changed |
| `FindingsAreJustified` | `Analyze` loses no instruction, and every offset, exclusion and access has its reason (where arithmetic is by constants) |
| `OffsetsHold` | what has an offset when `Analyze` returns true has no other at run time |
| `AccessesHold` | every access of State is in `state_access_offset`, with its offset |
| `ArgumentsHold` | a call's live set has the slots of all bytes its arguments point at |
| `EachVisitedOnce` | the worklists of `Analyze` neither lose nor repeat an instruction |
| `DeadStoreRun_proofs!TypeCorrect` | the pass keeps its types |
| `LiveSetsOnlyGrow` | no visit takes a bit out of a live set |
| `LiveSetsAreLeast` | the sets never exceed any solution |
| `LiveSetsAreSolved` | after the search they solve the equations, if every block can exit and a bit is spare |
| `CollectIsHarmless` | under the same conditions the remove pass changes no set |
| `ErasedIsUnused`, `NothingErasedTwice` | deletion never leaves a use of an erased instruction, nor erases twice |
| `EliminationIsSound` | no run reads a register whose last store was erased |
| `LiftedRun_proofs!TypeCorrect` | Lift keeps addresses and blocks well-typed |
| `ChecksAlwaysHold` | no `CHECK` of Lift fails |
| `TracesAreFinal` | a finished trace stays, and stays the same |
| `TracesAreComplete` | a finished trace has its head, terminators, instructions and branch targets |
| `TracesAreMinimal` | all its blocks can be reached from its head |
| `CalledTracesAreDefined` | when Lift has returned, what lifted code calls is defined or was declared ahead of time |
| `RunTypesCorrect` | a run of lifted code keeps its types |
| `LiftedCodeIsAtItsPC` | a block runs only when the PC is its address |
| `LiftedCodeImplementsTheMachine` | `RunSpec => M!MachineSpec`: lifted code goes where the machine goes |
| `WritesAreOrderedUntilReturn` | until a call has returned, the running function has the newest memory pointer |
| `StoreModule_proofs!NoTmpIsLeft` | no run that has ended leaves a temporary file, unless it crashed or its `CopyFile` failed |
| `SuccessIsStored` | a sole run that returns true has stored its module |
| `StoringImplementsModuleFile` | `Spec => File!Spec`: where renames work the file changes hands in one step and readers see the beginning of one module, crashes at any step included; all of it once its run has succeeded |
| `MoveFunctions_proofs!MoveTypesCorrect` | modules and operands hold objects |
| `NamesStayUnique` | what can be linked to in the new module is there once |
| `MovedIsSelfContained` | no operand refers to an erased declaration, or back to the old module, and each to what it referred to before |
| `DeclarationsLinkBack` | what is only declared can be linked, if no clone uses something local |
| `OnlyUndeclarableAborts` | no `CHECK` or `LOG(FATAL)` stops the tool unless an operand can be neither declared nor copied |
| `Semantics_proofs!BranchTypesCorrect` | the PC and static addresses fit their widths |
| `PCIsAlwaysBlock` | edges lead where the operands lead |
| `ReturnsAlwaysContinue` | the link address of a call is the next_pc it is compared with |
| `OnlyWrapsAreEverMissed` | a block without code is a target beyond an end of the address space, wrapped, and no other |
| `FencesHold` | no access passes a fence that orders it |
| `NoUpdateIsLost` | a word counts all its increments, by any number of threads (exclusive pairs: by one) |
| `OneTakesTheLock` | one of all the threads that want a lock gets it |
| `ThreadsAreTyped` | the threads keep their types, and the owner of the region will end it |
| `Instructions_proofs!ArgumentsAlwaysMatch` | what is lifted has the operands of its semantics |
| `LazyDecodeIsEager` | finalizing a lazy decode gives what an eager one gives |
| `RedundantLoadsAreGone` | one scan leaves no redundant load of integers |
| `ForwardingKeepsMeaning` | forwarding changes nothing that a block does |

*Assumptions.* `SlotsAreBits` (`StateSlots` gives every slot an index below
256, else `bitset::test` throws), `ProgramsAreWellFormed` (what LLVM's verifier
checks), and, for four theorems, `Bits \ Slots # {}` (fewer than 256 slots).
For the alias analysis, `EveryByteHasASlot` and `FunctionsAssumption`: operands are
there, as many as the opcode takes, and a store is nobody's operand (LLVM's
verifier again).
For the lifter: `ImagesAreCode`, `ManagerTraces`, `RequestsAreNat`,
`SpaceIsPositive`, `NoTraceIsNone`. For the files, `NoInodeAssumption`: the value
that stands for "no file" is not a file. For the modules, `ObjectsAssumption`
(functions, variables and aliases are different things), `NewObjectsAssumption`
(an object that is made is not one that was there) and `ScenariosAssumption` (the
operands of the functions of the old module are objects of that module). For the
decoder, `KindsAssumption`: the number of operands is a number. For the forwarding,
`BlocksAssumption`: loads and stores are of bytes of `State`, and what a store
writes was computed before it (LLVM's verifier). For the targets,
`WidthsAssumption` and `PowersAssumption`: 2^w and 2^(w-1) are positive for the
word size w of each architecture, and 2^w divides 2^Wide. That holds of all w up
to Wide; it is an assumption because the provers know nothing of powers, and TLC
evaluates it in the run. For the threads, `NoneAssumption` (no address is the value
for "no address") and `SystemsAssumption`: there are finitely many threads, they
run instructions of one architecture, and X86 lets only loads overtake stores. The
number of threads, their programs and their words are arbitrary, and so is what
AArch64 reorders. The bounds of the runs (`MaxDepth`, `MaxWrites`,
`MaxCalls`) are arbitrary in the proofs.

*Argument.* The scan lemma `LiveBeforeStep` says how the path set changes by one
instruction: it is what each action does, so `ScanCorrect` is the invariant of
the loop; `NothingBehindTheEnd` starts it. `LiveSetsOnlyGrow` is not inductive:
a visit computes `LiveOnEntry` of sets that have grown since the last visit, so
the invariant needed is that every set is below what its own scan would compute
now (`Ascending`); a scan is monotone in the sets it reads, and depends only on
those of its successors and callees (`ScanDependsOn`). For `LiveSetsAreSolved`
one needs that a block whose set is out of date is queued. This is false of
blocks that were never visited, so the invariant (`NothingMissed`) says that a
block is queued, solved, or untouched: no exit, and the sets of all its
successors are still empty. An exit, once visited, has the spare bit, which no store
kills, and blocks that reach it get that bit in turn; hence with `AlwaysExits`
no block is untouched at the end. Least element arguments that choose the last
instruction of a path rest on `LeastElement`. `Erasure` adds to `NoDanglingUse`
that what is on the stack has no users left.

In `StateAlias` the difficulty is that PHI nodes guess: an offset is recorded when
one incoming value has it, and only a visit with the result `Progress` has seen
them all. So the invariant (`AInv`) has two parts. `Findings` says why each
thing was recorded: an offset comes from an operand that has it and points
(`Source`), an exclusion from an operand that is excluded or constant (`Cause`);
what is recorded is never changed, so reasons stay good (`SourcesStay`,
`CausesStay`). `Coverage` says that an instruction is on a list or `Done`: all its
operands agree with it, or all are outside `State`. At the end nothing is on the
lists but what `Completed` allows; in a reverse postorder not even that is needed,
because the first round leaves no value unsettled (`OneRoundIsEnough`, which needs
that the list is in the order of the layout, `LayoutIsIncreasing`). Then what was
found is closed under execution (`TruthsAreClosed`, `FoundIsClosed`). `MayBe`, a
recursive function over the number of rounds, is contained in every closed set
(`MayBeIsLeast`): since induction over a definition is not available, the proof
takes the least round that is not contained, and for the values of the recursive
function a function that counts rounds up to a bound (`CountsExist`,
`CountsAgree`). `EachVisitedOnce` needs no conditions: the lengths of the four lists
always sum up to the number of instructions (`EachOnOneList`), and a list of all of
them that is no longer than that repeats none.

`EliminationIsSound` rests on `Elimination`, the conjunction of those invariants
with `OnlyDeadStores` (what is or will be erased is dead by the final sets, or
is not a store), and on `StaleIsDead`: no stale slot is live where the run is.
Nothing has to be said of the call stack, because at an exit all bits are live,
hence nothing is stale when control returns.

For `Lift`, `InstructionStep` sums the fifteen actions of the inner
loop up: the address is dropped because its block is filled, or an empty block
is filled and its targets are made and queued (`Emits`). `Bookkeeping` ties
`funcs`, `traces` and `func` together, which is why the CHECKs hold;
`HalfComplete` says of the trace under construction that what is still empty is
queued; `ReachableSoFar` that its blocks can be reached; `CallsQueued` that the
callees are defined, declared, under construction or on `trace_work_list`.
Filling in terminators at the end turns the first two into the finished forms.

The runs of lifted code start from there: a step of a run is a step of the
lifter or leaves it alone (`RunsLift`), so its invariants can be used. They do not
say what a block has to do with the machine code at its address; `FaithfulBlocks`
does (`FollowsCode`: a branch goes to the successors of the instruction, a call
of a trace calls the successor, and only where there are bytes is anything lifted).
With it `RunInv` is inductive: every frame is in a block of a finished trace, all
but the running one wait behind a call (`GoodFrames`), the running one has its
own address in the PC (`RunsAtItsPC`) and, until a call has returned, the newest
memory pointer (`NewestMemory`). The refinement is then one lemma for each
action: where `pc` changes, it goes to a successor.

In `StoreModule`, a run that has made its temporary file owns it until the rename
or the unlink: its name has its inode (`TmpNames`), no other run has that inode
under any name (`TmpIsPrivate`), and a copy holds as much of it as was read
(`Copies`). `WholeModules` says of systems that only replace what is at the path: the
old module, or the file of a run that is past its rename, with at least what it had
flushed by then and nothing of anybody else's (`HasAtLeastFlushed`). Each step of a
run then is one of the abstract specification or none (`FileSteps`). `SoleRun` is
what a run may say of the file when nobody else has begun.

In `MoveFunctions` the invariant has the places of objects (`Places`: only traces
leave the old module, and the declaration of a trace does not outlive its arrival),
that copies with an altered name stay local, so that no clone finds them
(`Linkages`), what bodies refer to (`Bodies`: as they were until they move, and
always to the same originals in the same forms), and where operands may lead
(`Closed`). `MoveIsMoved` and the two lemmas on clones sum the actions up, and the
rest only uses that. `LinksBack` needs the assumption that the code makes and does
not check: `CloneFunctionInto` declares what it uses whatever its linkage. For
`OnlyUndeclarableAborts` nothing but that declarations of traces are never
definitions (`NoneDefined`) and that a body is the original until it moves.

In `BranchTargets` the two properties are inductive together with the types,
given that reducing modulo 2^Wide first changes nothing modulo 2^w (`ModOfMod`)
and that displacements may be added before or after (`ModSum`). `SameTarget` puts
that in terms of the code; `DecodeAgrees` is what X86 and AArch64 decoders have in
common. In `Decoder` the invariant says, for each phase of the object, which
operands it has: those of no decode, of half a lazy one, of one, or of two.

In `LiftedAtomics` one first needs to know what code is. `Code` flattens the lifted
instructions with a recursive function; as in the other proofs the values of that
function exist and are unique by the least counterexample (`FlattenSeqFacts`), so
that each intrinsic has its place (`Laid`), and instruction by instruction one sees
what is there (`LiftIsWell`, `LiftWrites`, `LiftFences`). From then on only the
`Shape` and the `Effects` of code are used. What a thread has performed is closed
under the order of its code (`DoneInOrder`); that alone gives `FencesOrder`: whoever
has passed a fence has performed it, and what it waits for. For the rest, a region
is `Open` when its begin is performed and its end is not. Accesses of an atomic
instruction are performed in an open region (`AccessIsInRegion`), which stays open
until they all are (`PendingIsInRegion`); a thread has one region open at most
(`OpenIsUnique`), and only the owner has one (`Regions`). `OneWinner` is not
inductive, because XCHG reads before it writes: who has read a 0 has written since,
or is still in its region (`Winners`). Nor is `NoLostUpdate`: a write that is to
come must find the word as it was read (`Counted`). With `NoRival` it does: another
write would be performed in an open region too, so by the same instruction. This
does not help a pair of exclusive accesses, which has two regions; there it is the
one writer, and that MONITOR was set by a load with no STLXR since
(`MonitorIsLoaded`, `SourceFacts`), that leave no other write.

In `RegisterForwarding`, `RedundantLoadsGo` follows from `Forwarding`: the next access
of each slot, if it is a load, waits in `slot_to_load` or is gone, and of the
adjacent pairs behind the scan one is gone. `SameMeaning` needs to know where things
stand (`Rearranged`): the order is a permutation that has left alone what is in
front of the scan, no result is used before it is there (`DefinedFirst`), and
between the scan and a load that waits, wherever that was moved to, nothing writes
to its slot (`NothingInBetween`; in terms of the block as it was this would say
nothing about loads that have moved). `Run` is a recursive function; the proof
reasons about all its values at once (`StepsTo`, which exist and are unique by the
least counterexample): a load may be replaced where its replacement has the same
value (`StepsWithUse`), and moving one changes the states between by one result
(`StepsWithMoved`), which no instruction there uses.

*Only model-checked:*

- liveness (`Terminates`, `AllMoved`, `AllEnd`, `Finishes`), which needs `ENABLED`.
  Of `AllMoved` the safety part is proved (`OnlyUndeclarableAborts`), and of
  `Finishes` that the owner of the region has still to end it (`ThreadsAreTyped`).

## Where the code disagrees with its documentation

Two have runs of their own.

**Loops without an exit** (`port_loop`). `FindLiveInsts` starts from blocks
without successors and queues only blocks whose successors or callees changed.
In `L: out dx, al; inc eax; jmp L` no block of the loop is ever visited, so
`CollectDeadInsts` judges its stores by empty sets. The store of `EAX` at the
end of the block is removed, although the hyper call of the next round is handed
all of `State`. A comment at `remill/BC/DeadStoreEliminator.cpp:1172` says that
inheriting an empty set "is fine because our algorithm converges". The positive
properties carry `AlwaysExits` as a condition for this reason.

**Memory order behind calls** (`write_order`). `AddCall` passes the current
`MEMORY` to the callee but nothing stores the pointer it returns
(`remill/BC/Lifter.cpp:994`), so the caller's next write starts from the pointer
of before the call. `docs/LIFE_OF_AN_INSTRUCTION.md:221` promises "a total order
across all memory writes". `WriteOrderUntilReturn` is what does hold.

The others are why the properties of the other modules have conditions. Each is
stated as a definition, quoted from the sources, that TLC refutes in the given
instance when it is put in the place of the run's properties.

| statement | instance | what happens |
|---|---|---|
| `StateAlias!RepeatsUntilDone`: "Analysis repeats until the current worklist is empty or until an error condition is hit." (`DeadStoreEliminator.cpp:527`) | `Functions <- PointerLoops` | the rounds also stop when one made no `Progress`; `Incomplete` does not count, although it sets an offset that others wait for |
| `StateAlias!NoInconsistencies`: "so that we can make sure that there are no inconsistencies" (`:947`) | `PointerLoops` | the final pass visits a PHI node before the value that loops back to it: p1 = phi(p1, p2); p2 = phi(p3, State); p3 = p1 + 1 succeeds with p2 at 0 and p3 at 1 |
| `StateAlias!FailureIsConservative` | `IndexedLoads` | `RemoveDeadStores` goes on after a failed `Analyze` (`:1830`) with a store that is known and the load behind the failing instruction that is not; calls are allowed for (`:1221`), loads are not |
| `RegisterForwarding!NoForwardingAroundStores`: "we don't want to accidentally forward around a store" (`:1628`) | `Blocks <- WideStores` | a store that reaches into the next slot leaves the load of that slot waiting |
| `RegisterForwarding!ForwardsWhatWasStored` | `TwoFloats` | a narrower float load is given the rounded value (`FPTrunc`, `:1668`) where memory has its low bytes |
| `RegisterForwarding!DefinedBeforeUse` | `LatePointers` | a wide load is moved before the cast that computes its pointer (`:1765`) |
| `SuccessMeansStored` without its condition | as `store_module` | the end of the bitcode is still in the buffer when `CopyFile` copies the file (`Util.cpp:369`): a truncated module, and `true` |
| `StoreModule!BitcodeIsTried`: `allow_failure` (`Util.cpp:396`, `Lift.cpp:239`) | as `store_module` | `LOG_IF(FATAL, allow_failure)` aborts exactly when failure is allowed, and the bitcode is not written |
| `StoreModule!NeverHalf`, which the temporary file is for | as `store_module` | the rename (`Util.cpp:369`) comes before the destructor of the stream writes the end of the bitcode: readers find half a module in between, and for good if the run stops there |
| `MoveFunctions!ClonesLinkBack`: "Mark the global as extern, so that it can link back to the old module." (`Util.cpp:718`) | `Scenarios <- LocalClones` | also one with local linkage, which cannot be linked to |
| `MoveFunctions!SharedStaysShared` | `Scenarios <- Moves` | `getGlobalVariable` (`Util.cpp:864`) finds no variable with local linkage, so every operand has a copy of its own: what two functions wrote and read in one variable is two variables now |
| `MoveFunctions!GlobalsSubstituted`: "Substitute globals in the operands." (`Util.cpp:939`) | `NestedUses` | a global inside another constant expression stays one of the old module |
| `PCIsBlock` for MIPS (`AddPCDisp` "computes `PC + disp`", `MIPSEL/Arch.cpp:540`) | `branch_targets` without `~Mips` | the absolute target is given as displacement (`:951`, `:2137`) |
| `ReturnsContinue` for MIPS (`:547`) | the same | the link address is pc + 8, next_pc is pc + 4: every return goes to `__remill_missing_block` |
| `OnlyWrapsAreMissed` for MIPS (`Instruction.h:160`) | the same | a target in the upper half is sign-extended to 64 bits (`:946`) |
| `ArgumentsMatch` without `DecodedTwice`: "Fully decode any control-flow transfer instructions" (`X86/Arch.cpp:1215`) | as `decoder` | `LazyDecodeInstruction` decodes once in its condition and once to log it (`:1222`): branches have their operands twice |
| `Decoder!RefusedIsNotLifted` for all encodings: "Make sure we disallow decoding of AVX instructions" (`X86/Arch.cpp:1113`) | as `decoder` | `VPMOVMSKB_GPR32d_XMMdq` (`MMX.cpp:1952`) is the one AVX form outside `IF_AVX`: refused, valid, and lifted |
| `NoLostUpdate` without `Undisturbed`: MONITOR "is to support load-linked/store-conditional operations" (`AArch64/Runtime/BasicBlock.cpp:47`) | as `lifted_atomics` | STLXR compares addresses only (`DATAXFER.cpp:306`): another thread's store in between goes unnoticed |
| `LiftedAtomics!StoreSucceeds` across traces | as `lifted_atomics`, `"new_trace"` not excluded | MONITOR is a local variable of each trace (`BasicBlock.cpp:33`) |
| `LiftedAtomics!ReleaseIsLast`: "Store release." (`Intrinsics.h:127`) | as `lifted_atomics` | the barrier comes after the store (`DATAXFER.cpp:122`) |
| `LiftedAtomics!AcquireIsFirst`: "Load acquire." (`Intrinsics.h:121`) | as `lifted_atomics` | the barrier comes before the load (`DATAXFER.cpp:723`) |
| `LiftedAtomics!BarrierIsFull`: "Full-system data memory barrier" (`SYSTEM.cpp:82`) | as `lifted_atomics` | DMB orders stores only |

Two are not the library's alone: MIPS lifts nothing of a delay slot anyway, and
what a runtime makes of regions and barriers is its own affair; the table takes
the words of `Intrinsics.h`.

## What is not modelled, and why

Data: register and memory contents, values of operands, types and metadata of
the bitcode. Nearly all lines of the repository are tables and straight-line
formulas: the generated decoders (`AArch64/Extract.cpp`, `Decode.cpp`,
`MIPSEL/Extract.cpp`) turn bit patterns into fields, the semantics files have one
data-flow formula for each instruction, without state, loops or order between
them. A specification of them would be a copy. The parts of them that have
behaviour over time (operand counts, targets, atomicity, order) are modelled.

Of the dead store eliminator: terminators that remill does not generate
(`invoke`, `indirectbr`, the funclet family), the statistics and DOT output. Of
the lifter: instructions longer than one address, the callback. Of the
architectures: address modes and their write-back on AArch64, the register
tables; instructions of the categories that no decoder yields or that the lifter
has no case for (pipelines, conditional calls) end in `__remill_missing_block`
and are modelled as that. MIPS delay slots: the decoder computes their
addresses, the lifter has no case for them. LLVM's optimisations, XED and the
rest of the libraries are third-party code.

## Plan

1. *(done)* `LiveSets`, `VisitBlock`, `DeadStoreEliminator`, `DeadStoreRun`;
   `TraceLifter`, `Machine`, `LiftedRun`; first proofs.
2. *(done)* `StateAlias`, `RegisterForwarding`, `MoveFunctions`, `StoreModule`
   and `ModuleFile`, `BranchTargets`, `Decoder`, `LiftedAtomics`.
3. *(done)* Proofs about `LiftedRun` and its refinement of `Machine`, `StoreModule`
   and its refinement of `ModuleFile`, `MoveFunctions`, `BranchTargets`, `Decoder`,
   `StateAlias`, `RegisterForwarding`, `LiftedAtomics`: all safety properties that the
   runs check.
4. `StateAlias` composed with `LiveSets`, so that slots and `reads` become
   results instead of inputs; the address modes of AArch64.
