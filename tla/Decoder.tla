------------------------------- MODULE Decoder -------------------------------
(***************************************************************************)
(* The life of an Instruction object: Reset, DecodeInstruction or          *)
(* LazyDecodeInstruction and FinalizeDecode, and LiftIntoBlock.  Decoding  *)
(* appends operands to whatever the object holds; LiftIntoBlock gives each *)
(* a parameter of the semantics function.                                  *)
(*                                                                         *)
(* Kinds[k] describes an encoding: its category, the number of operands    *)
(* that are written in it (x87's last PC and opcode among them), the       *)
(* features that the decoder wants for it, and those under which its       *)
(* semantics function is compiled.                                         *)
(***************************************************************************)
EXTENDS Naturals, FiniteSets

CONSTANTS Kinds,      \* encoding -> [category, operands, needs, compiled, locked]
          Arches,     \* architecture -> [features, lazy]: lazy if it decodes
                      \* partially, as X86Arch does
          NoKind

ASSUME NoKindAssumption == NoKind \notin DOMAIN Kinds

ASSUME KindsAssumption ==
  \A k \in DOMAIN Kinds : Kinds[k].operands \in Nat /\ Kinds[k].locked \in BOOLEAN

VARIABLES arch,
          kind,      \* the encoding in the bytes that were read last
          inst,      \* the Instruction object
          phase,     \* what the client did last
          result     \* what DecodeInstruction or LiftIntoBlock returned

vars == <<arch, kind, inst, phase, result>>

ResetInst ==
  [category |-> "invalid", operands |-> 0, function |-> NoKind,
   forDecode |-> FALSE, atomic |-> FALSE]

IsValid(i) == i.category # "invalid"
IsControlFlow(i) == i.category \notin {"invalid", "normal", "noop"}
IsFunctionCall(i) == i.category \in {"call", "indirect call"}

\* Operands beside those of the encoding: BRANCH_TAKEN of a conditional
\* interrupt, the return address of a call.
Interrupt(i) == IF i.category = "cond interrupt" THEN 1 ELSE 0
ReturnAddress(i) == IF IsFunctionCall(i) THEN 1 ELSE 0

\* A relative branch has one address operand, a conditional one the condition
\* and two.
Explicit(k) ==
  IF Kinds[k].category = "cond branch" THEN Kinds[k].operands + 2
  ELSE Kinds[k].operands

Supported(k) == Kinds[k].needs \subseteq Arches[arch].features

\* The rest of the decode, if it is not put off.
Completed(i, k, lazy) ==
  IF ~lazy \/ IsControlFlow(i)
  THEN [i EXCEPT !.function = k, !.operands = @ + Explicit(k) + ReturnAddress(i)]
  ELSE i

\* X86Arch::DecodeInstruction(address, bytes, inst, is_lazy): the object that
\* results, and what is returned.
DecodedObject(i, k, lazy) ==
  IF Kinds[k].category = "invalid" THEN [i EXCEPT !.category = "invalid"]
  ELSE LET c == [i EXCEPT !.category = Kinds[k].category,
                          !.atomic = @ \/ Kinds[k].locked]
       IN Completed([c EXCEPT !.operands = @ + Interrupt(c)], k, lazy)
DecodeReturns(k) == Kinds[k].category # "invalid" /\ Supported(k)

Eagerly(i, k) == DecodedObject([i EXCEPT !.forDecode = FALSE], k, FALSE)

\* Faulty variant: nothing is remembered for FinalizeDecode.
LazilyForgetting(i, k) == DecodedObject([i EXCEPT !.forDecode = FALSE], k, TRUE)

\* LazyDecodeInstruction decodes in its condition and, if that returned true,
\* once more to log the outcome.
Lazily(i, k) ==
  LET once == DecodedObject([i EXCEPT !.forDecode = FALSE], k, TRUE)
      twice == DecodedObject(once, k, TRUE) IN
  IF ~DecodeReturns(k) THEN once
  ELSE [twice EXCEPT !.forDecode = ~IsControlFlow(twice)]

Init ==
  /\ arch \in DOMAIN Arches
  /\ kind = NoKind /\ inst = ResetInst /\ phase = "reset" /\ result = "none"

Reset ==
  /\ inst' = ResetInst
  /\ phase' = "reset" /\ result' = "none" /\ kind' = NoKind
  /\ UNCHANGED arch

\* The trace lifter goes on whatever is returned.
DecodeInstruction(k) ==
  /\ phase = "reset"
  /\ kind' = k
  /\ inst' = Eagerly(inst, k)
  /\ result' = IF DecodeReturns(k) THEN "true" ELSE "false"
  /\ phase' = "decoded"
  /\ UNCHANGED arch

LazyDecodeInstruction(k) ==
  /\ phase = "reset"
  /\ kind' = k
  /\ inst' = IF Arches[arch].lazy THEN Lazily(inst, k) ELSE Eagerly(inst, k)
  /\ result' = IF DecodeReturns(k) THEN "true" ELSE "false"
  /\ phase' = "lazily decoded"
  /\ UNCHANGED arch

\* Faulty variant: every valid instruction is decoded again.
FinalizeAlways ==
  /\ phase = "lazily decoded"
  /\ inst' = IF IsValid(inst) THEN Eagerly(inst, kind) ELSE inst
  /\ result' = "true"
  /\ phase' = "decoded"
  /\ UNCHANGED <<arch, kind>>

FinalizeDecode ==
  /\ phase = "lazily decoded"
  /\ inst' = IF IsValid(inst) /\ inst.forDecode THEN Eagerly(inst, kind) ELSE inst
  /\ result' = IF ~IsValid(inst) \/ (inst.forDecode /\ ~DecodeReturns(kind))
               THEN "false" ELSE "true"
  /\ phase' = "decoded"
  /\ UNCHANGED <<arch, kind>>

\* The semantics module of an architecture has the functions compiled with its
\* features, with a parameter for each operand of the complete decode.
HasSemantics(i) ==
  i.function # NoKind /\ Kinds[i.function].compiled \subseteq Arches[arch].features
Parameters(k) == Eagerly(ResetInst, k).operands

\* LiftIntoBlock: the number of operands is checked from above only.
LiftIntoBlock ==
  /\ phase = "decoded"
  /\ IF ~IsValid(inst) THEN
          /\ result' = "invalid" /\ inst' = [inst EXCEPT !.operands = 0]
     ELSE IF ~HasSemantics(inst) THEN
          /\ result' = "unsupported" /\ inst' = [inst EXCEPT !.operands = 0]
     ELSE /\ UNCHANGED inst
          /\ result' = IF inst.operands > Parameters(inst.function) THEN "aborted"
                       ELSE IF inst.operands < Parameters(inst.function) THEN "malformed"
                       ELSE "lifted"
  /\ phase' = "lifted"
  /\ UNCHANGED <<arch, kind>>

Next ==
  \/ Reset \/ FinalizeDecode \/ LiftIntoBlock
  \/ \E k \in DOMAIN Kinds : DecodeInstruction(k) \/ LazyDecodeInstruction(k)
Spec == Init /\ [][Next]_vars

-----------------------------------------------------------------------------
TypeOK ==
  /\ arch \in DOMAIN Arches /\ kind \in DOMAIN Kinds \cup {NoKind}
  /\ inst.operands \in 0 .. 16 /\ inst.forDecode \in BOOLEAN
  /\ inst.function \in DOMAIN Kinds \cup {NoKind}
  /\ phase = "reset" => inst = ResetInst

\* What the second decode of LazyDecodeInstruction leaves of a control-flow
\* instruction.
DecodedTwice ==
  /\ Arches[arch].lazy /\ IsControlFlow(inst)
  /\ inst.operands = 2 * Parameters(kind)

(***************************************************************************)
(* LiftIntoBlock calls the semantics with exactly its parameters: its      *)
(* CHECK does not fail, and no argument is missing, however often the      *)
(* object has been used before; but for branches that were decoded twice.  *)
(***************************************************************************)
ArgumentsMatch == DecodedTwice \/ result \notin {"aborted", "malformed"}

(***************************************************************************)
(* LazyDecodeInstruction and FinalizeDecode leave what DecodeInstruction   *)
(* leaves, of an encoding that the architecture supports, but for branches *)
(* that were decoded twice.  (One that it does not support stays half      *)
(* decoded, and FinalizeDecode returns true.)                              *)
(***************************************************************************)
LazyIsEager ==
  phase = "decoded" /\ kind # NoKind /\ Supported(kind) =>
    inst = Eagerly(ResetInst, kind) \/ DecodedTwice

(***************************************************************************)
(* "Make sure we disallow decoding of AVX instructions when running with   *)
(* non-AVX arch specified": what DecodeInstruction refuses is not lifted,  *)
(* although the trace lifter ignores the refusal and the object looks      *)
(* valid.  It does not hold: an encoding whose semantics is compiled under *)
(* fewer features than the decoder wants (VPMOVMSKB) is lifted.            *)
(***************************************************************************)
RefusedIsNotLifted == result = "lifted" => Supported(kind)
=============================================================================
