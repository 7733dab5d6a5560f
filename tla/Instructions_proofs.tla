------------------------ MODULE Instructions_proofs -------------------------
(***************************************************************************)
(* Proofs about the instructions of the program and those of its lifted    *)
(* code.  The first part is about Decoder: however an Instruction object   *)
(* has been used, it reaches LiftIntoBlock with the operands of its        *)
(* semantics function, or is a branch that LazyDecodeInstruction decoded   *)
(* twice.  The second is about RegisterForwarding: a block means the same  *)
(* after ForwardingBlockVisitor, and no redundant load of integers is left *)
(* in it.                                                                  *)
(***************************************************************************)
EXTENDS Decoder, RegisterForwarding, SequenceTheorems, WellFoundedInduction, TLAPS

-----------------------------------------------------------------------------
(***************************************************************************)
(* An Instruction object by its members.  The Booleans have names, which   *)
(* are not expanded where they are values of a field.                      *)
(***************************************************************************)
Object(c, n, f, w, a) ==
  [category |-> c, operands |-> n, function |-> f, forDecode |-> w, atomic |-> a]
No == FALSE
Yes == TRUE
Or(a, b) == a \/ b

LEMMA Members ==
  ASSUME NEW c, NEW n, NEW f, NEW w, NEW a
  PROVE  /\ Object(c, n, f, w, a).category = c
         /\ Object(c, n, f, w, a).operands = n
         /\ Object(c, n, f, w, a).function = f
         /\ Object(c, n, f, w, a).forDecode = w
         /\ Object(c, n, f, w, a).atomic = a
  BY DEF Object

LEMMA Disjunctions == \A a \in BOOLEAN : Or(No, a) = a /\ Or(a, a) = a
  BY DEF Or, No

-----------------------------------------------------------------------------
(***************************************************************************)
(* What the decoders make of an object.                                    *)
(***************************************************************************)
IsEncoding(k) == Kinds[k].category # "invalid"
IsBranch(k) == IsControlFlow(Kinds[k])

\* The operands before the rest of a decode is put off, and those of the rest.
First(k) == Interrupt(Kinds[k])
Rest(k) == Explicit(k) + ReturnAddress(Kinds[k])

LEMMA OperandCounts ==
  ASSUME NEW k \in DOMAIN Kinds
  PROVE  /\ First(k) \in Nat /\ Explicit(k) \in Nat /\ ReturnAddress(Kinds[k]) \in Nat
         /\ Rest(k) \in Nat
         /\ ~IsBranch(k) => First(k) = 0
<1>1. Kinds[k].operands \in Nat
  BY KindsAssumption
<1>2. Explicit(k) \in Nat
  <2>1. CASE Kinds[k].category = "cond branch"
    <3> DEFINE n == Kinds[k].operands
    <3>1. Explicit(k) = n + 2 /\ n \in Nat
      BY <1>1, <2>1 DEF Explicit
    <3> HIDE DEF n
    <3>2. QED
      BY <3>1
  <2>2. CASE Kinds[k].category # "cond branch"
    BY <1>1, <2>2 DEF Explicit
  <2>3. QED
    BY <2>1, <2>2
<1>3. ReturnAddress(Kinds[k]) \in Nat
  BY DEF ReturnAddress
<1>4. First(k) \in Nat
  BY DEF First, Interrupt
<1>5. ~IsBranch(k) => First(k) = 0
  BY DEF IsBranch, IsControlFlow, First, Interrupt
<1>6. QED
  BY <1>2, <1>3, <1>4, <1>5 DEF Rest

\* DecodeInstruction of an object in any state.
LEMMA DecodeAdds ==
  ASSUME NEW k \in DOMAIN Kinds, IsEncoding(k), NEW lazy \in BOOLEAN,
         NEW c, NEW n \in Nat, NEW f, NEW w, NEW a \in BOOLEAN
  PROVE  /\ lazy = No \/ IsBranch(k) =>
              DecodedObject(Object(c, n, f, w, a), k, lazy) =
                Object(Kinds[k].category, n + First(k) + Rest(k), k, w,
                       Or(a, Kinds[k].locked))
         /\ lazy = Yes /\ ~IsBranch(k) =>
              DecodedObject(Object(c, n, f, w, a), k, lazy) =
                Object(Kinds[k].category, n + First(k), f, w, Or(a, Kinds[k].locked))
<1> DEFINE i == Object(c, n, f, w, a)
           j == [i EXCEPT !.category = Kinds[k].category, !.atomic = @ \/ Kinds[k].locked]
           o == [j EXCEPT !.operands = @ + Interrupt(j)]
           b == Or(a, Kinds[k].locked)
<1>1. j = Object(Kinds[k].category, n, f, w, b)
  <2>1. (i.atomic \/ Kinds[k].locked) = b
    BY Members DEF Or
  <2>2. j = [i EXCEPT !.category = Kinds[k].category, !.atomic = b]
    BY <2>1
  <2> HIDE DEF b, j
  <2>3. j = [[i EXCEPT !.category = Kinds[k].category] EXCEPT !.atomic = b]
    BY <2>2
  <2>4. [i EXCEPT !.category = Kinds[k].category] = Object(Kinds[k].category, n, f, w, a)
    BY DEF Object
  <2>5. [Object(Kinds[k].category, n, f, w, a) EXCEPT !.atomic = b] =
          Object(Kinds[k].category, n, f, w, b)
    BY DEF Object
  <2>6. QED
    BY <2>3, <2>4, <2>5
<1>2. DecodedObject(i, k, lazy) = Completed(o, k, lazy)
  BY DEF DecodedObject, IsEncoding
<1> HIDE DEF b, j
<1>3. o = Object(Kinds[k].category, n + First(k), f, w, b)
  <2>1. j.category = Kinds[k].category /\ j.operands = n
    BY <1>1 DEF Object
  <2>2. Interrupt(j) = First(k)
    BY <2>1 DEF Interrupt, First
  <2>3. o = [j EXCEPT !.operands = n + First(k)]
    BY <2>1, <2>2
  <2>4. QED
    BY <1>1, <2>3 DEF Object
<1> HIDE DEF o
<1>4. o.category = Kinds[k].category /\ o.operands = n + First(k)
  BY <1>3 DEF Object
<1>5. /\ IsControlFlow(o) = IsBranch(k)
      /\ ReturnAddress(o) = ReturnAddress(Kinds[k])
  BY <1>4 DEF IsControlFlow, IsBranch, ReturnAddress, IsFunctionCall
<1> HIDE DEF i, j, o
<1>6. ASSUME ~lazy \/ IsBranch(k)
      PROVE  DecodedObject(i, k, lazy) =
               Object(Kinds[k].category, n + First(k) + Rest(k), k, w, b)
  <2>1. Completed(o, k, lazy) =
          [o EXCEPT !.function = k, !.operands = @ + Explicit(k) + ReturnAddress(o)]
    BY <1>5, <1>6 DEF Completed
  <2>2. o.operands + Explicit(k) + ReturnAddress(o) = n + First(k) + Rest(k)
    BY <1>4, <1>5, OperandCounts DEF Rest
  <2>3. Completed(o, k, lazy) =
          [o EXCEPT !.function = k, !.operands = n + First(k) + Rest(k)]
    BY <2>1, <2>2
  <2>4. Completed(o, k, lazy) =
          Object(Kinds[k].category, n + First(k) + Rest(k), k, w, b)
    <3> DEFINE c2 == Kinds[k].category
               n1 == n + First(k)
               n2 == n + First(k) + Rest(k)
    <3>1. o = Object(c2, n1, f, w, b) /\ Completed(o, k, lazy) =
            [[o EXCEPT !.function = k] EXCEPT !.operands = n2]
      BY <1>3, <2>3
    <3> HIDE DEF c2, n1, n2
    <3>2. [o EXCEPT !.function = k] = Object(c2, n1, k, w, b)
      BY <3>1 DEF Object
    <3>3. [Object(c2, n1, k, w, b) EXCEPT !.operands = n2] = Object(c2, n2, k, w, b)
      BY DEF Object
    <3>4. QED
      BY <3>1, <3>2, <3>3 DEF c2, n2
  <2>5. QED
    BY <1>2, <2>4
<1>7. ASSUME lazy, ~IsBranch(k)
      PROVE  DecodedObject(i, k, lazy) = Object(Kinds[k].category, n + First(k), f, w, b)
  <2>1. Completed(o, k, lazy) = o
    BY <1>5, <1>7 DEF Completed
  <2>2. QED
    BY <1>2, <1>3, <2>1
<1>8. (lazy = No => ~lazy) /\ (lazy = Yes => lazy)
  BY DEF No, Yes
<1>9. QED
  BY <1>6, <1>7, <1>8 DEF i, b

LEMMA ResetIsObject == ResetInst = Object("invalid", 0, NoKind, No, No)
  BY DEF ResetInst, Object, No

\* The object after one complete decode, after a decode whose rest was put off,
\* and after two of a branch.
Complete(k) == Object(Kinds[k].category, First(k) + Rest(k), k, No, Kinds[k].locked)
Half(k, w) == Object(Kinds[k].category, 0, NoKind, w, Kinds[k].locked)
Twice(k) == Object(Kinds[k].category, 2 * (First(k) + Rest(k)), k, No, Kinds[k].locked)

LEMMA ForgetsNothing ==
  ASSUME NEW c, NEW n, NEW f, NEW w, NEW a
  PROVE  [Object(c, n, f, w, a) EXCEPT !.forDecode = FALSE] = Object(c, n, f, No, a)
<1>1. [Object(c, n, f, w, a) EXCEPT !.forDecode = No] = Object(c, n, f, No, a)
  BY DEF Object
<1>2. QED
  BY <1>1 DEF No

LEMMA DecodeOnce ==
  ASSUME NEW k \in DOMAIN Kinds, IsEncoding(k)
  PROVE  /\ Eagerly(ResetInst, k) = Complete(k)
         /\ \A w : Eagerly(Half(k, w), k) = Complete(k)
         /\ Parameters(k) = First(k) + Rest(k)
<1>1. /\ First(k) \in Nat /\ Rest(k) \in Nat /\ Kinds[k].locked \in BOOLEAN
  BY OperandCounts, KindsAssumption
<1>2. ASSUME NEW c, NEW w, NEW a \in BOOLEAN, Or(a, Kinds[k].locked) = Kinds[k].locked
      PROVE  Eagerly(Object(c, 0, NoKind, w, a), k) = Complete(k)
  <2>1. Eagerly(Object(c, 0, NoKind, w, a), k) =
          DecodedObject(Object(c, 0, NoKind, No, a), k, FALSE)
    <3>1. [Object(c, 0, NoKind, w, a) EXCEPT !.forDecode = FALSE] = Object(c, 0, NoKind, No, a)
      BY ForgetsNothing
    <3>2. QED
      BY <3>1 DEF Eagerly
  <2>2. DecodedObject(Object(c, 0, NoKind, No, a), k, FALSE) =
          Object(Kinds[k].category, 0 + First(k) + Rest(k), k, No, Or(a, Kinds[k].locked))
    <3>1. DecodedObject(Object(c, 0, NoKind, No, a), k, No) =
            Object(Kinds[k].category, 0 + First(k) + Rest(k), k, No, Or(a, Kinds[k].locked))
      <4>1. No \in BOOLEAN
        BY DEF No
      <4>2. QED
        BY <4>1, DecodeAdds
    <3>2. QED
      BY <3>1 DEF No
  <2>3. 0 + First(k) + Rest(k) = First(k) + Rest(k)
    BY <1>1
  <2>4. QED
    BY <1>2, <2>1, <2>2, <2>3 DEF Complete
<1>3. Eagerly(ResetInst, k) = Complete(k)
  <2>1. No \in BOOLEAN
    BY DEF No
  <2>2. Or(No, Kinds[k].locked) = Kinds[k].locked
    BY <1>1, Disjunctions
  <2>3. QED
    BY <1>2, <2>1, <2>2, ResetIsObject
<1>4. ASSUME NEW w PROVE Eagerly(Half(k, w), k) = Complete(k)
  <2>1. Or(Kinds[k].locked, Kinds[k].locked) = Kinds[k].locked
    BY <1>1, Disjunctions
  <2>2. QED
    BY <1>1, <1>2, <2>1 DEF Half
<1>5. Parameters(k) = First(k) + Rest(k)
  BY <1>3, Members DEF Parameters, Complete
<1>6. QED
  BY <1>3, <1>4, <1>5

LEMMA DecodeInvalid ==
  ASSUME NEW k \in DOMAIN Kinds, ~IsEncoding(k)
  PROVE  Eagerly(ResetInst, k) = ResetInst /\ Lazily(ResetInst, k) = ResetInst
<1>1. ASSUME NEW lazy PROVE DecodedObject(ResetInst, k, lazy) = ResetInst
  BY DEF DecodedObject, IsEncoding, ResetInst
<1>2. [ResetInst EXCEPT !.forDecode = FALSE] = ResetInst
  BY ResetIsObject, ForgetsNothing
<1>3. ~DecodeReturns(k)
  BY DEF DecodeReturns, IsEncoding
<1>4. QED
  BY <1>1, <1>2, <1>3 DEF Eagerly, Lazily

\* LazyDecodeInstruction decodes a branch twice, if that succeeds at all.
LEMMA DecodeLazily ==
  ASSUME NEW k \in DOMAIN Kinds, IsEncoding(k)
  PROVE  /\ IsBranch(k) /\ Supported(k) => Lazily(ResetInst, k) = Twice(k)
         /\ IsBranch(k) /\ ~Supported(k) => Lazily(ResetInst, k) = Complete(k)
         /\ ~IsBranch(k) /\ Supported(k) => Lazily(ResetInst, k) = Half(k, Yes)
         /\ ~IsBranch(k) /\ ~Supported(k) => Lazily(ResetInst, k) = Half(k, No)
<1> DEFINE once == DecodedObject(ResetInst, k, Yes)
           twice == DecodedObject(once, k, Yes)
<1>1. /\ First(k) \in Nat /\ Rest(k) \in Nat /\ Kinds[k].locked \in BOOLEAN
      /\ (~IsBranch(k) => First(k) = 0)
  BY OperandCounts, KindsAssumption
<1>2. /\ Yes \in BOOLEAN /\ No \in BOOLEAN
      /\ Or(No, Kinds[k].locked) = Kinds[k].locked
      /\ Or(Kinds[k].locked, Kinds[k].locked) = Kinds[k].locked
  <2>1. Yes \in BOOLEAN /\ No \in BOOLEAN
    BY DEF Yes, No
  <2>2. QED
    BY <1>1, <2>1, Disjunctions
<1>3. Lazily(ResetInst, k) =
        IF ~Supported(k) THEN once ELSE [twice EXCEPT !.forDecode = ~IsControlFlow(twice)]
  <2>1. [ResetInst EXCEPT !.forDecode = FALSE] = ResetInst
    BY ResetIsObject, ForgetsNothing
  <2>2. DecodeReturns(k) = Supported(k)
    BY DEF DecodeReturns, IsEncoding, Supported
  <2>3. QED
    BY <2>1, <2>2 DEF Lazily, Yes
<1>4. CASE IsBranch(k)
  <2>1. once = Complete(k)
    <3>1. DecodedObject(Object("invalid", 0, NoKind, No, No), k, Yes) =
            Object(Kinds[k].category, 0 + First(k) + Rest(k), k, No, Or(No, Kinds[k].locked))
      BY <1>2, <1>4, DecodeAdds
    <3>2. 0 + First(k) + Rest(k) = First(k) + Rest(k)
      BY <1>1
    <3>3. QED
      BY <1>2, <3>1, <3>2, ResetIsObject DEF Complete
  <2>2. twice = Twice(k)
    <3> DEFINE n == First(k) + Rest(k)
    <3>1. n \in Nat
      BY <1>1
    <3>2. n + First(k) + Rest(k) = 2 * n
      BY <1>1
    <3> HIDE DEF n
    <3>3. DecodedObject(Object(Kinds[k].category, n, k, No, Kinds[k].locked), k, Yes) =
            Object(Kinds[k].category, n + First(k) + Rest(k), k, No,
                   Or(Kinds[k].locked, Kinds[k].locked))
      BY <1>1, <1>2, <1>4, <3>1, DecodeAdds
    <3>4. QED
      BY <1>2, <2>1, <3>2, <3>3 DEF Complete, Twice, n
  <2>3. Twice(k).category = Kinds[k].category
    BY Members DEF Twice
  <2>4. IsControlFlow(twice)
    BY <1>4, <2>2, <2>3 DEF IsBranch, IsControlFlow
  <2>5. [Twice(k) EXCEPT !.forDecode = FALSE] = Twice(k)
    <3>1. [Twice(k) EXCEPT !.forDecode = No] = Twice(k)
      BY DEF Twice, Object
    <3>2. QED
      BY <3>1 DEF No
  <2>6. [twice EXCEPT !.forDecode = ~IsControlFlow(twice)] = Twice(k)
    <3>1. (~IsControlFlow(twice)) = FALSE
      BY <2>4
    <3>2. [twice EXCEPT !.forDecode = ~IsControlFlow(twice)] = [twice EXCEPT !.forDecode = FALSE]
      BY <3>1
    <3>3. QED
      BY <2>2, <2>5, <3>2
  <2>7. QED
    BY <1>3, <1>4, <2>1, <2>6
<1>5. CASE ~IsBranch(k)
  <2>1. once = Half(k, No)
    <3>1. DecodedObject(Object("invalid", 0, NoKind, No, No), k, Yes) =
            Object(Kinds[k].category, 0 + First(k), NoKind, No, Or(No, Kinds[k].locked))
      BY <1>2, <1>5, DecodeAdds
    <3>2. 0 + First(k) = 0
      BY <1>1, <1>5
    <3>3. QED
      BY <1>2, <3>1, <3>2, ResetIsObject DEF Half
  <2>2. twice = Half(k, No)
    <3>1. DecodedObject(Object(Kinds[k].category, 0, NoKind, No, Kinds[k].locked), k, Yes) =
            Object(Kinds[k].category, 0 + First(k), NoKind, No,
                   Or(Kinds[k].locked, Kinds[k].locked))
      BY <1>1, <1>2, <1>5, DecodeAdds
    <3>2. 0 + First(k) = 0
      BY <1>1, <1>5
    <3>3. QED
      BY <1>2, <2>1, <3>1, <3>2 DEF Half
  <2>3. Half(k, No).category = Kinds[k].category
    BY Members DEF Half
  <2>4. ~IsControlFlow(twice)
    BY <1>5, <2>2, <2>3 DEF IsBranch, IsControlFlow
  <2>5. [twice EXCEPT !.forDecode = ~IsControlFlow(twice)] = Half(k, Yes)
    <3>1. (~IsControlFlow(twice)) = TRUE
      BY <2>4
    <3>2. [twice EXCEPT !.forDecode = ~IsControlFlow(twice)] = [twice EXCEPT !.forDecode = Yes]
      BY <3>1 DEF Yes
    <3>3. [Half(k, No) EXCEPT !.forDecode = Yes] = Half(k, Yes)
      BY DEF Half, Object
    <3>4. QED
      BY <2>2, <3>2, <3>3
  <2>6. QED
    BY <1>3, <1>5, <2>1, <2>5
<1>6. QED
  BY <1>4, <1>5

-----------------------------------------------------------------------------
(***************************************************************************)
(* The invariant: where the object stands in each phase.                   *)
(***************************************************************************)
AsDecoded ==
  \/ IsEncoding(kind) /\ inst = Complete(kind)
  \/ IsEncoding(kind) /\ ~Supported(kind) /\ ~IsBranch(kind) /\ inst = Half(kind, No)
  \/ /\ IsEncoding(kind) /\ IsBranch(kind) /\ Arches[arch].lazy
     /\ inst = Twice(kind)
  \/ ~IsEncoding(kind) /\ inst = ResetInst

Waiting ==
  /\ IsEncoding(kind) /\ Supported(kind) /\ ~IsBranch(kind)
  /\ inst = Half(kind, Yes)

Inv ==
  /\ phase \in {"reset", "lazily decoded", "decoded", "lifted"}
  /\ phase = "reset" => inst = ResetInst /\ kind = NoKind
  /\ phase # "reset" => kind \in DOMAIN Kinds
  /\ phase = "lazily decoded" => AsDecoded \/ Waiting
  /\ phase = "decoded" => AsDecoded
  /\ phase # "lifted" => result \in {"none", "true", "false"}
  /\ phase = "lifted" => ArgumentsMatch

LEMMA DecodeKeepsInv ==
  ASSUME Inv, NEW k \in DOMAIN Kinds, DecodeInstruction(k)
  PROVE  Inv'
<1>1. /\ phase = "reset" /\ kind' = k /\ phase' = "decoded" /\ arch' = arch
      /\ result' \in {"true", "false"}
  BY DEF DecodeInstruction
<1>2. inst = ResetInst /\ inst' = Eagerly(ResetInst, k)
  BY <1>1 DEF Inv, DecodeInstruction
<1>3. CASE IsEncoding(k)
  <2>1. inst' = Complete(k)
    BY <1>2, <1>3, DecodeOnce
  <2>2. QED
    BY <1>1, <1>3, <2>1 DEF Inv, AsDecoded
<1>4. CASE ~IsEncoding(k)
  <2>1. inst' = ResetInst
    BY <1>2, <1>4, DecodeInvalid
  <2>2. QED
    BY <1>1, <1>4, <2>1 DEF Inv, AsDecoded
<1>5. QED
  BY <1>3, <1>4

LEMMA LazyDecodeKeepsInv ==
  ASSUME Inv, NEW k \in DOMAIN Kinds, LazyDecodeInstruction(k)
  PROVE  Inv'
<1>1. /\ phase = "reset" /\ kind' = k /\ phase' = "lazily decoded" /\ arch' = arch
      /\ result' \in {"true", "false"}
  BY DEF LazyDecodeInstruction
<1>2. /\ Arches[arch].lazy => inst' = Lazily(ResetInst, k)
      /\ ~Arches[arch].lazy => inst' = Eagerly(ResetInst, k)
  BY <1>1 DEF Inv, LazyDecodeInstruction
<1>3. (AsDecoded \/ Waiting)' => Inv'
  BY <1>1 DEF Inv
<1>4. CASE ~IsEncoding(k)
  <2>1. inst' = ResetInst
    BY <1>2, <1>4, DecodeInvalid
  <2>2. QED
    BY <1>1, <1>3, <1>4, <2>1 DEF AsDecoded
<1>5. CASE IsEncoding(k) /\ ~Arches[arch].lazy
  <2>1. inst' = Complete(k)
    BY <1>2, <1>5, DecodeOnce
  <2>2. QED
    BY <1>1, <1>3, <1>5, <2>1 DEF AsDecoded
<1>6. CASE IsEncoding(k) /\ Arches[arch].lazy /\ IsBranch(k)
  <2>1. inst' = Twice(k) \/ inst' = Complete(k)
    BY <1>2, <1>6, DecodeLazily
  <2>2. QED
    BY <1>1, <1>3, <1>6, <2>1 DEF AsDecoded
<1>7. CASE IsEncoding(k) /\ Arches[arch].lazy /\ ~IsBranch(k)
  <2>1. Supported(k)' <=> Supported(k)
    BY <1>1 DEF Supported
  <2>2. \/ Supported(k) /\ inst' = Half(k, Yes)
        \/ ~Supported(k) /\ inst' = Half(k, No)
    BY <1>2, <1>7, DecodeLazily
  <2>3. QED
    BY <1>1, <1>3, <1>7, <2>1, <2>2 DEF AsDecoded, Waiting
<1>8. QED
  BY <1>4, <1>5, <1>6, <1>7

LEMMA FinalizeKeepsInv ==
  ASSUME Inv, FinalizeDecode
  PROVE  Inv'
<1>1. /\ phase = "lazily decoded" /\ phase' = "decoded"
      /\ UNCHANGED <<arch, kind>> /\ result' \in {"true", "false"}
  BY DEF FinalizeDecode
<1>2. kind \in DOMAIN Kinds /\ (AsDecoded \/ Waiting)
  BY <1>1 DEF Inv
<1>3. AsDecoded' => Inv'
  BY <1>1, <1>2 DEF Inv
<1>4. Supported(kind)' <=> Supported(kind)
  BY <1>1 DEF Supported
<1>5. CASE AsDecoded
  <2>1. inst.category = "invalid" \/ inst.forDecode = No
    <3>1. ResetInst.category = "invalid"
      BY DEF ResetInst
    <3>2. Complete(kind).forDecode = No /\ Half(kind, No).forDecode = No
          /\ Twice(kind).forDecode = No
      BY Members DEF Complete, Half, Twice
    <3>3. QED
      BY <1>5, <3>1, <3>2 DEF AsDecoded
  <2>2. inst' = inst
    BY <2>1 DEF FinalizeDecode, IsValid, No
  <2>3. AsDecoded'
    BY <1>1, <1>4, <1>5, <2>2 DEF AsDecoded
  <2>4. QED
    BY <1>3, <2>3
<1>6. CASE Waiting
  <2>1. inst.forDecode = Yes /\ inst.category = Kinds[kind].category
    BY <1>6, Members DEF Waiting, Half
  <2>2. IsValid(inst) /\ inst.forDecode
    BY <1>6, <2>1 DEF IsValid, Waiting, IsEncoding, Yes
  <2>3. inst' = Eagerly(inst, kind)
    BY <2>2 DEF FinalizeDecode
  <2>4. inst' = Complete(kind)
    BY <1>2, <1>6, <2>3, DecodeOnce DEF Waiting
  <2>5. QED
    BY <1>1, <1>3, <1>6, <2>4 DEF AsDecoded, Waiting
<1>7. QED
  BY <1>2, <1>5, <1>6

LEMMA LiftKeepsInv ==
  ASSUME Inv, LiftIntoBlock
  PROVE  Inv'
<1>1. phase = "decoded" /\ phase' = "lifted" /\ UNCHANGED <<arch, kind>>
  BY DEF LiftIntoBlock
<1>2. kind \in DOMAIN Kinds /\ AsDecoded
  BY <1>1 DEF Inv
<1>3. SUFFICES ArgumentsMatch'
  BY <1>1, <1>2 DEF Inv
<1>4. CASE result' \in {"invalid", "unsupported"}
  BY <1>4 DEF ArgumentsMatch
<1>5. CASE result' \notin {"invalid", "unsupported"}
  <2>1. /\ IsValid(inst) /\ HasSemantics(inst) /\ inst' = inst
        /\ result' = IF inst.operands > Parameters(inst.function) THEN "aborted"
                     ELSE IF inst.operands < Parameters(inst.function) THEN "malformed"
                     ELSE "lifted"
    BY <1>5 DEF LiftIntoBlock
  <2>2. inst.function # NoKind /\ Kinds[inst.function].compiled \subseteq Arches[arch].features
    BY <2>1 DEF HasSemantics
  <2>3. /\ IsEncoding(kind)
        /\ \/ inst = Complete(kind)
           \/ IsBranch(kind) /\ Arches[arch].lazy /\ inst = Twice(kind)
    <3>1. Half(kind, No).function = NoKind /\ ResetInst.category = "invalid"
      BY Members DEF Half, ResetInst
    <3>2. QED
      BY <1>2, <2>1, <2>2, <3>1 DEF AsDecoded, IsValid
  <2>4. /\ Parameters(kind) = First(kind) + Rest(kind) /\ Parameters(kind) \in Nat
    BY <1>2, <2>3, DecodeOnce, OperandCounts
  <2>5. inst.function = kind /\ inst.category = Kinds[kind].category
    BY <2>3, Members DEF Complete, Twice
  <2>6. QED
    <3>1. CASE inst = Complete(kind)
      <4>1. inst.operands = Parameters(kind)
        BY <2>4, <3>1, Members DEF Complete
      <4>2. result' = "lifted"
        BY <2>1, <2>4, <2>5, <4>1
      <4>3. QED
        BY <4>2 DEF ArgumentsMatch
    <3>2. CASE IsBranch(kind) /\ Arches[arch].lazy /\ inst = Twice(kind)
      <4>1. inst.operands = 2 * Parameters(kind)
        BY <2>4, <3>2, Members DEF Twice
      <4>2. IsControlFlow(inst)
        BY <2>5, <3>2 DEF IsBranch, IsControlFlow
      <4>3. DecodedTwice
        BY <3>2, <4>1, <4>2 DEF DecodedTwice
      <4>4. DecodedTwice'
        BY <1>1, <2>1, <4>3 DEF DecodedTwice
      <4>5. QED
        BY <4>4 DEF ArgumentsMatch
    <3>3. QED
      BY <2>3, <3>1, <3>2
<1>6. QED
  BY <1>4, <1>5

LEMMA InitInv == Init => Inv
  BY DEF Init, Inv

LEMMA NextKeepsInv == Inv /\ [Next]_vars => Inv'
<1> SUFFICES ASSUME Inv, [Next]_vars PROVE Inv'
  OBVIOUS
<1>1. CASE Reset
  BY <1>1 DEF Reset, Inv
<1>2. CASE FinalizeDecode
  BY <1>2, FinalizeKeepsInv
<1>3. CASE LiftIntoBlock
  BY <1>3, LiftKeepsInv
<1>4. ASSUME NEW k \in DOMAIN Kinds, DecodeInstruction(k) PROVE Inv'
  BY <1>4, DecodeKeepsInv
<1>5. ASSUME NEW k \in DOMAIN Kinds, LazyDecodeInstruction(k) PROVE Inv'
  BY <1>5, LazyDecodeKeepsInv
<1>6. CASE UNCHANGED vars
  <2>1. AsDecoded' <=> AsDecoded
    BY <1>6 DEF vars, AsDecoded, Supported
  <2>2. Waiting' <=> Waiting
    BY <1>6 DEF vars, Waiting, Supported
  <2>3. ArgumentsMatch' <=> ArgumentsMatch
    BY <1>6 DEF vars, ArgumentsMatch, DecodedTwice
  <2>4. QED
    BY <1>6, <2>1, <2>2, <2>3 DEF vars, Inv
<1>7. QED
  BY <1>1, <1>2, <1>3, <1>4, <1>5, <1>6 DEF Next

LEMMA InvAlways == Spec => []Inv
  BY InitInv, NextKeepsInv, PTL DEF Spec

-----------------------------------------------------------------------------
(***************************************************************************)
(* LiftIntoBlock calls the semantics with exactly its parameters, for any  *)
(* set of encodings and of architectures, but for branches that were       *)
(* decoded twice.                                                          *)
(***************************************************************************)
THEOREM ArgumentsAlwaysMatch == Spec => []ArgumentsMatch
<1>1. Inv => ArgumentsMatch
  BY DEF Inv, ArgumentsMatch
<1>2. QED
  BY <1>1, InvAlways, PTL

(***************************************************************************)
(* FinalizeDecode completes what LazyDecodeInstruction began: the object   *)
(* is the one that DecodeInstruction makes, but for branches that were     *)
(* decoded twice.                                                          *)
(***************************************************************************)
THEOREM LazyDecodeIsEager == Spec => []LazyIsEager
<1>1. Inv => LazyIsEager
  <2> SUFFICES ASSUME Inv, phase = "decoded", Supported(kind), kind # NoKind
               PROVE  inst = Eagerly(ResetInst, kind) \/ DecodedTwice
    BY DEF LazyIsEager
  <2>1. kind \in DOMAIN Kinds /\ AsDecoded
    BY DEF Inv
  <2>2. CASE IsEncoding(kind) /\ inst = Complete(kind)
    BY <2>1, <2>2, DecodeOnce
  <2>3. CASE /\ IsEncoding(kind) /\ IsBranch(kind) /\ Arches[arch].lazy
             /\ inst = Twice(kind)
    <3>1. Parameters(kind) = First(kind) + Rest(kind)
      BY <2>1, <2>3, DecodeOnce
    <3>2. inst.operands = 2 * Parameters(kind) /\ inst.category = Kinds[kind].category
      BY <2>3, <3>1, Members DEF Twice
    <3>3. IsControlFlow(inst)
      BY <2>3, <3>2 DEF IsBranch, IsControlFlow
    <3>4. QED
      BY <2>3, <3>2, <3>3 DEF DecodedTwice
  <2>4. CASE ~IsEncoding(kind) /\ inst = ResetInst
    BY <2>1, <2>4, DecodeInvalid
  <2>5. QED
    BY <2>1, <2>2, <2>3, <2>4 DEF AsDecoded
<1>2. QED
  BY <1>1, InvAlways, PTL

-----------------------------------------------------------------------------
(***************************************************************************)
(* RegisterForwarding: the blocks, and what has been scanned of one.       *)
(***************************************************************************)
AllInts == \A i \in DOMAIN block : block[i].op = "call" \/ block[i].kind = "int"

\* What is in front of the scan is as it was; what waits is a load behind it.
Scanned ==
  /\ block \in Blocks /\ cur \in 0..Len(block)
  /\ DOMAIN code = DOMAIN block
  /\ \A i \in DOMAIN block : i <= cur => code[i] = block[i]
  /\ DOMAIN slot_to_load = Slots
  /\ \A s \in Slots : slot_to_load[s] # 0 =>
       /\ slot_to_load[s] \in DOMAIN block /\ cur < slot_to_load[s]
       /\ block[slot_to_load[s]].op = "load" /\ code[slot_to_load[s]].op = "load"
       /\ SlotAt(slot_to_load[s]) = s

\* The next access of its slot from where the scan is.
NextAccess(j) ==
  /\ cur < j /\ block[j].op = "load"
  /\ \A k \in cur + 1..j - 1 : ~Touches(k, SlotAt(j))

Served(j) == code[j].op # "load" \/ slot_to_load[SlotAt(j)] = j

NextLoadsWait ==
  \A j \in DOMAIN block : NextAccess(j) => Served(j)

Gone(i, j) ==
  IF block[i].op = "store" THEN block[j].size <= block[i].size => code[j].op # "load"
  ELSE ~(code[i].op = "load" /\ code[j].op = "load")

GoneSoFar ==
  \A i, j \in DOMAIN block : cur < i /\ Adjacent(i, j) => Gone(i, j)

Forwarding == Scanned /\ (AllInts => NextLoadsWait /\ GoneSoFar)

LEMMA BlockTypes ==
  ASSUME block \in Blocks
  PROVE  /\ Len(block) \in Nat /\ DOMAIN block = 1..Len(block)
         /\ \A i \in DOMAIN block :
              /\ block[i].op \in {"load", "store", "call", "addr"}
              /\ block[i].op \in {"load", "store"} =>
                   block[i].at \in DOMAIN SlotOf /\ block[i].size \in Nat
                     /\ SlotAt(i) \in Slots
<1>1. block \in Seq(Instructions)
  BY BlocksAssumption
<1>2. Len(block) \in Nat /\ DOMAIN block = 1..Len(block)
  BY <1>1
<1>3. ASSUME NEW i \in DOMAIN block
      PROVE  /\ block[i].op \in {"load", "store", "call", "addr"}
             /\ block[i].op \in {"load", "store"} =>
                  block[i].at \in DOMAIN SlotOf /\ block[i].size \in Nat
  <2>1. block[i] \in Instructions
    BY <1>1, <1>2
  <2>2. block[i].op \in {"load", "store", "call", "addr"}
    BY <2>1 DEF Instructions
  <2>3. ASSUME block[i].op \in {"load", "store"}
        PROVE  block[i].at \in DOMAIN SlotOf /\ block[i].size \in Nat
    <3>1. block[i].at \in Nat /\ block[i].size \in Nat \ {0}
      BY <2>1, <2>3 DEF Instructions
    <3>2. block[i].at .. block[i].at + block[i].size - 1 \subseteq DOMAIN SlotOf
      BY <2>3, BlocksAssumption
    <3>3. block[i].at \in block[i].at .. block[i].at + block[i].size - 1
      BY <3>1
    <3>4. QED
      BY <3>1, <3>2, <3>3
  <2>4. QED
    BY <2>2, <2>3
<1>4. QED
  BY <1>2, <1>3 DEF Slots, Bytes, SlotAt

\* A value that is not narrower serves, where all are integers.
LEMMA IntegersConvert ==
  ASSUME NEW a, NEW b, a.kind = "int", b.kind = "int", a.size \in Nat, b.size \in Nat,
         b.size <= a.size
  PROVE  Conversion(a, b) # "none"
BY DEF Conversion, Convertible

\* What NextLoad is, when an access is visited.
LEMMA NextLoadFacts ==
  ASSUME Scanned, cur # 0, block[cur].op \in {"load", "store"}
  PROVE  /\ cur \in DOMAIN block /\ SlotAt(cur) \in Slots
         /\ block[cur].at \in DOMAIN SlotOf /\ block[cur].size \in Nat
         /\ code[cur] = block[cur]
         /\ NextLoad # 0 =>
              /\ NextLoad = slot_to_load[SlotAt(cur)]
              /\ NextLoad \in DOMAIN block /\ cur < NextLoad
              /\ block[NextLoad].op = "load" /\ code[NextLoad].op = "load"
              /\ SlotAt(NextLoad) = SlotAt(cur) /\ block[NextLoad].size \in Nat
         /\ \A j \in DOMAIN block :
              (slot_to_load[SlotAt(j)] = j /\ block[j].op = "load"
                 /\ block[j].at = block[cur].at) => NextLoad = j
<1>1. /\ block \in Blocks /\ cur \in 0..Len(block)
      /\ Len(block) \in Nat /\ DOMAIN block = 1..Len(block)
  BY BlockTypes DEF Scanned
<1>2. cur \in DOMAIN block
  BY <1>1
<1>3. /\ SlotAt(cur) \in Slots /\ code[cur] = block[cur]
      /\ block[cur].at \in DOMAIN SlotOf /\ block[cur].size \in Nat
  BY <1>1, <1>2, BlockTypes DEF Scanned
<1>4. ASSUME NextLoad # 0
      PROVE  /\ NextLoad = slot_to_load[SlotAt(cur)]
             /\ NextLoad \in DOMAIN block /\ cur < NextLoad
             /\ block[NextLoad].op = "load" /\ code[NextLoad].op = "load"
             /\ SlotAt(NextLoad) = SlotAt(cur) /\ block[NextLoad].size \in Nat
  <2>1. NextLoad = slot_to_load[SlotAt(cur)] /\ slot_to_load[SlotAt(cur)] # 0
    BY <1>4 DEF NextLoad
  <2>2. QED
    BY <1>1, <1>3, <2>1, BlockTypes DEF Scanned
<1>5. ASSUME NEW j \in DOMAIN block, slot_to_load[SlotAt(j)] = j,
             block[j].at = block[cur].at
      PROVE  NextLoad = j
  <2>1. SlotAt(j) = SlotAt(cur) /\ j # 0
    BY <1>1, <1>5 DEF SlotAt
  <2>2. QED
    BY <1>5, <2>1 DEF NextLoad
<1>6. QED
  BY <1>2, <1>3, <1>4, <1>5

(***************************************************************************)
(* What each case of VisitBlock has to do for the next step of the scan.   *)
(***************************************************************************)
LEMMA ScanGoesOn ==
  ASSUME Forwarding, cur # 0, cur' = cur - 1, block' = block, Scanned',
         \A i \in DOMAIN block : code[i].op # "load" => code'[i].op # "load",
         \A s \in Slots : ~Touches(cur, s) => slot_to_load'[s] = slot_to_load[s],
         AllInts /\ block[cur].op = "load" =>
           code'[cur].op # "load" \/ slot_to_load'[SlotAt(cur)] = cur,
         AllInts => \A i, j \in DOMAIN block :
                      i = cur /\ Adjacent(i, j) /\ Served(j) => Gone(i, j)'
  PROVE  Forwarding'
<1> SUFFICES ASSUME AllInts PROVE NextLoadsWait' /\ GoneSoFar'
  BY DEF Forwarding, AllInts
<1>1. /\ block \in Blocks /\ cur \in 0..Len(block) /\ DOMAIN block = 1..Len(block)
      /\ Len(block) \in Nat /\ cur \in DOMAIN block
  <2>1. /\ block \in Blocks /\ cur \in 0..Len(block)
        /\ Len(block) \in Nat /\ DOMAIN block = 1..Len(block)
    BY BlockTypes DEF Forwarding, Scanned
  <2>2. QED
    BY <2>1
<1>2. NextLoadsWait /\ GoneSoFar
  BY DEF Forwarding
<1>3. \A j : SlotAt(j)' = SlotAt(j)
  BY DEF SlotAt
<1>4. \A k, s : Touches(k, s)' <=> Touches(k, s)
  BY <1>3 DEF Touches, ChangedByCall
<1>5. \A i, j : Adjacent(i, j)' <=> Adjacent(i, j)
  BY <1>3, <1>4 DEF Adjacent
<1>6. ASSUME NEW j \in DOMAIN block, NextAccess(j)'
      PROVE  code'[j].op # "load" \/ slot_to_load'[SlotAt(j)] = j
  <2>1. /\ cur <= j /\ block[j].op = "load"
        /\ \A k \in cur..j - 1 : ~Touches(k, SlotAt(j))
    <3>1. /\ cur' < j /\ block[j].op = "load"
          /\ \A k \in cur' + 1..j - 1 : ~Touches(k, SlotAt(j))
      BY <1>6, <1>3, <1>4 DEF NextAccess
    <3>2. QED
      BY <1>1, <3>1
  <2>2. CASE j = cur
    BY <2>1, <2>2
  <2>3. CASE j # cur
    <3>1. cur < j /\ cur \in cur..j - 1 /\ cur + 1..j - 1 \subseteq cur..j - 1
      BY <1>1, <2>1, <2>3
    <3>2. NextAccess(j)
      BY <2>1, <3>1 DEF NextAccess
    <3>3. Served(j)
      BY <1>2, <3>2 DEF NextLoadsWait
    <3>4. SlotAt(j) \in Slots
      BY <1>1, <2>1, BlockTypes
    <3>5. slot_to_load'[SlotAt(j)] = slot_to_load[SlotAt(j)]
      BY <2>1, <3>1, <3>4
    <3>6. QED
      BY <3>3, <3>5 DEF Served
  <2>4. QED
    BY <2>2, <2>3
<1>7. NextLoadsWait'
  BY <1>6 DEF NextLoadsWait, Served, SlotAt
<1>8. ASSUME NEW i \in DOMAIN block, NEW j \in DOMAIN block, cur - 1 < i, Adjacent(i, j)
      PROVE  Gone(i, j)'
  <2>1. CASE i = cur
    <3>1. NextAccess(j)
      BY <1>8, <2>1 DEF Adjacent, NextAccess
    <3>2. Served(j)
      BY <1>2, <3>1 DEF NextLoadsWait
    <3>3. QED
      BY <1>8, <2>1, <3>2
  <2>2. CASE i # cur
    <3>1. Gone(i, j)
      BY <1>1, <1>2, <1>8, <2>2 DEF GoneSoFar
    <3>2. QED
      BY <3>1 DEF Gone
  <2>3. QED
    BY <2>1, <2>2
<1>9. GoneSoFar'
  BY <1>8, <1>5 DEF GoneSoFar
<1>10. QED
  BY <1>7, <1>9

LEMMA SkipKeepsForwarding ==
  ASSUME Forwarding, SkipInstruction
  PROVE  Forwarding'
<1>1. /\ cur # 0 /\ cur' = cur - 1 /\ block' = block /\ block[cur].op = "addr"
      /\ code' = code /\ slot_to_load' = slot_to_load
  BY DEF SkipInstruction, Visiting
<1>2. Scanned'
  BY <1>1, BlockTypes DEF Forwarding, Scanned, SlotAt, Slots
<1>3. \A i, j \in DOMAIN block : i = cur => ~Adjacent(i, j)
  BY <1>1 DEF Adjacent
<1>4. QED
  BY <1>1, <1>2, <1>3, ScanGoesOn

LEMMA CallKeepsForwarding ==
  ASSUME Forwarding, VisitCall
  PROVE  Forwarding'
<1>1. /\ cur # 0 /\ cur' = cur - 1 /\ block' = block /\ block[cur].op = "call"
      /\ code' = code /\ slot_to_load' = ForgetAt(block[cur])
  BY DEF VisitCall, Visiting
<1>2. /\ DOMAIN slot_to_load' = Slots
      /\ \A s \in Slots : slot_to_load'[s] \in {0, slot_to_load[s]}
      /\ \A s \in Slots : ~Touches(cur, s) => slot_to_load'[s] = slot_to_load[s]
  BY <1>1 DEF ForgetAt, Touches
<1>3. Scanned'
  BY <1>1, <1>2, BlockTypes DEF Forwarding, Scanned, SlotAt, Slots
<1>4. \A i, j \in DOMAIN block : i = cur => ~Adjacent(i, j)
  BY <1>1 DEF Adjacent
<1>5. QED
  BY <1>1, <1>2, <1>3, <1>4, ScanGoesOn

\* A load that is replaced is no load any more; nothing else changes.
LEMMA ReplacedFacts ==
  ASSUME NEW l \in DOMAIN code, NEW how, NEW v
  PROVE  /\ DOMAIN Replaced(l, how, v) = DOMAIN code
         /\ Replaced(l, how, v)[l].op = "use"
         /\ \A i \in DOMAIN code : i # l => Replaced(l, how, v)[i] = code[i]
BY DEF Replaced

(***************************************************************************)
(* An access puts x in the place of the load of its slot that waits, and   *)
(* may replace the load l.                                                 *)
(***************************************************************************)
LEMMA AccessScanned ==
  ASSUME Scanned, cur # 0, cur' = cur - 1, block' = block,
         block[cur].op \in {"load", "store"},
         NEW x, slot_to_load' = [slot_to_load EXCEPT ![SlotAt(cur)] = x],
         NEW l, l \in {0, cur, NextLoad}, DOMAIN code' = DOMAIN code,
         \A i \in DOMAIN code : i # l => code'[i] = code[i],
         x # 0 => x # l /\ x \in {cur, NextLoad} /\ code[x].op = "load"
  PROVE  /\ Scanned'
         /\ slot_to_load'[SlotAt(cur)] = x
         /\ \A s \in Slots : ~Touches(cur, s) => slot_to_load'[s] = slot_to_load[s]
<1>1. /\ DOMAIN slot_to_load' = Slots
      /\ slot_to_load'[SlotAt(cur)] = x
      /\ \A s \in Slots : s # SlotAt(cur) => slot_to_load'[s] = slot_to_load[s]
  BY NextLoadFacts DEF Scanned
<1>2. /\ DOMAIN code' = DOMAIN block
      /\ \A i \in DOMAIN block : i <= cur' => code'[i] = block[i]
  BY NextLoadFacts, BlockTypes DEF Scanned
<1>3. ASSUME NEW s \in Slots, NEW n, n = slot_to_load'[s], n # 0
      PROVE  /\ n \in DOMAIN block /\ cur' < n
             /\ block[n].op = "load" /\ code'[n].op = "load" /\ SlotAt(n) = s
  <2>1. CASE s # SlotAt(cur)
    <3>1. /\ n \in DOMAIN block /\ cur < n /\ block[n].op = "load"
          /\ code[n].op = "load" /\ SlotAt(n) = s
      BY <1>1, <1>3, <2>1 DEF Scanned
    <3>2. n # l
      BY <2>1, <3>1, NextLoadFacts, BlockTypes DEF Scanned
    <3>3. code'[n] = code[n] /\ cur' < n
      BY <3>1, <3>2, BlockTypes DEF Scanned
    <3>4. QED
      BY <3>1, <3>3
  <2>2. CASE s = SlotAt(cur)
    <3>1. n = x /\ n # l /\ n \in {cur, NextLoad} /\ code[n].op = "load"
      BY <1>1, <1>3, <2>2
    <3>2. n \in DOMAIN block /\ cur <= n /\ block[n].op = "load" /\ SlotAt(n) = s
      BY <1>3, <2>2, <3>1, NextLoadFacts, BlockTypes DEF Scanned
    <3>3. code'[n] = code[n] /\ cur' < n
      BY <3>1, <3>2, BlockTypes DEF Scanned
    <3>4. QED
      BY <3>1, <3>2, <3>3
  <2>3. QED
    BY <2>1, <2>2
<1>4. Scanned'
  <2>1. cur' \in 0..Len(block)
    BY BlockTypes DEF Scanned
  <2>2. \A s \in Slots : slot_to_load'[s] # 0 =>
          /\ slot_to_load'[s] \in DOMAIN block /\ cur' < slot_to_load'[s]
          /\ block[slot_to_load'[s]].op = "load" /\ code'[slot_to_load'[s]].op = "load"
          /\ SlotAt(slot_to_load'[s]) = s
    BY <1>3
  <2>3. QED
    BY <1>1, <1>2, <2>1, <2>2 DEF Scanned, SlotAt, Slots
<1>5. \A s \in Slots : ~Touches(cur, s) => slot_to_load'[s] = slot_to_load[s]
  BY <1>1 DEF Touches
<1>6. QED
  BY <1>1, <1>4, <1>5

LEMMA StoreKeepsForwarding ==
  ASSUME Forwarding, VisitStore
  PROVE  Forwarding'
<1>1. /\ cur # 0 /\ cur' = cur - 1 /\ block' = block /\ block[cur].op = "store"
      /\ code' = IF StoreServes = "none" THEN code
                 ELSE Replaced(NextLoad, StoreServes, StoredValue(cur))
      /\ slot_to_load' = [slot_to_load EXCEPT ![SlotAt(cur)] = 0]
  BY DEF VisitStore, ForwardStore, Visiting
<1>2. Scanned
  BY DEF Forwarding
<1>3. /\ StoreServes = "none" => code' = code
      /\ StoreServes # "none" =>
           /\ NextLoad # 0 /\ DOMAIN code' = DOMAIN code
           /\ code'[NextLoad].op = "use"
           /\ \A i \in DOMAIN code : i # NextLoad => code'[i] = code[i]
  BY <1>1, <1>2, NextLoadFacts, ReplacedFacts DEF Scanned, StoreServes
<1>4. PICK l \in {0, NextLoad} :
        /\ DOMAIN code' = DOMAIN code
        /\ \A i \in DOMAIN code : i # l => code'[i] = code[i]
  BY <1>3
<1>5. /\ Scanned'
      /\ \A s \in Slots : ~Touches(cur, s) => slot_to_load'[s] = slot_to_load[s]
  BY <1>1, <1>2, <1>4, AccessScanned
<1>6. \A i \in DOMAIN block : code[i].op # "load" => code'[i].op # "load"
  BY <1>2, <1>3 DEF Scanned
<1>7. ASSUME AllInts, NEW i \in DOMAIN block, NEW j \in DOMAIN block,
             i = cur, Adjacent(i, j), Served(j), block[j].size <= block[i].size
      PROVE  code'[j].op # "load"
  <2>1. CASE code[j].op # "load"
    BY <1>6, <2>1
  <2>2. CASE slot_to_load[SlotAt(j)] = j
    <3>1. NextLoad = j /\ NextLoad # 0 /\ block[j].op = "load"
      BY <1>1, <1>2, <1>7, <2>2, NextLoadFacts, BlockTypes DEF Adjacent, Scanned
    <3>2. /\ block[cur].kind = "int" /\ block[j].kind = "int"
          /\ block[cur].size \in Nat /\ block[j].size \in Nat
      BY <1>1, <1>2, <1>7, <3>1, NextLoadFacts DEF AllInts
    <3>3. Conversion(block[cur], block[j]) # "none"
      BY <1>7, <3>2, IntegersConvert
    <3>4. QED
      BY <1>3, <3>1, <3>3 DEF StoreServes
  <2>3. QED
    BY <1>7, <2>1, <2>2 DEF Served
<1>8. AllInts => \A i, j \in DOMAIN block :
                   i = cur /\ Adjacent(i, j) /\ Served(j) => Gone(i, j)'
  BY <1>1, <1>7 DEF Gone
<1>9. QED
  BY <1>1, <1>5, <1>6, <1>8, ScanGoesOn

LEMMA FirstLoadKeepsForwarding ==
  ASSUME Forwarding, VisitFirstLoad
  PROVE  Forwarding'
<1>1. /\ cur # 0 /\ cur' = cur - 1 /\ block' = block /\ block[cur].op = "load"
      /\ code' = code /\ slot_to_load' = [slot_to_load EXCEPT ![SlotAt(cur)] = cur]
      /\ NextLoad = 0
  BY DEF VisitFirstLoad, Visiting
<1>2. Scanned
  BY DEF Forwarding
<1>3. PICK x : x = cur /\ x # 0 /\ code[x].op = "load"
  BY <1>1, <1>2, NextLoadFacts
<1>4. slot_to_load' = [slot_to_load EXCEPT ![SlotAt(cur)] = x]
  BY <1>1, <1>3
<1>5. /\ Scanned' /\ slot_to_load'[SlotAt(cur)] = cur
      /\ \A s \in Slots : ~Touches(cur, s) => slot_to_load'[s] = slot_to_load[s]
  <2>1. DOMAIN code' = DOMAIN code /\ \A i \in DOMAIN code : i # 0 => code'[i] = code[i]
    BY <1>1
  <2>2. QED
    BY <1>1, <1>2, <1>3, <1>4, <2>1, AccessScanned
<1>6. ASSUME NEW i \in DOMAIN block, NEW j \in DOMAIN block,
             i = cur, Adjacent(i, j), Served(j)
      PROVE  Gone(i, j)'
  <2>1. block[j].op = "load" /\ block[j].at = block[cur].at /\ j # 0
    BY <1>2, <1>6, BlockTypes DEF Adjacent, Scanned
  <2>2. code[j].op # "load"
    BY <1>1, <1>2, <1>6, <2>1, NextLoadFacts DEF Served
  <2>3. QED
    BY <1>1, <1>6, <2>2 DEF Gone
<1>7. QED
  BY <1>1, <1>5, <1>6, ScanGoesOn

LEMMA ForwardLoadKeepsForwarding ==
  ASSUME Forwarding, ForwardLoad
  PROVE  Forwarding'
<1> DEFINE how == Conversion(block[cur], block[NextLoad])
<1>1. /\ cur # 0 /\ cur' = cur - 1 /\ block' = block /\ block[cur].op = "load"
      /\ NextLoad # 0 /\ block[NextLoad].size <= block[cur].size
      /\ code' = IF how = "none" THEN code ELSE Replaced(NextLoad, how, cur)
      /\ slot_to_load' = [slot_to_load EXCEPT ![SlotAt(cur)] =
                            IF how = "none" THEN 0 ELSE cur]
  BY DEF ForwardLoad, Visiting
<1>2. Scanned
  BY DEF Forwarding
<1>3. AllInts => how # "none"
  <2> SUFFICES ASSUME AllInts PROVE how # "none"
    OBVIOUS
  <2>1. /\ block[cur].kind = "int" /\ block[NextLoad].kind = "int"
        /\ block[cur].size \in Nat /\ block[NextLoad].size \in Nat
    BY <1>1, <1>2, NextLoadFacts DEF AllInts
  <2>2. QED
    BY <1>1, <2>1, IntegersConvert
<1> HIDE DEF how
<1>4. PICK x, l :
        /\ x = (IF how = "none" THEN 0 ELSE cur)
        /\ l = (IF how = "none" THEN 0 ELSE NextLoad)
  OBVIOUS
<1>5. /\ DOMAIN code' = DOMAIN code
      /\ \A i \in DOMAIN code : i # l => code'[i] = code[i]
      /\ how # "none" => code'[NextLoad].op = "use"
  BY <1>1, <1>2, <1>4, NextLoadFacts, ReplacedFacts DEF Scanned
<1>6. /\ slot_to_load' = [slot_to_load EXCEPT ![SlotAt(cur)] = x]
      /\ x # 0 => x # l /\ x = cur /\ code[x].op = "load"
  BY <1>1, <1>2, <1>4, NextLoadFacts, BlockTypes DEF Scanned
<1>7. /\ Scanned' /\ slot_to_load'[SlotAt(cur)] = x
      /\ \A s \in Slots : ~Touches(cur, s) => slot_to_load'[s] = slot_to_load[s]
  BY <1>1, <1>2, <1>4, <1>5, <1>6, AccessScanned
<1>8. \A i \in DOMAIN block : code[i].op # "load" => code'[i].op # "load"
  BY <1>2, <1>4, <1>5 DEF Scanned
<1>9. ASSUME AllInts, NEW i \in DOMAIN block, NEW j \in DOMAIN block,
             i = cur, Adjacent(i, j), Served(j)
      PROVE  Gone(i, j)'
  <2>1. block[j].op = "load" /\ block[j].at = block[cur].at
    BY <1>9 DEF Adjacent
  <2>2. CASE code[j].op # "load"
    BY <1>1, <1>8, <1>9, <2>2 DEF Gone
  <2>3. CASE slot_to_load[SlotAt(j)] = j
    <3>1. NextLoad = j
      BY <1>1, <1>2, <2>1, <2>3, NextLoadFacts
    <3>2. code'[j].op = "use"
      BY <1>3, <1>5, <1>9, <3>1
    <3>3. QED
      BY <1>1, <1>9, <3>2 DEF Gone
  <2>4. QED
    BY <1>9, <2>2, <2>3 DEF Served
<1>10. QED
  BY <1>1, <1>3, <1>4, <1>7, <1>8, <1>9, ScanGoesOn

LEMMA ReorderKeepsForwarding ==
  ASSUME Forwarding, ReorderLoads
  PROVE  Forwarding'
<1> DEFINE how == Conversion(block[NextLoad], block[cur])
<1>1. /\ cur # 0 /\ cur' = cur - 1 /\ block' = block /\ block[cur].op = "load"
      /\ NextLoad # 0 /\ block[NextLoad].size > block[cur].size
      /\ code' = IF how = "none" THEN code ELSE Replaced(cur, how, NextLoad)
      /\ slot_to_load' = [slot_to_load EXCEPT ![SlotAt(cur)] =
                            IF how = "none" THEN 0 ELSE NextLoad]
  BY DEF ReorderLoads, Reorder, Visiting
<1>2. Scanned
  BY DEF Forwarding
<1>3. AllInts => how # "none"
  <2> SUFFICES ASSUME AllInts PROVE how # "none"
    OBVIOUS
  <2>1. /\ block[cur].kind = "int" /\ block[NextLoad].kind = "int"
        /\ block[cur].size \in Nat /\ block[NextLoad].size \in Nat
    BY <1>1, <1>2, NextLoadFacts DEF AllInts
  <2>2. block[cur].size <= block[NextLoad].size
    BY <1>1, <2>1
  <2>3. QED
    BY <2>1, <2>2, IntegersConvert
<1> HIDE DEF how
<1>4. PICK x, l :
        /\ x = (IF how = "none" THEN 0 ELSE NextLoad)
        /\ l = (IF how = "none" THEN 0 ELSE cur)
  OBVIOUS
<1>5. /\ DOMAIN code' = DOMAIN code
      /\ \A i \in DOMAIN code : i # l => code'[i] = code[i]
      /\ how # "none" => code'[cur].op = "use"
  BY <1>1, <1>2, <1>4, NextLoadFacts, ReplacedFacts DEF Scanned
<1>6. /\ slot_to_load' = [slot_to_load EXCEPT ![SlotAt(cur)] = x]
      /\ x # 0 => x # l /\ x = NextLoad /\ code[x].op = "load"
  BY <1>1, <1>2, <1>4, NextLoadFacts, BlockTypes DEF Scanned
<1>7. /\ Scanned' /\ slot_to_load'[SlotAt(cur)] = x
      /\ \A s \in Slots : ~Touches(cur, s) => slot_to_load'[s] = slot_to_load[s]
  BY <1>1, <1>2, <1>4, <1>5, <1>6, AccessScanned
<1>8. \A i \in DOMAIN block : code[i].op # "load" => code'[i].op # "load"
  BY <1>2, <1>4, <1>5 DEF Scanned
<1>9. AllInts => code'[cur].op # "load"
  BY <1>3, <1>5
<1>10. ASSUME AllInts, NEW i \in DOMAIN block, NEW j \in DOMAIN block, i = cur
       PROVE  Gone(i, j)'
  BY <1>1, <1>9, <1>10 DEF Gone
<1>11. QED
  BY <1>1, <1>7, <1>8, <1>9, <1>10, ScanGoesOn

LEMMA ForwardingInitially ==
  ASSUME ForwardInit
  PROVE  Forwarding
<1>1. /\ block \in Blocks /\ code = block /\ cur = Len(block)
      /\ slot_to_load = [s \in Slots |-> 0]
  BY DEF ForwardInit
<1>2. Len(block) \in Nat /\ DOMAIN block = 1..Len(block)
  BY <1>1, BlockTypes
<1>3. Scanned
  BY <1>1, <1>2 DEF Scanned
<1>4. \A i \in DOMAIN block : ~(cur < i)
  BY <1>1, <1>2
<1>5. QED
  BY <1>3, <1>4 DEF Forwarding, NextLoadsWait, NextAccess, GoneSoFar

LEMMA ForwardingAlways == ForwardSpec => []Forwarding
<1>1. ForwardInit => Forwarding
  BY ForwardingInitially
<1>2. Forwarding /\ [ForwardNext]_forwardVars => Forwarding'
  <2> SUFFICES ASSUME Forwarding, [ForwardNext]_forwardVars PROVE Forwarding'
    OBVIOUS
  <2>1. CASE ForwardNext
    BY <2>1, SkipKeepsForwarding, CallKeepsForwarding, StoreKeepsForwarding,
       FirstLoadKeepsForwarding, ForwardLoadKeepsForwarding, ReorderKeepsForwarding
       DEF ForwardNext
  <2>2. CASE UNCHANGED forwardVars
    <3>1. /\ block' = block /\ code' = code /\ slot_to_load' = slot_to_load
          /\ cur' = cur
      BY <2>2 DEF forwardVars
    <3>2. \A j : SlotAt(j)' = SlotAt(j)
      BY <3>1 DEF SlotAt
    <3>3. \A k, s : Touches(k, s)' <=> Touches(k, s)
      BY <3>1, <3>2 DEF Touches, ChangedByCall
    <3>4. Scanned' <=> Scanned
      BY <3>1, <3>2 DEF Scanned
    <3>5. NextLoadsWait' <=> NextLoadsWait
      BY <3>1, <3>2, <3>3 DEF NextLoadsWait, NextAccess, Served
    <3>6. GoneSoFar' <=> GoneSoFar
      <4>1. /\ \A i, j : Adjacent(i, j)' <=> Adjacent(i, j)
            /\ \A i, j : Gone(i, j)' <=> Gone(i, j)
        BY <3>1, <3>2, <3>3 DEF Adjacent, Gone
      <4>2. QED
        BY <3>1, <4>1 DEF GoneSoFar
    <3>7. QED
      BY <3>1, <3>4, <3>5, <3>6 DEF Forwarding, AllInts
  <2>3. QED
    BY <2>1, <2>2
<1>3. QED
  BY <1>1, <1>2, PTL DEF ForwardSpec

(***************************************************************************)
(* ForwardingBlockVisitor leaves no redundant load of integers: one scan,  *)
(* with one entry for each slot, is enough, although a load that moves in  *)
(* front of another takes over its entry.                                  *)
(***************************************************************************)
THEOREM RedundantLoadsAreGone == ForwardSpec => []RedundantLoadsGo
<1>1. Forwarding => RedundantLoadsGo
  <2> SUFFICES ASSUME Forwarding, cur = 0, AllInts,
                      NEW i \in DOMAIN block, NEW j \in DOMAIN block, Adjacent(i, j)
               PROVE  Gone(i, j)
    BY DEF RedundantLoadsGo, AllInts, Gone
  <2>1. cur < i
    BY BlockTypes DEF Forwarding, Scanned
  <2>2. QED
    BY <2>1 DEF Forwarding, GoneSoFar
<1>2. QED
  BY <1>1, ForwardingAlways, PTL

-----------------------------------------------------------------------------
(***************************************************************************)
(* What a block does, step by step: T[k] is the state behind the first k   *)
(* of the instructions c, taken in the order o.                            *)
(***************************************************************************)
StepsTo(T, c, o, n) ==
  T = [k \in 0..n |-> IF k = 0 THEN Before(c) ELSE Execute(T[k - 1], o[k], c[o[k]])]

LessThan == {ss \in Nat \X Nat : ss[1] < ss[2]}
LEMMA LeastElement ==
  ASSUME NEW T, T \subseteq Nat, T # {}
  PROVE  \E x \in T : \A y \in T : x <= y
<1>1. IsWellFoundedOn(LessThan, Nat)
  BY NatLessThanWellFounded DEF OpToRel, LessThan
<1>2. PICK x \in T : \A y \in T : ~ (<<y, x>> \in LessThan)
  BY <1>1, WFMin
<1>3. \A y \in T : x <= y
  <2> SUFFICES ASSUME NEW y \in T PROVE x <= y OBVIOUS
  <2>1. x \in Nat /\ y \in Nat OBVIOUS
  <2>2. <<y, x>> \notin LessThan BY <1>2
  <2>3. ~ (y < x) BY <2>1, <2>2 DEF LessThan
  <2> QED BY <2>1, <2>3
<1> QED BY <1>3

LEMMA StepsAgree ==
  ASSUME NEW c, NEW o, NEW n \in Nat, NEW T, NEW U,
         StepsTo(T, c, o, n), StepsTo(U, c, o, n)
  PROVE  T = U
<1> DEFINE D == {k \in 0..n : T[k] # U[k]}
<1>1. ASSUME NEW S, StepsTo(S, c, o, n)
      PROVE  /\ S = [k \in 0..n |-> S[k]] /\ S[0] = Before(c)
             /\ \A k \in 1..n : S[k] = Execute(S[k - 1], o[k], c[o[k]])
  <2>1. /\ S = [k \in 0..n |-> S[k]]
        /\ \A k \in 0..n : S[k] = IF k = 0 THEN Before(c)
                                  ELSE Execute(S[k - 1], o[k], c[o[k]])
    BY <1>1, Zenon DEF StepsTo
  <2>2. 0 \in 0..n /\ \A k \in 1..n : k \in 0..n /\ k # 0
    OBVIOUS
  <2>3. QED
    BY <2>1, <2>2
<1>2. D = {}
  <2> SUFFICES ASSUME D # {} PROVE FALSE
    OBVIOUS
  <2>1. PICK x \in D : \A y \in D : x <= y
    <3>1. D \subseteq Nat
      OBVIOUS
    <3>2. QED
      BY <3>1, LeastElement
  <2>2. x \in 1..n /\ x - 1 \in 0..n /\ ~(x <= x - 1)
    BY <2>1, <1>1
  <2>3. T[x - 1] = U[x - 1]
    BY <2>1, <2>2
  <2>4. QED
    BY <2>1, <2>2, <2>3, <1>1
<1>3. /\ T = [k \in 0..n |-> T[k]] /\ U = [k \in 0..n |-> U[k]]
      /\ \A k \in 0..n : T[k] = U[k]
  BY <1>1, <1>2
<1>4. QED
  BY <1>3

LEMMA StepsExist ==
  ASSUME NEW c, NEW o, NEW n \in Nat
  PROVE  \E T : StepsTo(T, c, o, n)
<1> DEFINE D == {k \in Nat : ~ \E T : StepsTo(T, c, o, k)}
<1> SUFFICES ASSUME D # {} PROVE FALSE
  OBVIOUS
<1>1. PICK x \in D : \A y \in D : x <= y
  BY LeastElement
<1>2. CASE x = 0
  <2>1. StepsTo([k \in 0..0 |-> Before(c)], c, o, 0)
    BY DEF StepsTo
  <2>2. QED
    BY <1>1, <1>2, <2>1
<1>3. CASE x # 0
  <2>1. x - 1 \in Nat /\ ~(x <= x - 1) /\ x \in Nat
    BY <1>3
  <2>2. PICK T : StepsTo(T, c, o, x - 1)
    BY <1>1, <2>1
  <2> DEFINE U == [k \in 0..x |-> IF k = x THEN Execute(T[x - 1], o[x], c[o[x]])
                                  ELSE T[k]]
  <2>3. ASSUME NEW k \in 0..x
        PROVE  U[k] = IF k = 0 THEN Before(c) ELSE Execute(U[k - 1], o[k], c[o[k]])
    <3>1. CASE k = x
      <4>1. x - 1 \in 0..x /\ x - 1 # x
        BY <2>1
      <4>2. U[x - 1] = T[x - 1]
        BY <4>1
      <4>3. QED
        BY <3>1, <4>2, <1>3
    <3>2. CASE k # x
      <4>1. k \in 0..x - 1 /\ U[k] = T[k]
        BY <3>2, <2>1
      <4>2. T[k] = IF k = 0 THEN Before(c) ELSE Execute(T[k - 1], o[k], c[o[k]])
        BY <2>2, <4>1 DEF StepsTo
      <4>3. CASE k = 0
        BY <4>1, <4>2, <4>3
      <4>4. CASE k # 0
        <5>1. k - 1 \in 0..x /\ k - 1 # x
          BY <4>1, <4>4, <2>1
        <5>2. U[k - 1] = T[k - 1]
          BY <5>1
        <5>3. QED
          BY <4>1, <4>2, <4>4, <5>2
      <4>5. QED
        BY <4>3, <4>4
    <3>3. QED
      BY <3>1, <3>2
  <2>4. U = [k \in 0..x |-> U[k]]
    OBVIOUS
  <2> HIDE DEF U
  <2>5. StepsTo(U, c, o, x)
    BY <2>3, <2>4 DEF StepsTo
  <2>6. QED
    BY <1>1, <2>5
<1>4. QED
  BY <1>2, <1>3

LEMMA RunIsLastStep ==
  ASSUME NEW c, NEW o, Len(o) \in Nat, NEW T, StepsTo(T, c, o, Len(o))
  PROVE  Run(c, o) = T[Len(o)]
<1> DEFINE after == CHOOSE U : U = [k \in 0..Len(o) |->
                      IF k = 0 THEN Before(c) ELSE Execute(U[k - 1], o[k], c[o[k]])]
<1>1. Run(c, o) = after[Len(o)]
  BY DEF Run
<1>2. \E U : U = [k \in 0..Len(o) |->
                      IF k = 0 THEN Before(c) ELSE Execute(U[k - 1], o[k], c[o[k]])]
  BY DEF StepsTo
<1>3. after = [k \in 0..Len(o) |->
                 IF k = 0 THEN Before(c) ELSE Execute(after[k - 1], o[k], c[o[k]])]
  BY <1>2
<1> HIDE DEF after
<1>4. StepsTo(after, c, o, Len(o))
  BY <1>3 DEF StepsTo
<1>5. after = T
  BY <1>4, StepsAgree
<1>6. QED
  BY <1>1, <1>5

\* What holds at p and goes on holding, holds up to q.
LEMMA Reaching ==
  ASSUME NEW S, NEW p \in Nat, NEW q \in Nat, p \in S,
         \A k \in p..q : k < q /\ k \in S => k + 1 \in S
  PROVE  \A k \in p..q : k \in S
<1> DEFINE D == {k \in p..q : k \notin S}
<1>1. D \subseteq Nat
  OBVIOUS
<1> SUFFICES ASSUME D # {} PROVE FALSE
  OBVIOUS
<1>2. PICK x \in D : \A y \in D : x <= y
  BY <1>1, LeastElement
<1>3. x # p /\ x - 1 \in p..q /\ x - 1 < q /\ ~(x <= x - 1) /\ (x - 1) + 1 = x
  BY <1>2
<1>4. x - 1 \in S
  BY <1>2, <1>3
<1>5. QED
  BY <1>2, <1>3, <1>4

LEMMA StepFacts ==
  ASSUME NEW c, NEW o, NEW n \in Nat, NEW T, StepsTo(T, c, o, n)
  PROVE  /\ T[0] = Before(c)
         /\ \A k \in 1..n : T[k] = Execute(T[k - 1], o[k], c[o[k]])
<1>1. \A k \in 0..n : T[k] = IF k = 0 THEN Before(c)
                             ELSE Execute(T[k - 1], o[k], c[o[k]])
  BY Zenon DEF StepsTo
<1>2. 0 \in 0..n /\ \A k \in 1..n : k \in 0..n /\ k # 0
  OBVIOUS
<1>3. QED
  BY <1>1, <1>2

\* An instruction is replaced by one that does the same where it stands.
LEMMA StepsWithReplaced ==
  ASSUME NEW c, NEW d, NEW o, NEW n \in Nat, NEW T, StepsTo(T, c, o, n),
         DOMAIN d = DOMAIN c, NEW q \in 1..n,
         \A k \in 1..n : k # q => d[o[k]] = c[o[k]],
         Execute(T[q - 1], o[q], d[o[q]]) = Execute(T[q - 1], o[q], c[o[q]])
  PROVE  StepsTo(T, d, o, n)
<1>1. Before(d) = Before(c)
  BY DEF Before
<1>2. \A k \in 0..n : k # 0 => Execute(T[k - 1], o[k], d[o[k]])
                                 = Execute(T[k - 1], o[k], c[o[k]])
  OBVIOUS
<1>3. QED
  BY <1>1, <1>2 DEF StepsTo

\* The state s, with the result v of the instruction n.
WithResult(s, n, v) ==
  [mem |-> s.mem, env |-> [j \in DOMAIN s.env |-> IF j = n THEN v ELSE s.env[j]]]

(***************************************************************************)
(* The instruction n = o[q] moves in front of o[p].  It gives the same     *)
(* result v there, and those that it passes do not notice.                 *)
(***************************************************************************)
Unnoticed(T, c, o, m, N, p, q, n, v) ==
  /\ N \in Nat /\ p \in 1..N /\ q \in 1..N /\ p <= q /\ n = o[q]
  /\ StepsTo(T, c, o, N)
  /\ \A k \in 1..N : m[k] = IF k = p THEN n
                           ELSE IF p < k /\ k <= q THEN o[k - 1] ELSE o[k]
  /\ Execute(T[p - 1], n, c[n]) = WithResult(T[p - 1], n, v)
  /\ Execute(T[q - 1], n, c[n]) = WithResult(T[q - 1], n, v)
  /\ \A k \in 1..N : p <= k /\ k < q =>
       Execute(WithResult(T[k - 1], n, v), o[k], c[o[k]])
         = WithResult(Execute(T[k - 1], o[k], c[o[k]]), n, v)
MovedSteps(T, N, p, q, n, v) ==
  [k \in 0..N |-> IF p <= k /\ k <= q THEN WithResult(T[k - 1], n, v) ELSE T[k]]

LEMMA StepsWithMoved ==
  ASSUME NEW c, NEW o, NEW m, NEW N, NEW T, NEW p, NEW q, NEW n, NEW v,
         Unnoticed(T, c, o, m, N, p, q, n, v)
  PROVE  /\ StepsTo(MovedSteps(T, N, p, q, n, v), c, m, N)
         /\ MovedSteps(T, N, p, q, n, v)[N] = T[N]
<1> SUFFICES ASSUME
      N \in Nat, p \in 1..N, q \in 1..N, p <= q, n = o[q], StepsTo(T, c, o, N),
      \A k \in 1..N : m[k] = IF k = p THEN n
                             ELSE IF p < k /\ k <= q THEN o[k - 1] ELSE o[k],
      Execute(T[p - 1], n, c[n]) = WithResult(T[p - 1], n, v),
      Execute(T[q - 1], n, c[n]) = WithResult(T[q - 1], n, v),
      \A k \in 1..N : p <= k /\ k < q =>
           Execute(WithResult(T[k - 1], n, v), o[k], c[o[k]])
             = WithResult(Execute(T[k - 1], o[k], c[o[k]]), n, v)
             PROVE  /\ StepsTo(MovedSteps(T, N, p, q, n, v), c, m, N)
                    /\ MovedSteps(T, N, p, q, n, v)[N] = T[N]
  BY Zenon DEF Unnoticed
<1>1. /\ T[0] = Before(c)
      /\ \A k \in 1..N : T[k] = Execute(T[k - 1], o[k], c[o[k]])
  BY StepFacts
<1>2. T[q] = WithResult(T[q - 1], n, v)
  BY <1>1
<1> DEFINE U == MovedSteps(T, N, p, q, n, v)
<1>3. /\ \A k \in 0..N : k < p \/ k > q => U[k] = T[k]
      /\ \A k \in 0..N : p <= k /\ k <= q => U[k] = WithResult(T[k - 1], n, v)
      /\ U = [k \in 0..N |-> U[k]]
  BY DEF MovedSteps
<1> HIDE DEF U
<1>4. U[0] = Before(c)
  <2>1. 0 \in 0..N /\ 0 < p
    OBVIOUS
  <2>2. QED
    BY <1>1, <1>3, <2>1
<1>5. ASSUME NEW k \in 1..N
      PROVE  U[k] = Execute(U[k - 1], m[k], c[m[k]])
  <2>0. k \in 0..N /\ k - 1 \in 0..N
    OBVIOUS
  <2>1. CASE k < p
    <3>1. U[k] = T[k] /\ U[k - 1] = T[k - 1] /\ m[k] = o[k]
      BY <1>3, <2>0, <2>1
    <3>2. QED
      BY <1>1, <3>1
  <2>2. CASE k = p
    <3>1. U[k] = WithResult(T[k - 1], n, v) /\ U[k - 1] = T[k - 1] /\ m[k] = n
      BY <1>3, <2>0, <2>2
    <3>2. QED
      BY <3>1, <2>2
  <2>3. CASE p < k /\ k <= q
    <3>1. /\ k - 1 \in 1..N /\ p <= k - 1 /\ k - 1 < q
          /\ U[k] = WithResult(T[k - 1], n, v)
          /\ U[k - 1] = WithResult(T[(k - 1) - 1], n, v)
          /\ m[k] = o[k - 1]
      BY <1>3, <2>0, <2>3
    <3>2. T[k - 1] = Execute(T[(k - 1) - 1], o[k - 1], c[o[k - 1]])
      BY <1>1, <3>1
    <3>3. Execute(WithResult(T[(k - 1) - 1], n, v), o[k - 1], c[o[k - 1]])
            = WithResult(Execute(T[(k - 1) - 1], o[k - 1], c[o[k - 1]]), n, v)
      BY <3>1
    <3>4. QED
      BY <3>1, <3>2, <3>3
  <2>4. CASE k > q
    <3>1. U[k] = T[k] /\ m[k] = o[k]
      BY <1>3, <2>0, <2>4
    <3>2. U[k - 1] = T[k - 1]
      <4>1. CASE k - 1 = q
        BY <4>1, <1>2, <1>3, <2>0
      <4>2. CASE k - 1 # q
        BY <4>2, <1>3, <2>0, <2>4
      <4>3. QED
        BY <4>1, <4>2
    <3>3. QED
      BY <1>1, <3>1, <3>2
  <2>5. QED
    BY <2>1, <2>2, <2>3, <2>4
<1>6. StepsTo(U, c, m, N)
  <2>1. \A k \in 0..N : U[k] = IF k = 0 THEN Before(c)
                               ELSE Execute(U[k - 1], m[k], c[m[k]])
    BY <1>4, <1>5
  <2>2. QED
    BY <1>3, <2>1 DEF StepsTo
<1>7. U[N] = T[N]
  <2>1. CASE N = q
    BY <2>1, <1>2, <1>3
  <2>2. CASE N # q
    BY <2>2, <1>3
  <2>3. QED
    BY <2>1, <2>2
<1>8. QED
  BY <1>6, <1>7 DEF U

Operations == {"load", "store", "call", "addr", "use"}

\* The state behind one instruction.
LEMMA Executed ==
  ASSUME NEW s, NEW i, NEW c, i \in DOMAIN s.env
  PROVE  /\ Execute(s, i, c).mem = Memory(s, i, c)
         /\ DOMAIN Execute(s, i, c).env = DOMAIN s.env
         /\ Execute(s, i, c).env[i] = Value(s, i, c)
         /\ \A j \in DOMAIN s.env : j # i => Execute(s, i, c).env[j] = s.env[j]
BY DEF Execute

\* An instruction does the same where State and the results it uses are.
LEMMA SameEffect ==
  ASSUME NEW s, NEW u, NEW i, NEW c, c.op \in Operations, s.mem = u.mem,
         c.op = "load" => c.ptr = 0,
         c.op = "store" => c.val = 0 \/ s.env[c.val] = u.env[c.val],
         c.op = "use" => s.env[c.val] = u.env[c.val]
  PROVE  Value(s, i, c) = Value(u, i, c) /\ Memory(s, i, c) = Memory(u, i, c)
<1>1. CASE c.op = "load"
  BY <1>1 DEF Value, Memory
<1>2. CASE c.op = "store"
  <2>1. Value(s, i, c) = Value(u, i, c)
    BY <1>2 DEF Value
  <2>2. QED
    BY <1>2, <2>1 DEF Memory
<1>3. CASE c.op = "call"
  BY <1>3 DEF Value, Memory
<1>4. CASE c.op = "addr"
  BY <1>4 DEF Value, Memory
<1>5. CASE c.op = "use"
  BY <1>5 DEF Value, Memory
<1>6. QED
  BY <1>1, <1>2, <1>3, <1>4, <1>5 DEF Operations

\* An instruction i does not notice a result n that it does not use.
LEMMA Commute ==
  ASSUME NEW s, NEW i, NEW c, NEW n, NEW v, i # n, i \in DOMAIN s.env,
         c.op \in Operations, c.op = "load" => c.ptr = 0,
         c.op = "store" => c.val = 0 \/ (c.val \in DOMAIN s.env /\ c.val # n),
         c.op = "use" => c.val \in DOMAIN s.env /\ c.val # n
  PROVE  Execute(WithResult(s, n, v), i, c) = WithResult(Execute(s, i, c), n, v)
<1> DEFINE w == WithResult(s, n, v)
<1>1. /\ w.mem = s.mem /\ DOMAIN w.env = DOMAIN s.env
      /\ \A j \in DOMAIN s.env : w.env[j] = IF j = n THEN v ELSE s.env[j]
  BY DEF WithResult
<1> HIDE DEF w
<1>2. Value(w, i, c) = Value(s, i, c) /\ Memory(w, i, c) = Memory(s, i, c)
  BY <1>1, SameEffect
<1>3. Execute(w, i, c) =
        [mem |-> Memory(s, i, c),
         env |-> [j \in DOMAIN s.env |-> IF j = i THEN Value(s, i, c) ELSE w.env[j]]]
  BY <1>1, <1>2 DEF Execute
<1>4. WithResult(Execute(s, i, c), n, v) =
        [mem |-> Memory(s, i, c),
         env |-> [j \in DOMAIN s.env |-> IF j = n THEN v
                                         ELSE Execute(s, i, c).env[j]]]
  BY Executed DEF WithResult
<1>5. \A j \in DOMAIN s.env :
        (IF j = i THEN Value(s, i, c) ELSE w.env[j])
          = IF j = n THEN v ELSE Execute(s, i, c).env[j]
  BY <1>1, Executed
<1>6. QED
  BY <1>3, <1>4, <1>5 DEF w

-----------------------------------------------------------------------------
(***************************************************************************)
(* The invariant behind SameMeaning.  The order is a permutation that has  *)
(* left alone what is in front of the scan; only loads are replaced, by    *)
(* results that are there already; and between the scan and a load that    *)
(* waits in slot_to_load, wherever it stands by now, nothing writes to its *)
(* slot.                                                                   *)
(***************************************************************************)
Ordered ==
  /\ order \in Seq(DOMAIN block) /\ Len(order) = Len(block)
  /\ \A p, q \in DOMAIN block : order[p] = order[q] => p = q
  /\ \A i \in DOMAIN block : \E k \in DOMAIN block : order[k] = i
  /\ \A k \in DOMAIN block : k <= cur => order[k] = k

Kept ==
  \A i \in DOMAIN block :
    \/ code[i] = block[i]
    \/ block[i].op = "load" /\ code[i].op = "use" /\ code[i].val \in DOMAIN block

UsesResult(c, j) == c.op \in {"store", "use"} /\ c.val = j
DefinedFirst ==
  \A p, q \in DOMAIN block : UsesResult(code[order[p]], order[q]) => q < p

Writes(i, s) == \/ block[i].op = "store" /\ SlotAt(i) = s
                \/ block[i].op = "call" /\ s \in ChangedByCall(block[i])
NothingInBetween ==
  \A k, q \in DOMAIN block, s \in Slots :
    (cur < k /\ k < q /\ order[q] = slot_to_load[s]) => ~Writes(order[k], s)

Rearranged == Ordered /\ Kept /\ DefinedFirst /\ NothingInBetween

LEMMA OrderTypes ==
  ASSUME Scanned, Ordered
  PROVE  /\ Len(block) \in Nat /\ DOMAIN block = 1..Len(block)
         /\ DOMAIN order = DOMAIN block /\ DOMAIN code = DOMAIN block
         /\ \A k \in DOMAIN block : order[k] \in DOMAIN block
<1>1. Len(block) \in Nat /\ DOMAIN block = 1..Len(block) /\ DOMAIN code = DOMAIN block
  BY BlockTypes DEF Scanned
<1>2. order \in Seq(DOMAIN block) /\ Len(order) = Len(block)
  BY DEF Ordered
<1>3. DOMAIN order = 1..Len(block) /\ \A k \in 1..Len(order) : order[k] \in DOMAIN block
  BY <1>2
<1>4. QED
  BY <1>1, <1>2, <1>3

\* Where the next load stands.
LEMMA NextPosition ==
  ASSUME Scanned, Rearranged, cur # 0, block[cur].op \in {"load", "store"}, NextLoad # 0
  PROVE  /\ order[cur] = cur
         /\ \E q \in DOMAIN block :
              /\ order[q] = NextLoad /\ cur < q
              /\ \A k \in DOMAIN block : cur < k /\ k < q => ~Writes(order[k], SlotAt(cur))
<1>1. /\ cur \in DOMAIN block /\ SlotAt(cur) \in Slots
      /\ NextLoad = slot_to_load[SlotAt(cur)]
      /\ NextLoad \in DOMAIN block /\ cur < NextLoad
  BY NextLoadFacts
<1>2. /\ \A k \in DOMAIN block : k <= cur => order[k] = k
      /\ \A i \in DOMAIN block : \E k \in DOMAIN block : order[k] = i
  BY DEF Rearranged, Ordered
<1>3. PICK q \in DOMAIN block : order[q] = NextLoad
  BY <1>1, <1>2
<1>4. DOMAIN block = 1..Len(block) /\ Len(block) \in Nat
  BY BlockTypes DEF Scanned
<1>5. cur < q
  <2>1. q <= cur => q = NextLoad
    BY <1>2, <1>3
  <2>2. ~(q <= cur)
    BY <1>1, <1>4, <2>1
  <2>3. QED
    BY <1>1, <1>4, <2>2
<1>6. \A k \in DOMAIN block : cur < k /\ k < q => ~Writes(order[k], SlotAt(cur))
  BY <1>1, <1>3 DEF Rearranged, NothingInBetween
<1>7. cur <= cur
  BY <1>1, <1>4
<1>8. QED
  BY <1>1, <1>2, <1>3, <1>5, <1>6, <1>7

\* The scan goes on without moving anything.
LEMMA RearrangedGoesOn ==
  ASSUME Scanned, Rearranged, cur # 0, cur' = cur - 1, block' = block, order' = order,
         Kept', DefinedFirst',
         \A s \in Slots : \/ slot_to_load'[s] \in {0, cur}
                          \/ slot_to_load'[s] = slot_to_load[s] /\ ~Writes(cur, s)
  PROVE  Rearranged'
<1>1. /\ cur \in DOMAIN block /\ DOMAIN block = 1..Len(block) /\ Len(block) \in Nat
      /\ \A k \in DOMAIN block : order[k] \in DOMAIN block
  <2>1. DOMAIN block = 1..Len(block) /\ Len(block) \in Nat
        /\ \A k \in DOMAIN block : order[k] \in DOMAIN block
    BY OrderTypes DEF Rearranged
  <2>2. cur \in 0..Len(block)
    BY DEF Scanned
  <2>3. QED
    BY <2>1, <2>2
<1>2. Ordered /\ order[cur] = cur
  BY <1>1 DEF Rearranged, Ordered
<1>3. Ordered'
  BY <1>1, <1>2 DEF Ordered
<1>4. ASSUME NEW k \in DOMAIN block, NEW q \in DOMAIN block, NEW s \in Slots,
             cur - 1 < k, k < q, order[q] = slot_to_load'[s]
      PROVE  ~Writes(order[k], s)
  <2>1. order[q] # 0 /\ order[q] # cur
    <3>1. q # cur
      BY <1>1, <1>4
    <3>2. order[q] \in DOMAIN block /\ (order[q] = cur => q = cur)
      BY <1>1, <1>2 DEF Ordered
    <3>3. QED
      BY <1>1, <3>1, <3>2
  <2>2. slot_to_load'[s] = slot_to_load[s] /\ ~Writes(cur, s)
    BY <1>4, <2>1
  <2>3. CASE k = cur
    BY <1>2, <2>2, <2>3
  <2>4. CASE k # cur
    <3>1. cur < k
      BY <1>1, <1>4, <2>4
    <3>2. QED
      BY <1>4, <2>2, <3>1 DEF Rearranged, NothingInBetween
  <2>5. QED
    BY <2>3, <2>4
<1>5. \A i, s : Writes(i, s)' <=> Writes(i, s)
  <2>1. \A i : SlotAt(i)' = SlotAt(i)
    BY DEF SlotAt
  <2>2. QED
    BY <2>1 DEF Writes
<1>6. NothingInBetween'
  BY <1>4, <1>5 DEF NothingInBetween
<1>7. QED
  BY <1>3, <1>6 DEF Rearranged

\* A load n that is replaced stands behind the result val that replaces it.
LEMMA ReplacedKeeps ==
  ASSUME Scanned, Kept, NEW o, DOMAIN o = DOMAIN block,
         \A p, q \in DOMAIN block : o[p] = o[q] => p = q,
         \A p, q \in DOMAIN block : UsesResult(code[o[p]], o[q]) => q < p,
         NEW a \in DOMAIN block, NEW z \in DOMAIN block, a < z, NEW how,
         \A k \in DOMAIN block : o[k] \in DOMAIN block, block[o[z]].op = "load",
         block' = block, code' = Replaced(o[z], how, o[a]), order' = o
  PROVE  Kept' /\ DefinedFirst'
<1>1. DOMAIN code = DOMAIN block
  BY DEF Scanned
<1>2. /\ code'[o[z]].op = "use" /\ code'[o[z]].val = o[a]
      /\ \A i \in DOMAIN block : i # o[z] => code'[i] = code[i]
  BY <1>1 DEF Replaced
<1>3. Kept'
  BY <1>2 DEF Kept
<1>4. ASSUME NEW p \in DOMAIN block, NEW q \in DOMAIN block,
             UsesResult(code'[o[p]], o[q])
      PROVE  q < p
  <2>1. CASE o[p] = o[z]
    <3>1. p = z /\ o[q] = o[a]
      BY <1>2, <1>4, <2>1 DEF UsesResult
    <3>2. q = a
      BY <3>1
    <3>3. QED
      BY <3>1, <3>2
  <2>2. CASE o[p] # o[z]
    <3>1. code'[o[p]] = code[o[p]]
      BY <1>2, <2>2
    <3>2. QED
      BY <1>4, <3>1
  <2>3. QED
    BY <2>1, <2>2
<1>5. DefinedFirst'
  BY <1>4 DEF DefinedFirst
<1>6. QED
  BY <1>3, <1>5

\* What a store writes was computed in front of it.
LEMMA StoredBefore ==
  ASSUME block \in Blocks, NEW i \in DOMAIN block, block[i].op = "store"
  PROVE  block[i].val \in Nat /\ block[i].val < i
<1>1. block \in Seq(Instructions) /\ block[i].val < i
  BY BlocksAssumption
<1>2. block[i] \in Instructions
  BY <1>1
<1>3. block[i].val \in Nat
  BY <1>2 DEF Instructions
<1>4. QED
  BY <1>1, <1>3

LEMMA ActionFacts ==
  ASSUME Scanned, Rearranged, cur # 0
  PROVE  /\ cur \in DOMAIN block /\ DOMAIN block = 1..Len(block) /\ Len(block) \in Nat
         /\ order[cur] = cur /\ code[cur] = block[cur]
<1>1. /\ DOMAIN block = 1..Len(block) /\ Len(block) \in Nat /\ cur \in 0..Len(block)
  BY BlockTypes DEF Scanned
<1>2. cur \in DOMAIN block /\ cur <= cur
  BY <1>1
<1>3. QED
  BY <1>1, <1>2 DEF Scanned, Rearranged, Ordered

LEMMA SkipRearranges ==
  ASSUME Scanned, Rearranged, SkipInstruction
  PROVE  Rearranged'
<1>1. /\ cur # 0 /\ cur' = cur - 1 /\ block' = block /\ order' = order /\ code' = code
      /\ slot_to_load' = slot_to_load /\ block[cur].op = "addr"
  BY DEF SkipInstruction, Visiting
<1>2. Kept' /\ DefinedFirst'
  BY <1>1 DEF Rearranged, Kept, DefinedFirst
<1>3. \A s : ~Writes(cur, s)
  BY <1>1 DEF Writes
<1>4. QED
  BY <1>1, <1>2, <1>3, RearrangedGoesOn

LEMMA CallRearranges ==
  ASSUME Scanned, Rearranged, VisitCall
  PROVE  Rearranged'
<1>1. /\ cur # 0 /\ cur' = cur - 1 /\ block' = block /\ order' = order /\ code' = code
      /\ slot_to_load' = ForgetAt(block[cur]) /\ block[cur].op = "call"
  BY DEF VisitCall, Visiting
<1>2. Kept' /\ DefinedFirst'
  BY <1>1 DEF Rearranged, Kept, DefinedFirst
<1>3. \A s \in Slots : \/ slot_to_load'[s] \in {0, cur}
                       \/ slot_to_load'[s] = slot_to_load[s] /\ ~Writes(cur, s)
  BY <1>1 DEF Writes, ForgetAt
<1>4. QED
  BY <1>1, <1>2, <1>3, RearrangedGoesOn

LEMMA StoreRearranges ==
  ASSUME Scanned, Rearranged, VisitStore
  PROVE  Rearranged'
<1>1. /\ cur # 0 /\ cur' = cur - 1 /\ block' = block /\ order' = order
      /\ block[cur].op = "store"
      /\ code' = IF StoreServes = "none" THEN code
                 ELSE Replaced(NextLoad, StoreServes, StoredValue(cur))
      /\ slot_to_load' = [slot_to_load EXCEPT ![SlotAt(cur)] = 0]
  BY DEF VisitStore, ForwardStore, Visiting
<1>2. /\ cur \in DOMAIN block /\ DOMAIN block = 1..Len(block) /\ Len(block) \in Nat
      /\ order[cur] = cur /\ code[cur] = block[cur]
  BY <1>1, ActionFacts
<1>3. Kept' /\ DefinedFirst'
  <2>1. CASE StoreServes = "none"
    BY <1>1, <2>1 DEF Rearranged, Kept, DefinedFirst
  <2>2. CASE StoreServes # "none"
    <3>1. NextLoad # 0
      BY <2>2 DEF StoreServes
    <3>2. PICK q \in DOMAIN block : order[q] = NextLoad /\ cur < q
      BY <1>1, <3>1, NextPosition
    <3>3. \E a \in DOMAIN block : order[a] = StoredValue(cur) /\ a < q
      <4>1. CASE code[cur].val = 0
        BY <1>2, <3>2, <4>1 DEF StoredValue
      <4>2. CASE code[cur].val # 0
        <5>1. block[cur].val \in Nat /\ block[cur].val < cur
          BY <1>1, <1>2, StoredBefore DEF Scanned
        <5>2. block[cur].val \in DOMAIN block /\ block[cur].val <= cur
          BY <1>2, <4>2, <5>1
        <5>3. order[block[cur].val] = block[cur].val
          BY <5>2 DEF Rearranged, Ordered
        <5>4. StoredValue(cur) = block[cur].val
          BY <1>2, <4>2 DEF StoredValue
        <5>5. block[cur].val < q
          BY <1>2, <3>2, <5>1
        <5>6. QED
          BY <5>2, <5>3, <5>4, <5>5
      <4>3. QED
        BY <4>1, <4>2
    <3>4. PICK a \in DOMAIN block : order[a] = StoredValue(cur) /\ a < q
      BY <3>3
    <3>5. block[order[q]].op = "load"
      BY <1>1, <3>1, <3>2, NextLoadFacts
    <3>6. code' = Replaced(order[q], StoreServes, order[a])
      BY <1>1, <2>2, <3>2, <3>4
    <3>7. DOMAIN order = DOMAIN block /\ \A k \in DOMAIN block : order[k] \in DOMAIN block
      BY OrderTypes DEF Rearranged
    <3>8. /\ Kept
          /\ \A x, y \in DOMAIN block : order[x] = order[y] => x = y
          /\ \A x, y \in DOMAIN block : UsesResult(code[order[x]], order[y]) => y < x
      BY DEF Rearranged, Ordered, DefinedFirst
    <3>9. QED
      BY <1>1, <3>4, <3>5, <3>6, <3>7, <3>8, ReplacedKeeps
  <2>3. QED
    BY <2>1, <2>2
<1>4. ASSUME NEW s \in Slots
      PROVE  \/ slot_to_load'[s] \in {0, cur}
             \/ slot_to_load'[s] = slot_to_load[s] /\ ~Writes(cur, s)
  <2>1. DOMAIN slot_to_load = Slots
    BY DEF Scanned
  <2>2. CASE s = SlotAt(cur)
    BY <1>1, <2>1, <2>2
  <2>3. CASE s # SlotAt(cur)
    BY <1>1, <2>1, <2>3 DEF Writes
  <2>4. QED
    BY <2>2, <2>3
<1>5. QED
  BY <1>1, <1>3, <1>4, RearrangedGoesOn

LEMMA FirstLoadRearranges ==
  ASSUME Scanned, Rearranged, VisitFirstLoad
  PROVE  Rearranged'
<1>1. /\ cur # 0 /\ cur' = cur - 1 /\ block' = block /\ order' = order /\ code' = code
      /\ slot_to_load' = [slot_to_load EXCEPT ![SlotAt(cur)] = cur]
      /\ block[cur].op = "load"
  BY DEF VisitFirstLoad, Visiting
<1>2. Kept' /\ DefinedFirst'
  BY <1>1 DEF Rearranged, Kept, DefinedFirst
<1>3. \A s \in Slots : \/ slot_to_load'[s] \in {0, cur}
                       \/ slot_to_load'[s] = slot_to_load[s] /\ ~Writes(cur, s)
  BY <1>1 DEF Writes, Scanned
<1>4. QED
  BY <1>1, <1>2, <1>3, RearrangedGoesOn

LEMMA ForwardLoadRearranges ==
  ASSUME Scanned, Rearranged, ForwardLoad
  PROVE  Rearranged'
<1> DEFINE how == Conversion(block[cur], block[NextLoad])
<1>1. /\ cur # 0 /\ cur' = cur - 1 /\ block' = block /\ order' = order
      /\ block[cur].op = "load" /\ NextLoad # 0
      /\ code' = IF how = "none" THEN code ELSE Replaced(NextLoad, how, cur)
      /\ slot_to_load' = [slot_to_load EXCEPT ![SlotAt(cur)] =
                            IF how = "none" THEN 0 ELSE cur]
  BY DEF ForwardLoad, Visiting
<1> HIDE DEF how
<1>2. /\ cur \in DOMAIN block /\ order[cur] = cur
  BY <1>1, ActionFacts
<1>3. Kept' /\ DefinedFirst'
  <2>1. CASE how = "none"
    BY <1>1, <2>1 DEF Rearranged, Kept, DefinedFirst
  <2>2. CASE how # "none"
    <3>1. PICK q \in DOMAIN block : order[q] = NextLoad /\ cur < q
      BY <1>1, NextPosition
    <3>2. block[order[q]].op = "load"
      BY <1>1, <3>1, NextLoadFacts
    <3>3. code' = Replaced(order[q], how, order[cur])
      BY <1>1, <1>2, <2>2, <3>1
    <3>4. DOMAIN order = DOMAIN block /\ \A k \in DOMAIN block : order[k] \in DOMAIN block
      BY OrderTypes DEF Rearranged
    <3>5. /\ Kept
          /\ \A x, y \in DOMAIN block : order[x] = order[y] => x = y
          /\ \A x, y \in DOMAIN block : UsesResult(code[order[x]], order[y]) => y < x
      BY DEF Rearranged, Ordered, DefinedFirst
    <3>6. QED
      BY <1>1, <1>2, <3>1, <3>2, <3>3, <3>4, <3>5, ReplacedKeeps
  <2>3. QED
    BY <2>1, <2>2
<1>4. \A s \in Slots : \/ slot_to_load'[s] \in {0, cur}
                       \/ slot_to_load'[s] = slot_to_load[s] /\ ~Writes(cur, s)
  BY <1>1 DEF Writes, Scanned
<1>5. QED
  BY <1>1, <1>3, <1>4, RearrangedGoesOn

(***************************************************************************)
(* What ReorderLoads makes of the order: the load at the position q stands *)
(* at cur, those that were there in between stand one further.             *)
(***************************************************************************)
From(p, q) == IF p = cur THEN q ELSE IF cur < p /\ p <= q THEN p - 1 ELSE p

LEMMA MovedFacts ==
  ASSUME Scanned, Ordered, cur # 0, order[cur] = cur, NEW q \in DOMAIN block,
         order[q] = NextLoad, cur < q
  PROVE  /\ MovedBefore(NextLoad, cur) = [k \in DOMAIN block |-> order[From(k, q)]]
         /\ \A k \in DOMAIN block : From(k, q) \in DOMAIN block
         /\ \A k, j \in DOMAIN block : From(k, q) = From(j, q) => k = j
         /\ \A j \in DOMAIN block : \E k \in DOMAIN block : From(k, q) = j
         /\ \A k, j \in DOMAIN block :
              k < j => From(k, q) < From(j, q) \/ k = cur
<1>1. /\ DOMAIN block = 1..Len(block) /\ Len(block) \in Nat /\ DOMAIN order = DOMAIN block
      /\ cur \in 0..Len(block)
  BY OrderTypes DEF Scanned
<1>2. cur \in DOMAIN block
  BY <1>1
<1>3. Position(cur) = cur /\ Position(NextLoad) = q
  <2>1. \A k \in DOMAIN order : /\ order[k] = cur => k = cur
                                /\ order[k] = NextLoad => k = q
    BY <1>1, <1>2 DEF Ordered
  <2>2. QED
    BY <1>1, <1>2, <2>1 DEF Position
<1>4. MovedBefore(NextLoad, cur) = [k \in DOMAIN block |-> order[From(k, q)]]
  <2>1. \A k \in DOMAIN block :
          order[From(k, q)] = IF k = cur THEN NextLoad
                              ELSE IF cur < k /\ k <= q THEN order[k - 1] ELSE order[k]
    BY DEF From
  <2>2. QED
    BY <1>1, <1>3, <2>1 DEF MovedBefore
<1>5. \A k \in DOMAIN block : From(k, q) \in DOMAIN block
  BY <1>1, <1>2 DEF From
<1>6. \A k, j \in DOMAIN block : From(k, q) = From(j, q) => k = j
  BY <1>1, <1>2 DEF From
<1>7. ASSUME NEW j \in DOMAIN block
      PROVE  \E k \in DOMAIN block : From(k, q) = j
  <2>1. CASE j = q
    BY <1>2, <2>1 DEF From
  <2>2. CASE cur <= j /\ j < q
    <3>1. j + 1 \in DOMAIN block /\ From(j + 1, q) = j
      BY <1>1, <1>2, <2>2 DEF From
    <3>2. QED
      BY <3>1
  <2>3. CASE j < cur \/ j > q
    <3>1. From(j, q) = j
      BY <1>1, <1>2, <2>3 DEF From
    <3>2. QED
      BY <3>1
  <2>4. QED
    BY <1>1, <1>2, <2>1, <2>2, <2>3
<1>8. \A k, j \in DOMAIN block : k < j => From(k, q) < From(j, q) \/ k = cur
  BY <1>1, <1>2 DEF From
<1>9. QED
  BY <1>4, <1>5, <1>6, <1>7, <1>8

LEMMA ReorderRearranges ==
  ASSUME Scanned, Rearranged, ReorderLoads
  PROVE  Rearranged'
<1> DEFINE how == Conversion(block[NextLoad], block[cur])
<1>1. /\ cur # 0 /\ cur' = cur - 1 /\ block' = block
      /\ order' = MovedBefore(NextLoad, cur)
      /\ block[cur].op = "load" /\ NextLoad # 0
      /\ code' = IF how = "none" THEN code ELSE Replaced(cur, how, NextLoad)
      /\ slot_to_load' = [slot_to_load EXCEPT ![SlotAt(cur)] =
                            IF how = "none" THEN 0 ELSE NextLoad]
  BY DEF ReorderLoads, Reorder, Visiting
<1> HIDE DEF how
<1>2. /\ cur \in DOMAIN block /\ order[cur] = cur
      /\ DOMAIN block = 1..Len(block) /\ Len(block) \in Nat
  BY <1>1, ActionFacts
<1>3. PICK q \in DOMAIN block :
        /\ order[q] = NextLoad /\ cur < q
        /\ \A k \in DOMAIN block : cur < k /\ k < q => ~Writes(order[k], SlotAt(cur))
  BY <1>1, NextPosition
<1>4. Scanned /\ Ordered /\ Kept
  BY DEF Rearranged
<1>5. /\ order' = [k \in DOMAIN block |-> order[From(k, q)]]
      /\ \A k \in DOMAIN block : From(k, q) \in DOMAIN block
      /\ \A k, j \in DOMAIN block : From(k, q) = From(j, q) => k = j
      /\ \A j \in DOMAIN block : \E k \in DOMAIN block : From(k, q) = j
      /\ \A k, j \in DOMAIN block : k < j => From(k, q) < From(j, q) \/ k = cur
  BY <1>1, <1>2, <1>3, <1>4, MovedFacts
<1>6. /\ \A k \in DOMAIN block : order[k] \in DOMAIN block
      /\ \A k, j \in DOMAIN block : order[k] = order[j] => k = j
      /\ \A i \in DOMAIN block : \E k \in DOMAIN block : order[k] = i
      /\ \A k \in DOMAIN block : k <= cur => order[k] = k
  BY <1>4, OrderTypes DEF Ordered
<1>7. From(cur, q) = q /\ From(cur + 1, q) = cur /\ cur + 1 \in DOMAIN block
  BY <1>2, <1>3 DEF From
<1>8. \A k \in DOMAIN block : order'[k] = order[From(k, q)] /\ order'[k] \in DOMAIN block
  BY <1>5, <1>6
<1>9. \A k, j \in DOMAIN block : order'[k] = order'[j] => k = j
  BY <1>5, <1>6, <1>8
<1>10. Ordered'
  <2>1. order' \in Seq(DOMAIN block) /\ Len(order') = Len(block)
    <3>1. order' = [k \in 1..Len(block) |-> order[From(k, q)]]
      BY <1>2, <1>5
    <3>2. \A k \in 1..Len(block) : order[From(k, q)] \in DOMAIN block
      BY <1>2, <1>5, <1>6
    <3>3. QED
      BY <1>2, <3>1, <3>2
  <2>2. ASSUME NEW i \in DOMAIN block
        PROVE  \E k \in DOMAIN block : order'[k] = i
    <3>1. PICK j \in DOMAIN block : order[j] = i
      BY <1>6
    <3>2. PICK k \in DOMAIN block : From(k, q) = j
      BY <1>5
    <3>3. QED
      BY <1>8, <3>1, <3>2
  <2>3. ASSUME NEW k \in DOMAIN block, k <= cur - 1
        PROVE  order'[k] = k
    <3>1. From(k, q) = k /\ k <= cur
      BY <1>2, <2>3 DEF From
    <3>2. QED
      BY <1>6, <1>8, <3>1
  <2>4. QED
    BY <1>1, <1>9, <2>1, <2>2, <2>3 DEF Ordered
<1>11. /\ block[NextLoad].op = "load" /\ code[NextLoad].op = "load"
       /\ NextLoad \in DOMAIN block
  BY <1>1, NextLoadFacts
<1>12. ASSUME NEW p \in DOMAIN block, NEW z \in DOMAIN block,
              UsesResult(code[order'[p]], order'[z])
       PROVE  z < p
  <2>1. From(z, q) < From(p, q)
    BY <1>5, <1>8, <1>12 DEF Rearranged, DefinedFirst
  <2>2. p # cur
    BY <1>3, <1>7, <1>8, <1>11, <1>12 DEF UsesResult
  <2>3. ~(p < z)
    BY <1>2, <1>5, <2>1, <2>2
  <2>4. p # z
    BY <1>2, <1>5, <2>1
  <2>5. QED
    BY <1>2, <2>3, <2>4
<1>13. Kept' /\ DefinedFirst'
  <2>1. CASE how = "none"
    <3>1. DefinedFirst'
      BY <1>1, <1>12, <2>1 DEF DefinedFirst
    <3>2. QED
      BY <1>1, <1>4, <2>1, <3>1 DEF Kept
  <2>2. CASE how # "none"
    <3>1. order'[cur] = NextLoad /\ order'[cur + 1] = cur
      BY <1>2, <1>3, <1>7, <1>8
    <3>2. code' = Replaced(order'[cur + 1], how, order'[cur]) /\ block[order'[cur + 1]].op = "load"
      BY <1>1, <2>2, <3>1
    <3>3. DOMAIN order' = DOMAIN block /\ cur < cur + 1
      BY <1>2, <1>5
    <3>4. PICK o : o = order'
      OBVIOUS
    <3>5. /\ DOMAIN o = DOMAIN block
          /\ \A x, y \in DOMAIN block : o[x] = o[y] => x = y
          /\ \A x, y \in DOMAIN block : UsesResult(code[o[x]], o[y]) => y < x
          /\ \A k \in DOMAIN block : o[k] \in DOMAIN block
          /\ block[o[cur + 1]].op = "load"
          /\ code' = Replaced(o[cur + 1], how, o[cur])
      BY <1>8, <1>9, <1>12, <3>2, <3>3, <3>4
    <3>6. \A a, z \in DOMAIN block : a = cur /\ z = cur + 1 => Kept' /\ DefinedFirst'
      <4> SUFFICES ASSUME NEW a \in DOMAIN block, NEW z \in DOMAIN block,
                          a = cur, z = cur + 1
                   PROVE  Kept' /\ DefinedFirst'
        OBVIOUS
      <4>1. a < z
        BY <1>2
      <4>2. code' = Replaced(o[z], how, o[a]) /\ block[o[z]].op = "load"
        BY <3>5
      <4>3. QED
        <5>1. PICK h : h = how
          OBVIOUS
        <5>2. /\ block' = block /\ order' = o /\ code' = Replaced(o[z], h, o[a])
              /\ block[o[z]].op = "load" /\ o[z] \in DOMAIN block
          BY <1>1, <3>4, <3>5, <4>2, <5>1
        <5>3. /\ DOMAIN o = DOMAIN block
              /\ \A x, y \in DOMAIN block : o[x] = o[y] => x = y
              /\ \A x, y \in DOMAIN block : UsesResult(code[o[x]], o[y]) => y < x
              /\ \A k \in DOMAIN block : o[k] \in DOMAIN block
          BY <3>5
        <5>4. QED
          BY <1>4, <4>1, <5>2, <5>3, ReplacedKeeps
    <3>7. QED
      BY <1>2, <1>7, <3>6
  <2>3. QED
    BY <2>1, <2>2
<1>14. ASSUME NEW k \in DOMAIN block, NEW z \in DOMAIN block, NEW s \in Slots,
              cur - 1 < k, k < z, order'[z] = slot_to_load'[s]
       PROVE  ~Writes(order'[k], s)
  <2>1. CASE From(k, q) <= cur \/ k = cur
    <3>1. k = cur \/ k = cur + 1
      BY <1>2, <1>14, <2>1 DEF From
    <3>2. block[order'[k]].op = "load"
      BY <1>1, <1>2, <1>3, <1>7, <1>8, <1>11, <3>1
    <3>3. QED
      BY <3>2 DEF Writes
  <2>2. CASE ~(From(k, q) <= cur) /\ k # cur
    <3>1. cur < From(k, q) /\ From(k, q) < From(z, q)
      <4>1. From(k, q) < From(z, q)
        BY <1>5, <1>14, <2>2
      <4>2. From(k, q) \in DOMAIN block
        BY <1>5
      <4>3. QED
        BY <1>2, <2>2, <4>1, <4>2
    <3>2. slot_to_load'[s] = slot_to_load[s]
      <4>1. CASE s = SlotAt(cur)
        <5>1. slot_to_load'[s] \in {0, NextLoad}
          BY <1>1, <4>1 DEF Scanned
        <5>2. order'[z] # 0
          BY <1>2, <1>8
        <5>3. order'[z] = order'[cur]
          BY <1>2, <1>3, <1>7, <1>8, <1>14, <5>1, <5>2
        <5>4. z = cur
          BY <1>2, <1>9, <5>3
        <5>5. QED
          BY <1>2, <1>14, <5>4
      <4>2. CASE s # SlotAt(cur)
        BY <1>1, <4>2 DEF Scanned
      <4>3. QED
        BY <4>1, <4>2
    <3>3. order[From(z, q)] = slot_to_load[s]
      BY <1>8, <1>14, <3>2
    <3>4. ~Writes(order[From(k, q)], s)
      BY <1>5, <3>1, <3>3 DEF Rearranged, NothingInBetween
    <3>5. QED
      BY <1>8, <3>4
  <2>3. QED
    BY <2>1, <2>2
<1>15. \A i, s : Writes(i, s)' <=> Writes(i, s)
  <2>1. \A i : SlotAt(i)' = SlotAt(i)
    BY <1>1 DEF SlotAt
  <2>2. QED
    BY <1>1, <2>1 DEF Writes
<1>16. NothingInBetween'
  BY <1>1, <1>14, <1>15 DEF NothingInBetween
<1>17. QED
  BY <1>10, <1>13, <1>16 DEF Rearranged

-----------------------------------------------------------------------------
(***************************************************************************)
(* The steps of the code as it is.                                         *)
(***************************************************************************)
LEMMA CodeFacts ==
  ASSUME Scanned, Kept, EarlyPointers, NEW i \in DOMAIN block
  PROVE  /\ code[i].op \in Operations
         /\ code[i].op = "load" => code[i].ptr = 0
         /\ code[i].op = "store" => code[i].val = 0 \/ code[i].val \in DOMAIN block
         /\ code[i].op = "use" => code[i].val \in DOMAIN block
         /\ code[i].op \in {"store", "call"} => code[i] = block[i]
<1>1. /\ block \in Blocks /\ DOMAIN block = 1..Len(block) /\ Len(block) \in Nat
      /\ block[i].op \in {"load", "store", "call", "addr"}
  BY BlockTypes DEF Scanned
<1>2. block[i].op = "store" => block[i].val = 0 \/ block[i].val \in DOMAIN block
  <2> SUFFICES ASSUME block[i].op = "store", block[i].val # 0
               PROVE  block[i].val \in DOMAIN block
    OBVIOUS
  <2>1. block[i].val \in Nat /\ block[i].val < i
    BY <1>1, StoredBefore
  <2>2. QED
    BY <1>1, <2>1
<1>3. block[i].op = "load" => block[i].ptr = 0
  BY DEF EarlyPointers
<1>4. \/ code[i] = block[i]
      \/ block[i].op = "load" /\ code[i].op = "use" /\ code[i].val \in DOMAIN block
  BY DEF Kept
<1>5. QED
  BY <1>1, <1>2, <1>3, <1>4 DEF Operations

LEMMA EnvTypes ==
  ASSUME Scanned, Ordered, NEW T, StepsTo(T, code, order, Len(block))
  PROVE  \A k \in 0..Len(block) : DOMAIN T[k].env = DOMAIN block
<1> DEFINE N == Len(block)
           S == {k \in 0..N : DOMAIN T[k].env = DOMAIN block}
<1>1. /\ N \in Nat /\ DOMAIN block = 1..N /\ DOMAIN code = DOMAIN block
      /\ \A k \in 1..N : order[k] \in DOMAIN block
  BY OrderTypes
<1>2. T[0] = Before(code) /\ \A k \in 1..N : T[k] = Execute(T[k - 1], order[k], code[order[k]])
  BY <1>1, StepFacts
<1>3. 0 \in S
  BY <1>1, <1>2 DEF Before
<1>4. ASSUME NEW k \in 0..N, k < N, k \in S
      PROVE  k + 1 \in S
  <2>1. k + 1 \in 1..N /\ (k + 1) - 1 = k
    BY <1>1, <1>4
  <2>2. T[k + 1] = Execute(T[k], order[k + 1], code[order[k + 1]])
    BY <1>2, <2>1
  <2>3. DOMAIN T[k].env = DOMAIN block /\ order[k + 1] \in DOMAIN block
    BY <1>1, <1>4, <2>1
  <2>4. DOMAIN T[k + 1].env = DOMAIN block
    BY <2>2, <2>3, Executed
  <2>5. QED
    BY <1>1, <2>1, <2>4
<1> HIDE DEF S
<1>5. \A k \in 0..N : k \in S
  BY <1>1, <1>3, <1>4, Reaching
<1>6. QED
  BY <1>5 DEF S

\* A result stays what it is while its instruction is not executed.
LEMMA ResultStays ==
  ASSUME Scanned, Ordered, NEW T, StepsTo(T, code, order, Len(block)),
         NEW j \in DOMAIN block, NEW p \in 0..Len(block), NEW q \in 0..Len(block), p <= q,
         \A k \in 1..Len(block) : p < k /\ k <= q => order[k] # j
  PROVE  T[q].env[j] = T[p].env[j]
<1> DEFINE N == Len(block)
           S == {k \in 0..N : T[k].env[j] = T[p].env[j]}
<1>1. /\ N \in Nat /\ DOMAIN block = 1..N
      /\ \A k \in 1..N : order[k] \in DOMAIN block
  BY OrderTypes
<1>2. /\ T[0] = Before(code)
      /\ \A k \in 1..N : T[k] = Execute(T[k - 1], order[k], code[order[k]])
  BY <1>1, StepFacts
<1>3. ASSUME NEW k \in p..q, k < q, k \in S
      PROVE  k + 1 \in S
  <2>1. /\ k + 1 \in 1..N /\ (k + 1) - 1 = k /\ p < k + 1 /\ k + 1 <= q
        /\ k \in 0..N
    BY <1>1, <1>3
  <2>2. T[k + 1] = Execute(T[k], order[k + 1], code[order[k + 1]])
    BY <1>2, <2>1
  <2>3. DOMAIN T[k].env = DOMAIN block /\ order[k + 1] \in DOMAIN block
    BY <1>1, <2>1, EnvTypes
  <2>4. T[k + 1].env[j] = T[k].env[j]
    BY <2>1, <2>2, <2>3, Executed
  <2>5. QED
    BY <1>1, <1>3, <2>1, <2>4
<1>4. p \in S /\ p \in Nat /\ q \in Nat
  BY <1>1
<1> HIDE DEF S
<1>5. \A k \in p..q : k \in S
  BY <1>3, <1>4, Reaching
<1>6. q \in p..q
  BY <1>4
<1>7. QED
  BY <1>5, <1>6 DEF S

\* What an instruction does not write to, stays in State.
LEMMA NotWritten ==
  ASSUME Scanned, Kept, InSlots, EarlyPointers, NEW i \in DOMAIN block, NEW b \in Bytes,
         ~Writes(i, SlotOf[b]), NEW s
  PROVE  Memory(s, i, code[i])[b] = s.mem[b]
<1>1. /\ code[i].op \in Operations
      /\ code[i].op \in {"store", "call"} => code[i] = block[i]
  BY CodeFacts
<1>2. CASE code[i].op = "store"
  <2>1. code[i] = block[i] /\ SlotAt(i) # SlotOf[b]
    BY <1>1, <1>2 DEF Writes
  <2>2. b \notin BytesOf(i)
    BY <1>2, <2>1 DEF InSlots
  <2>3. ~(code[i].at <= b /\ b < code[i].at + code[i].size)
    BY <2>1, <2>2 DEF BytesOf
  <2>4. QED
    BY <1>2, <2>3 DEF Memory
<1>3. CASE code[i].op = "call"
  <2>1. code[i] = block[i] /\ SlotOf[b] \notin ChangedByCall(code[i])
    BY <1>1, <1>3 DEF Writes
  <2>2. QED
    BY <1>3, <2>1 DEF Memory, ChangedBytes
<1>4. CASE code[i].op \in {"load", "addr", "use"}
  BY <1>4 DEF Memory
<1>5. QED
  BY <1>1, <1>2, <1>3, <1>4 DEF Operations

LEMMA MemoryStays ==
  ASSUME Scanned, Ordered, Kept, InSlots, EarlyPointers,
         NEW T, StepsTo(T, code, order, Len(block)),
         NEW b \in Bytes, NEW p \in 0..Len(block), NEW q \in 0..Len(block), p <= q,
         \A k \in 1..Len(block) : p < k /\ k <= q => ~Writes(order[k], SlotOf[b])
  PROVE  \A k \in p..q : T[k].mem[b] = T[p].mem[b]
<1> DEFINE N == Len(block)
           S == {k \in 0..N : T[k].mem[b] = T[p].mem[b]}
<1>1. /\ N \in Nat /\ DOMAIN block = 1..N
      /\ \A k \in 1..N : order[k] \in DOMAIN block
  BY OrderTypes
<1>2. /\ T[0] = Before(code)
      /\ \A k \in 1..N : T[k] = Execute(T[k - 1], order[k], code[order[k]])
  BY <1>1, StepFacts
<1>3. ASSUME NEW k \in p..q, k < q, k \in S
      PROVE  k + 1 \in S
  <2>1. /\ k + 1 \in 1..N /\ (k + 1) - 1 = k /\ p < k + 1 /\ k + 1 <= q
        /\ k \in 0..N
    BY <1>1, <1>3
  <2>2. T[k + 1] = Execute(T[k], order[k + 1], code[order[k + 1]])
    BY <1>2, <2>1
  <2>3. /\ order[k + 1] \in DOMAIN block /\ ~Writes(order[k + 1], SlotOf[b])
        /\ DOMAIN T[k].env = DOMAIN block
    BY <1>1, <2>1, EnvTypes
  <2>4. T[k + 1].mem = Memory(T[k], order[k + 1], code[order[k + 1]])
    BY <2>2, <2>3, Executed
  <2>5. T[k + 1].mem[b] = T[k].mem[b]
    BY <2>3, <2>4, NotWritten
  <2>6. QED
    BY <1>1, <1>3, <2>1, <2>5
<1>4. p \in S /\ p \in Nat /\ q \in Nat
  BY <1>1
<1> HIDE DEF S
<1>5. \A k \in p..q : k \in S
  BY <1>3, <1>4, Reaching
<1>6. QED
  BY <1>5 DEF S

LEMMA SameRun ==
  ASSUME NEW c, NEW o, NEW d, NEW m, NEW N \in Nat, Len(o) = N, Len(m) = N,
         NEW T, NEW U, StepsTo(T, c, o, N), StepsTo(U, d, m, N), U[N] = T[N]
  PROVE  Run(d, m) = Run(c, o)
<1>1. Run(c, o) = T[N]
  BY RunIsLastStep
<1>2. Run(d, m) = U[N]
  BY RunIsLastStep
<1>3. QED
  BY <1>1, <1>2

LEMMA Loaded ==
  ASSUME NEW s, NEW n, NEW c, c.op = "load", c.ptr = 0
  PROVE  /\ Value(s, n, c) = [b \in 1..c.size |-> s.mem[c.at + b - 1]]
         /\ Execute(s, n, c) = WithResult(s, n, Value(s, n, c))
<1>1. Value(s, n, c) = [b \in 1..c.size |-> s.mem[c.at + b - 1]]
  BY DEF Value
<1>2. Memory(s, n, c) = s.mem
  BY DEF Memory
<1>3. QED
  BY <1>1, <1>2 DEF Execute, WithResult

LEMMA UseForLoad ==
  ASSUME NEW s, NEW n, NEW c, NEW u, c.op = "load", c.ptr = 0,
         u.op = "use", u.size = c.size, u.how # "fptrunc",
         \A b \in 1..c.size : ByteOf(s.env[u.val], b) = s.mem[c.at + b - 1]
  PROVE  Execute(s, n, u) = Execute(s, n, c)
<1>1. Value(s, n, u) = [b \in 1..c.size |-> ByteOf(s.env[u.val], b)]
  BY DEF Value, Converted
<1>2. Value(s, n, c) = [b \in 1..c.size |-> s.mem[c.at + b - 1]]
  BY Loaded
<1>3. Value(s, n, u) = Value(s, n, c)
  BY <1>1, <1>2
<1>4. Memory(s, n, u) = s.mem /\ Memory(s, n, c) = s.mem
  BY DEF Memory
<1>5. QED
  BY <1>3, <1>4 DEF Execute

LEMMA Conversions ==
  ASSUME NEW a, NEW b, a.size \in Nat, b.size \in Nat, Conversion(a, b) # "none",
         a.kind = "fp" /\ b.kind = "fp" => a.size = b.size
  PROVE  b.size <= a.size /\ Conversion(a, b) # "fptrunc"
<1>1. CASE a.size = b.size
  BY <1>1 DEF Conversion
<1>2. CASE b.size < a.size
  BY <1>2 DEF Conversion
<1>3. CASE a.size < b.size
  BY <1>3 DEF Conversion
<1>4. QED
  BY <1>1, <1>2, <1>3

\* The load at the position z is replaced by a result with the same bytes.
LEMMA StepsWithUse ==
  ASSUME NEW c, NEW o, NEW N \in Nat, NEW T, StepsTo(T, c, o, N),
         \A k \in 1..N : o[k] \in DOMAIN c,
         \A x, y \in 1..N : o[x] = o[y] => x = y,
         NEW z \in 1..N, c[o[z]].op = "load", c[o[z]].ptr = 0,
         NEW u, u.op = "use", u.size = c[o[z]].size, u.how # "fptrunc",
         \A b \in 1..c[o[z]].size :
           ByteOf(T[z - 1].env[u.val], b) = T[z - 1].mem[c[o[z]].at + b - 1]
  PROVE  StepsTo(T, [c EXCEPT ![o[z]] = u], o, N)
<1> DEFINE d == [c EXCEPT ![o[z]] = u]
<1>1. /\ DOMAIN d = DOMAIN c /\ d[o[z]] = u
      /\ \A i \in DOMAIN c : i # o[z] => d[i] = c[i]
  OBVIOUS
<1> HIDE DEF d
<1>2. Execute(T[z - 1], o[z], u) = Execute(T[z - 1], o[z], c[o[z]])
  BY UseForLoad
<1>3. Execute(T[z - 1], o[z], d[o[z]]) = Execute(T[z - 1], o[z], c[o[z]])
  BY <1>1, <1>2
<1>4. \A k \in 1..N : k # z => d[o[k]] = c[o[k]]
  BY <1>1
<1>5. StepsTo(T, d, o, N)
  BY <1>1, <1>3, <1>4, StepsWithReplaced
<1>6. QED
  BY <1>5 DEF d

LEMMA AccessBytes ==
  ASSUME block \in Blocks, InSlots, NEW i \in DOMAIN block,
         block[i].op \in {"load", "store"}
  PROVE  /\ block[i].at \in Nat /\ block[i].size \in Nat
         /\ \A b \in 1..block[i].size :
              block[i].at + b - 1 \in Bytes /\ SlotOf[block[i].at + b - 1] = SlotAt(i)
<1>1. block \in Seq(Instructions)
      /\ block[i].at .. block[i].at + block[i].size - 1 \subseteq Bytes
  BY BlocksAssumption DEF Bytes
<1>2. block[i] \in Instructions
  BY <1>1
<1>3. block[i].at \in Nat /\ block[i].size \in Nat
  BY <1>2 DEF Instructions
<1>4. ASSUME NEW b \in 1..block[i].size
      PROVE  block[i].at + b - 1 \in BytesOf(i)
  <2>1. /\ block[i].at + b - 1 \in block[i].at .. block[i].at + block[i].size - 1
        /\ block[i].at <= block[i].at + b - 1
        /\ block[i].at + b - 1 < block[i].at + block[i].size
    BY <1>3
  <2>2. QED
    BY <1>1, <2>1 DEF BytesOf
<1>5. BytesOf(i) \subseteq Bytes
  BY DEF BytesOf
<1>6. \A b \in BytesOf(i) : SlotOf[b] = SlotAt(i)
  BY DEF InSlots
<1>7. QED
  BY <1>3, <1>4, <1>5, <1>6

\* The access that is visited, and the load that it may serve.
LEMMA Pair ==
  ASSUME Scanned, Rearranged, InSlots, EarlyPointers, cur # 0,
         block[cur].op \in {"load", "store"}, NextLoad # 0
  PROVE  \E n, q \in DOMAIN block :
           /\ n = NextLoad /\ order[q] = n /\ cur < q
           /\ \A k \in DOMAIN block : cur < k /\ k < q => ~Writes(order[k], SlotAt(cur))
           /\ block[n].op = "load" /\ code[n] = block[n] /\ block[n].ptr = 0
           /\ block[n].at = block[cur].at /\ block[n].size \in Nat /\ block[cur].size \in Nat
           /\ block[cur].at \in Nat
           /\ \A b \in 1..block[n].size : /\ block[n].at + b - 1 \in Bytes
                                          /\ SlotOf[block[n].at + b - 1] = SlotAt(cur)
<1>1. PICK n \in DOMAIN block : n = NextLoad
  BY NextLoadFacts
<1>2. PICK q \in DOMAIN block :
        /\ order[q] = n /\ cur < q
        /\ \A k \in DOMAIN block : cur < k /\ k < q => ~Writes(order[k], SlotAt(cur))
  BY <1>1, NextPosition
<1>3. block[n].op = "load" /\ code[n].op = "load" /\ SlotAt(n) = SlotAt(cur)
  BY <1>1, NextLoadFacts
<1>4. code[n] = block[n]
  BY <1>3 DEF Rearranged, Kept
<1>5. block[n].ptr = 0
  BY <1>3 DEF EarlyPointers
<1>6. block[n].at = block[cur].at
  BY <1>1 DEF NextLoad
<1>7. block \in Blocks /\ cur \in DOMAIN block
  BY ActionFacts DEF Scanned
<1>8. /\ block[n].size \in Nat
      /\ \A b \in 1..block[n].size : /\ block[n].at + b - 1 \in Bytes
                                     /\ SlotOf[block[n].at + b - 1] = SlotAt(n)
  BY <1>3, <1>7, AccessBytes
<1>9. block[cur].at \in Nat /\ block[cur].size \in Nat
  BY <1>7, AccessBytes
<1>10. QED
  BY <1>1, <1>2, <1>3, <1>4, <1>5, <1>6, <1>8, <1>9

(***************************************************************************)
(* The result val, that is there when the access has been executed, has    *)
(* the bytes that the next load reads: it can replace it.                  *)
(***************************************************************************)
LEMMA ReplacingKeepsRun ==
  ASSUME Scanned, Rearranged, InSlots, EarlyPointers, cur # 0,
         block[cur].op \in {"load", "store"},
         NEW n \in DOMAIN block, n = NextLoad, NextLoad # 0,
         NEW T, StepsTo(T, code, order, Len(block)),
         NEW val \in DOMAIN block, val <= cur, NEW how, how # "fptrunc",
         \A b \in 1..block[n].size :
           ByteOf(T[cur].env[val], b) = T[cur].mem[block[n].at + b - 1]
  PROVE  Run(Replaced(n, how, val), order) = Run(code, order)
<1>1. /\ Len(block) \in Nat /\ DOMAIN block = 1..Len(block)
      /\ DOMAIN order = DOMAIN block /\ DOMAIN code = DOMAIN block
      /\ \A k \in DOMAIN block : order[k] \in DOMAIN block
  BY OrderTypes DEF Rearranged
<1>2. cur \in DOMAIN block
  BY ActionFacts
<1>3. PICK q \in DOMAIN block :
           /\ order[q] = n /\ cur < q
           /\ \A k \in DOMAIN block : cur < k /\ k < q => ~Writes(order[k], SlotAt(cur))
           /\ block[n].op = "load" /\ code[n] = block[n] /\ block[n].ptr = 0
           /\ block[n].size \in Nat
           /\ \A b \in 1..block[n].size : /\ block[n].at + b - 1 \in Bytes
                                          /\ SlotOf[block[n].at + b - 1] = SlotAt(cur)
  BY Pair
<1>4. /\ q - 1 \in 0..Len(block) /\ cur \in 0..Len(block) /\ cur <= q - 1 /\ q - 1 \in cur..q - 1
      /\ \A k \in 1..Len(block) : cur < k /\ k <= q - 1 => k \in DOMAIN block /\ k < q
  BY <1>1, <1>2, <1>3
<1>5. Scanned /\ Ordered /\ Kept
  BY DEF Rearranged
<1>6. ASSUME NEW b \in 1..block[n].size
      PROVE  T[q - 1].mem[block[n].at + b - 1] = T[cur].mem[block[n].at + b - 1]
  <2>1. PICK o \in Bytes : o = block[n].at + b - 1
    BY <1>3
  <2>2. SlotOf[o] = SlotAt(cur)
    BY <1>3, <2>1
  <2>3. \A k \in 1..Len(block) : cur < k /\ k <= q - 1 => ~Writes(order[k], SlotOf[o])
    BY <1>3, <1>4, <2>2
  <2>4. \A k \in cur..q - 1 : T[k].mem[o] = T[cur].mem[o]
    BY <1>4, <1>5, <2>3, MemoryStays
  <2>5. T[q - 1].mem[o] = T[cur].mem[o]
    BY <1>4, <2>4
  <2>6. QED
    BY <2>1, <2>5
<1>7. T[q - 1].env[val] = T[cur].env[val]
  <2>1. ASSUME NEW k \in 1..Len(block), cur < k
        PROVE  order[k] # val
    <3>1. order[val] = val
      BY <1>5 DEF Ordered
    <3>2. k # val
      BY <1>1, <1>2, <2>1
    <3>3. QED
      BY <1>1, <1>5, <2>1, <3>1, <3>2 DEF Ordered
  <2>2. QED
    BY <1>4, <1>5, <2>1, ResultStays
<1> DEFINE u == [op |-> "use", how |-> how, val |-> val,
                 size |-> block[n].size, kind |-> block[n].kind]
<1>8. Replaced(n, how, val) = [code EXCEPT ![order[q]] = u]
  <2>1. code[n] = block[n] /\ order[q] = n
    BY <1>3
  <2>2. QED
    BY <2>1 DEF Replaced
<1>9. /\ u.op = "use" /\ u.how # "fptrunc" /\ u.val = val /\ u.size = block[n].size
  OBVIOUS
<1> HIDE DEF u
<1>10. StepsTo(T, [code EXCEPT ![order[q]] = u], order, Len(block))
  <2>1. PICK c, o, N : c = code /\ o = order /\ N = Len(block)
    OBVIOUS
  <2>2. /\ N \in Nat /\ StepsTo(T, c, o, N) /\ q \in 1..N
        /\ \A k \in 1..N : o[k] \in DOMAIN c
        /\ \A x, y \in 1..N : o[x] = o[y] => x = y
    <3>1. StepsTo(T, c, o, N)
      BY <2>1
    <3>2. N \in Nat /\ q \in 1..N /\ \A k \in 1..N : o[k] \in DOMAIN c
      BY <1>1, <2>1
    <3>3. \A x, y \in DOMAIN block : order[x] = order[y] => x = y
      BY <1>5 DEF Ordered
    <3>4. QED
      BY <1>1, <2>1, <3>1, <3>2, <3>3
  <2>3. c[o[q]].op = "load" /\ c[o[q]].ptr = 0 /\ u.size = c[o[q]].size
    BY <1>3, <1>9, <2>1
  <2>4. \A b \in 1..c[o[q]].size :
          ByteOf(T[q - 1].env[u.val], b) = T[q - 1].mem[c[o[q]].at + b - 1]
    BY <1>3, <1>6, <1>7, <1>9, <2>1
  <2>5. StepsTo(T, [c EXCEPT ![o[q]] = u], o, N)
    BY <1>9, <2>2, <2>3, <2>4, StepsWithUse
  <2>6. QED
    BY <2>1, <2>5
<1>11. Len(order) = Len(block)
  BY <1>5 DEF Ordered
<1>12. QED
  BY <1>1, <1>8, <1>10, <1>11, SameRun

LEMMA StoreKeepsRun ==
  ASSUME Scanned, Rearranged, InSlots, OneFloat, EarlyPointers, VisitStore
  PROVE  Run(code', order') = Run(code, order)
<1>1. /\ cur # 0 /\ block[cur].op = "store" /\ order' = order
      /\ code' = IF StoreServes = "none" THEN code
                 ELSE Replaced(NextLoad, StoreServes, StoredValue(cur))
  BY DEF VisitStore, ForwardStore, Visiting
<1> SUFFICES ASSUME StoreServes # "none"
             PROVE  Run(Replaced(NextLoad, StoreServes, StoredValue(cur)), order)
                      = Run(code, order)
  BY <1>1
<1>2. NextLoad # 0 /\ StoreServes = Conversion(block[cur], block[NextLoad])
  BY DEF StoreServes
<1>3. PICK n \in DOMAIN block :
           /\ n = NextLoad /\ block[n].op = "load" /\ block[n].at = block[cur].at
           /\ block[n].size \in Nat /\ block[cur].size \in Nat /\ block[cur].at \in Nat
           /\ \A b \in 1..block[n].size : block[n].at + b - 1 \in Bytes
  BY <1>1, <1>2, Pair
<1>4. /\ cur \in DOMAIN block /\ DOMAIN block = 1..Len(block) /\ Len(block) \in Nat
      /\ order[cur] = cur /\ code[cur] = block[cur] /\ block \in Blocks
  BY <1>1, ActionFacts DEF Scanned
<1>5. block[n].size <= block[cur].size /\ StoreServes # "fptrunc"
  <2>1. block[cur].kind = "fp" /\ block[n].kind = "fp" => block[cur].size = block[n].size
    BY <1>1, <1>3, <1>4 DEF OneFloat
  <2>2. QED
    BY <1>2, <1>3, <2>1, Conversions
<1>6. PICK T : StepsTo(T, code, order, Len(block))
  BY <1>4, StepsExist
<1>7. T[cur] = Execute(T[cur - 1], cur, block[cur])
  <2>1. /\ T[0] = Before(code)
        /\ \A k \in 1..Len(block) : T[k] = Execute(T[k - 1], order[k], code[order[k]])
    BY <1>4, <1>6, StepFacts
  <2>2. cur \in 1..Len(block)
    BY <1>4
  <2>3. QED
    BY <1>4, <2>1, <2>2
<1>8. DOMAIN T[cur - 1].env = DOMAIN block
  <2>1. cur - 1 \in 0..Len(block)
    BY <1>4
  <2>2. QED
    BY <1>6, <2>1, EnvTypes DEF Rearranged
<1> DEFINE V == Value(T[cur - 1], cur, block[cur])
<1>9. /\ T[cur].mem = Memory(T[cur - 1], cur, block[cur])
      /\ T[cur].env[cur] = V
      /\ \A j \in DOMAIN block : j # cur => T[cur].env[j] = T[cur - 1].env[j]
  BY <1>4, <1>7, <1>8, Executed
<1>10. \A o \in Bytes : block[cur].at <= o /\ o < block[cur].at + block[cur].size
                          => T[cur].mem[o] = ByteOf(V, o - block[cur].at + 1)
  BY <1>1, <1>9 DEF Memory
<1>11. /\ StoredValue(cur) \in DOMAIN block /\ StoredValue(cur) <= cur
       /\ T[cur].env[StoredValue(cur)] = V
  <2>1. CASE block[cur].val = 0
    <3>1. StoredValue(cur) = cur
      BY <1>4, <2>1 DEF StoredValue
    <3>2. QED
      BY <1>4, <1>9, <3>1
  <2>2. CASE block[cur].val # 0
    <3>1. StoredValue(cur) = block[cur].val
      BY <1>4, <2>2 DEF StoredValue
    <3>2. block[cur].val \in Nat /\ block[cur].val < cur
      BY <1>1, <1>4, StoredBefore
    <3>3. /\ block[cur].val \in DOMAIN block /\ block[cur].val # cur
          /\ block[cur].val <= cur
      BY <1>4, <2>2, <3>2
    <3>4. V = T[cur - 1].env[block[cur].val]
      BY <1>1, <2>2 DEF Value
    <3>5. QED
      BY <1>9, <3>1, <3>3, <3>4
  <2>3. QED
    BY <2>1, <2>2
<1> HIDE DEF V
<1>12. ASSUME NEW b \in 1..block[n].size
       PROVE  ByteOf(T[cur].env[StoredValue(cur)], b) = T[cur].mem[block[n].at + b - 1]
  <2>1. PICK o \in Bytes : o = block[n].at + b - 1
    BY <1>3
  <2>2. /\ block[cur].at <= o /\ o < block[cur].at + block[cur].size
        /\ o - block[cur].at + 1 = b
    BY <1>3, <1>5, <2>1
  <2>3. T[cur].mem[o] = ByteOf(V, b)
    BY <1>10, <2>2
  <2>4. QED
    BY <1>11, <2>1, <2>3
<1>13. PICK val \in DOMAIN block : val = StoredValue(cur)
  BY <1>11
<1>14. PICK how : how = StoreServes
  OBVIOUS
<1>15. Run(Replaced(n, how, val), order) = Run(code, order)
  BY <1>1, <1>2, <1>3, <1>5, <1>6, <1>11, <1>12, <1>13, <1>14, ReplacingKeepsRun
<1>16. QED
  BY <1>3, <1>13, <1>14, <1>15

LEMMA ForwardLoadKeepsRun ==
  ASSUME Scanned, Rearranged, InSlots, OneFloat, EarlyPointers, ForwardLoad
  PROVE  Run(code', order') = Run(code, order)
<1>1. /\ cur # 0 /\ block[cur].op = "load" /\ order' = order
      /\ NextLoad # 0 /\ block[NextLoad].size <= block[cur].size
  BY DEF ForwardLoad, Visiting
<1>2. PICK how : how = Conversion(block[cur], block[NextLoad])
  OBVIOUS
<1>3. code' = IF how = "none" THEN code ELSE Replaced(NextLoad, how, cur)
  BY <1>2 DEF ForwardLoad
<1> SUFFICES ASSUME how # "none"
             PROVE  Run(Replaced(NextLoad, how, cur), order) = Run(code, order)
  BY <1>1, <1>3
<1>4. PICK n \in DOMAIN block :
           /\ n = NextLoad /\ block[n].op = "load" /\ block[n].at = block[cur].at
           /\ block[n].size \in Nat /\ block[cur].size \in Nat /\ block[cur].at \in Nat
  BY <1>1, Pair
<1>5. /\ cur \in DOMAIN block /\ DOMAIN block = 1..Len(block) /\ Len(block) \in Nat
      /\ order[cur] = cur /\ code[cur] = block[cur] /\ block \in Blocks
  BY <1>1, ActionFacts DEF Scanned
<1>6. how # "fptrunc"
  <2>1. block[cur].kind = "fp" /\ block[n].kind = "fp" => block[cur].size = block[n].size
    BY <1>1, <1>4, <1>5 DEF OneFloat
  <2>2. QED
    BY <1>2, <1>4, <2>1, Conversions
<1>7. PICK T : StepsTo(T, code, order, Len(block))
  BY <1>5, StepsExist
<1>8. T[cur] = Execute(T[cur - 1], cur, block[cur])
  <2>1. /\ T[0] = Before(code)
        /\ \A k \in 1..Len(block) : T[k] = Execute(T[k - 1], order[k], code[order[k]])
    BY <1>5, <1>7, StepFacts
  <2>2. cur \in 1..Len(block)
    BY <1>5
  <2>3. QED
    BY <1>5, <2>1, <2>2
<1>9. DOMAIN T[cur - 1].env = DOMAIN block
  <2>1. cur - 1 \in 0..Len(block)
    BY <1>5
  <2>2. QED
    BY <1>7, <2>1, EnvTypes DEF Rearranged
<1>10. /\ T[cur].mem = T[cur - 1].mem
       /\ T[cur].env[cur] = [b \in 1..block[cur].size |->
                               T[cur - 1].mem[block[cur].at + b - 1]]
  <2>1. block[cur].ptr = 0
    BY <1>1, <1>5 DEF EarlyPointers
  <2>2. T[cur].env[cur] = Value(T[cur - 1], cur, block[cur])
    BY <1>5, <1>8, <1>9, Executed
  <2>3. T[cur].mem = T[cur - 1].mem
    BY <1>1, <1>8 DEF Execute, Memory
  <2>4. Value(T[cur - 1], cur, block[cur])
          = [b \in 1..block[cur].size |-> T[cur - 1].mem[block[cur].at + b - 1]]
    BY <1>1, <2>1 DEF Value
  <2>5. QED
    BY <2>2, <2>3, <2>4
<1>11. ASSUME NEW b \in 1..block[n].size
       PROVE  ByteOf(T[cur].env[cur], b) = T[cur].mem[block[n].at + b - 1]
  <2>1. b \in 1..block[cur].size
    BY <1>1, <1>4
  <2>2. QED
    BY <1>4, <1>10, <2>1 DEF ByteOf
<1>12. PICK val \in DOMAIN block : val = cur /\ val <= cur
  BY <1>5
<1>13. Run(Replaced(n, how, val), order) = Run(code, order)
  BY <1>1, <1>4, <1>6, <1>7, <1>11, <1>12, ReplacingKeepsRun
<1>14. QED
  BY <1>4, <1>12, <1>13

LEMMA ReorderKeepsRun ==
  ASSUME Scanned, Rearranged, InSlots, OneFloat, EarlyPointers, ReorderLoads
  PROVE  Run(code', order') = Run(code, order)
<1>1. /\ cur # 0 /\ block[cur].op = "load" /\ NextLoad # 0
      /\ order' = MovedBefore(NextLoad, cur)
  BY DEF ReorderLoads, Reorder, Visiting
<1>2. PICK how : how = Conversion(block[NextLoad], block[cur])
  OBVIOUS
<1>3. code' = IF how = "none" THEN code ELSE Replaced(cur, how, NextLoad)
  BY <1>2 DEF ReorderLoads, Reorder
<1>4. PICK n, q \in DOMAIN block :
           /\ n = NextLoad /\ order[q] = n /\ cur < q
           /\ \A k \in DOMAIN block : cur < k /\ k < q => ~Writes(order[k], SlotAt(cur))
           /\ block[n].op = "load" /\ code[n] = block[n] /\ block[n].ptr = 0
           /\ block[n].at = block[cur].at /\ block[n].size \in Nat /\ block[cur].size \in Nat
           /\ \A b \in 1..block[n].size : /\ block[n].at + b - 1 \in Bytes
                                          /\ SlotOf[block[n].at + b - 1] = SlotAt(cur)
  BY <1>1, Pair
<1>5. /\ cur \in DOMAIN block /\ DOMAIN block = 1..Len(block) /\ Len(block) \in Nat
      /\ order[cur] = cur /\ code[cur] = block[cur] /\ block \in Blocks
  BY <1>1, ActionFacts DEF Scanned
<1>6. Scanned /\ Ordered /\ Kept
  BY DEF Rearranged
<1>7. /\ Len(order) = Len(block) /\ DOMAIN code = DOMAIN block
      /\ \A k \in DOMAIN block : order[k] \in DOMAIN block
      /\ \A x, y \in DOMAIN block : order[x] = order[y] => x = y
  BY <1>6, OrderTypes DEF Ordered
<1>8. PICK T : StepsTo(T, code, order, Len(block))
  BY <1>5, StepsExist
<1>9. \A k \in 0..Len(block) : DOMAIN T[k].env = DOMAIN block
  BY <1>6, <1>8, EnvTypes
<1>10. PICK v : v = Value(T[q - 1], n, block[n])
  OBVIOUS
\* The load that moves reads the same in front of the other.
<1>11. ASSUME NEW b \in 1..block[n].size
       PROVE  T[q - 1].mem[block[n].at + b - 1] = T[cur - 1].mem[block[n].at + b - 1]
  <2>1. PICK o \in Bytes : o = block[n].at + b - 1
    BY <1>4
  <2>2. SlotOf[o] = SlotAt(cur)
    BY <1>4, <2>1
  <2>3. ~Writes(cur, SlotAt(cur))
    BY <1>1 DEF Writes
  <2>4. ASSUME NEW k \in 1..Len(block), cur - 1 < k, k <= q - 1
        PROVE  ~Writes(order[k], SlotOf[o])
    <3>1. k = cur \/ (cur < k /\ k < q)
      BY <1>5, <2>4
    <3>2. QED
      BY <1>4, <1>5, <2>2, <2>3, <3>1
  <2>5. cur - 1 \in 0..Len(block) /\ q - 1 \in 0..Len(block) /\ cur - 1 <= q - 1
    BY <1>4, <1>5
  <2>6. \A k \in cur - 1..q - 1 : T[k].mem[o] = T[cur - 1].mem[o]
    BY <1>6, <1>8, <2>4, <2>5, MemoryStays
  <2>7. q - 1 \in cur - 1..q - 1
    BY <2>5
  <2>8. T[q - 1].mem[o] = T[cur - 1].mem[o]
    BY <2>6, <2>7
  <2>9. QED
    BY <2>1, <2>8
<1>12. /\ v = [b \in 1..block[n].size |-> T[cur - 1].mem[block[n].at + b - 1]]
       /\ Value(T[cur - 1], n, block[n]) = v
  <2>1. /\ v = [b \in 1..block[n].size |-> T[q - 1].mem[block[n].at + b - 1]]
        /\ Value(T[cur - 1], n, block[n])
             = [b \in 1..block[n].size |-> T[cur - 1].mem[block[n].at + b - 1]]
    BY <1>4, <1>10 DEF Value
  <2>2. QED
    BY <1>11, <2>1
<1>13. /\ Execute(T[cur - 1], n, code[n]) = WithResult(T[cur - 1], n, v)
       /\ Execute(T[q - 1], n, code[n]) = WithResult(T[q - 1], n, v)
  <2>1. \A s : Execute(s, n, block[n]) = WithResult(s, n, Value(s, n, block[n]))
    BY <1>4, Loaded
  <2>2. QED
    BY <1>4, <1>10, <1>12, <2>1
\* Those in between do not use it yet.
<1>14. ASSUME NEW k \in 1..Len(block), cur <= k, k < q
       PROVE  Execute(WithResult(T[k - 1], n, v), order[k], code[order[k]])
                = WithResult(Execute(T[k - 1], order[k], code[order[k]]), n, v)
  <2>1. PICK i \in DOMAIN block : i = order[k]
    BY <1>5, <1>7
  <2>2. i # n
    BY <1>4, <1>5, <1>7, <1>14, <2>1
  <2>3. ~UsesResult(code[i], n)
    <3>1. k \in DOMAIN block /\ ~(q < k)
      BY <1>4, <1>5, <1>14
    <3>2. UsesResult(code[order[k]], order[q]) => q < k
      BY <3>1 DEF Rearranged, DefinedFirst
    <3>3. QED
      BY <1>4, <2>1, <3>1, <3>2
  <2>4. /\ code[i].op \in Operations
        /\ code[i].op = "load" => code[i].ptr = 0
        /\ code[i].op = "store" => code[i].val = 0 \/ code[i].val \in DOMAIN block
        /\ code[i].op = "use" => code[i].val \in DOMAIN block
    BY <1>6, CodeFacts
  <2>5. DOMAIN T[k - 1].env = DOMAIN block
    BY <1>5, <1>9
  <2>6. PICK s, c : s = T[k - 1] /\ c = code[i]
    OBVIOUS
  <2>7. /\ i # n /\ i \in DOMAIN s.env /\ c.op \in Operations
        /\ c.op = "load" => c.ptr = 0
        /\ c.op = "store" => c.val = 0 \/ (c.val \in DOMAIN s.env /\ c.val # n)
        /\ c.op = "use" => c.val \in DOMAIN s.env /\ c.val # n
    BY <2>2, <2>3, <2>4, <2>5, <2>6 DEF UsesResult
  <2>8. Execute(WithResult(s, n, v), i, c) = WithResult(Execute(s, i, c), n, v)
    BY <2>7, Commute
  <2>9. QED
    BY <2>1, <2>6, <2>8
<1>15. PICK c, o, m, N, p : /\ c = code /\ o = order /\ m = order' /\ N = Len(block)
                            /\ p = cur
  OBVIOUS
<1>16. /\ m = [k \in DOMAIN block |-> order[From(k, q)]]
       /\ \A k \in DOMAIN block : From(k, q) \in DOMAIN block
       /\ \A k, j \in DOMAIN block : From(k, q) = From(j, q) => k = j
  BY <1>1, <1>4, <1>5, <1>6, <1>15, MovedFacts
<1>17. \A k \in 1..N : m[k] = IF k = p THEN n
                              ELSE IF p < k /\ k <= q THEN o[k - 1] ELSE o[k]
  BY <1>4, <1>5, <1>15, <1>16 DEF From
<1> DEFINE U == MovedSteps(T, N, p, q, n, v)
<1>18. StepsTo(U, c, m, N) /\ U[N] = T[N]
  <2>1. /\ N \in Nat /\ StepsTo(T, c, o, N) /\ p \in 1..N /\ q \in 1..N /\ p <= q
        /\ n = o[q]
    BY <1>4, <1>5, <1>8, <1>15
  <2>2. /\ Execute(T[p - 1], n, c[n]) = WithResult(T[p - 1], n, v)
        /\ Execute(T[q - 1], n, c[n]) = WithResult(T[q - 1], n, v)
    BY <1>13, <1>15
  <2>3. \A k \in 1..N : p <= k /\ k < q =>
           Execute(WithResult(T[k - 1], n, v), o[k], c[o[k]])
             = WithResult(Execute(T[k - 1], o[k], c[o[k]]), n, v)
    BY <1>14, <1>15
  <2>4. Unnoticed(T, c, o, m, N, p, q, n, v)
    BY <1>17, <2>1, <2>2, <2>3, Zenon DEF Unnoticed
  <2>5. QED
    BY <2>4, StepsWithMoved
<1>19. Len(m) = N
  BY <1>5, <1>15, <1>16
<1>20. CASE how = "none"
  BY <1>3, <1>5, <1>7, <1>8, <1>15, <1>18, <1>19, <1>20, SameRun
<1>21. CASE how # "none"
  <2>1. block[cur].size <= block[n].size /\ how # "fptrunc"
    <3>1. block[n].kind = "fp" /\ block[cur].kind = "fp" => block[n].size = block[cur].size
      BY <1>1, <1>4, <1>5 DEF OneFloat
    <3>2. QED
      BY <1>2, <1>4, <1>21, <3>1, Conversions
  <2>2. PICK z \in 1..N : z = cur + 1 /\ m[z] = p
    <3>1. cur + 1 \in DOMAIN block /\ From(cur + 1, q) = cur
      BY <1>4, <1>5 DEF From
    <3>2. QED
      BY <1>5, <1>15, <1>16, <3>1
  <2>3. U[z - 1] = WithResult(T[cur - 1], n, v)
    <3>1. z - 1 \in 0..N /\ p <= z - 1 /\ z - 1 <= q /\ (z - 1) - 1 = cur - 1
      BY <1>4, <1>5, <1>15, <2>2
    <3>2. QED
      BY <3>1 DEF MovedSteps
  <2> HIDE DEF U
  <2>4. U[z - 1].mem = T[cur - 1].mem /\ U[z - 1].env[n] = v
    <3>1. cur - 1 \in 0..Len(block)
      BY <1>5
    <3>2. n \in DOMAIN T[cur - 1].env
      BY <1>9, <3>1
    <3>3. QED
      BY <2>3, <3>2 DEF WithResult
  <2>5. ASSUME NEW b \in 1..block[cur].size
        PROVE  ByteOf(U[z - 1].env[n], b) = U[z - 1].mem[block[cur].at + b - 1]
    <3>1. b \in 1..block[n].size
      BY <1>4, <2>1
    <3>2. QED
      BY <1>4, <1>12, <2>4, <3>1 DEF ByteOf
  <2> DEFINE u == [op |-> "use", how |-> how, val |-> n,
                   size |-> block[cur].size, kind |-> block[cur].kind]
  <2>6. code' = [c EXCEPT ![m[z]] = u]
    BY <1>3, <1>4, <1>5, <1>15, <1>21, <2>2 DEF Replaced
  <2>7. u.op = "use" /\ u.how # "fptrunc" /\ u.val = n /\ u.size = block[cur].size
    BY <2>1
  <2> HIDE DEF u
  <2>8. /\ c[m[z]].op = "load" /\ c[m[z]].ptr = 0 /\ u.size = c[m[z]].size
        /\ \A b \in 1..c[m[z]].size :
             ByteOf(U[z - 1].env[u.val], b) = U[z - 1].mem[c[m[z]].at + b - 1]
    <3>1. c[m[z]] = block[cur] /\ block[cur].ptr = 0
      BY <1>1, <1>5, <1>15, <2>2 DEF EarlyPointers
    <3>2. QED
      BY <1>1, <2>5, <2>7, <3>1
  <2>9. /\ \A k \in 1..N : m[k] \in DOMAIN c
        /\ \A x, y \in 1..N : m[x] = m[y] => x = y
    <3>1. 1..N = DOMAIN block /\ DOMAIN c = DOMAIN block
      BY <1>5, <1>7, <1>15
    <3>2. \A k \in DOMAIN block : m[k] = order[From(k, q)]
      BY <1>16
    <3>3. QED
      BY <1>7, <1>16, <3>1, <3>2
  <2>10. StepsTo(U, [c EXCEPT ![m[z]] = u], m, N)
    <3>1. N \in Nat
      BY <1>5, <1>15
    <3>2. QED
      BY <1>18, <2>7, <2>8, <2>9, <3>1, StepsWithUse
  <2>11. PICK d : d = code'
    OBVIOUS
  <2>12. StepsTo(U, d, m, N) /\ StepsTo(T, c, o, N) /\ Len(o) = N /\ N \in Nat
    BY <1>5, <1>7, <1>8, <1>15, <2>6, <2>10, <2>11
  <2>13. Run(d, m) = Run(c, o)
    BY <1>18, <1>19, <2>12, SameRun
  <2>14. QED
    BY <1>15, <2>11, <2>13
<1>22. QED
  BY <1>20, <1>21

LEMMA RearrangedInitially ==
  ASSUME ForwardInit
  PROVE  Rearranged /\ SameMeaning
<1>1. /\ block \in Blocks /\ code = block /\ cur = Len(block)
      /\ order = [i \in DOMAIN block |-> i]
  BY DEF ForwardInit
<1>2. Len(block) \in Nat /\ DOMAIN block = 1..Len(block)
  BY <1>1, BlockTypes
<1>3. \A k \in DOMAIN block : order[k] = k
  BY <1>1
<1>4. Ordered
  <2>1. order \in Seq(DOMAIN block) /\ Len(order) = Len(block)
    <3>1. order = [k \in 1..Len(block) |-> k]
      BY <1>1, <1>2
    <3>2. QED
      BY <1>2, <3>1
  <2>2. QED
    BY <1>3, <2>1 DEF Ordered
<1>5. Kept
  BY <1>1 DEF Kept
<1>6. DefinedFirst
  <2> SUFFICES ASSUME NEW p \in DOMAIN block, NEW q \in DOMAIN block,
                      UsesResult(code[order[p]], order[q])
               PROVE  q < p
    BY DEF DefinedFirst
  <2>1. UsesResult(block[p], q)
    BY <1>1, <1>3
  <2>2. block[p].op \in {"load", "store", "call", "addr"}
    BY <1>1, BlockTypes
  <2>3. block[p].op = "store" /\ block[p].val = q
    BY <2>1, <2>2 DEF UsesResult
  <2>4. QED
    BY <1>1, <2>3, StoredBefore
<1>7. NothingInBetween
  <2>1. \A k \in DOMAIN block : ~(cur < k)
    BY <1>1, <1>2
  <2>2. QED
    BY <2>1 DEF NothingInBetween
<1>8. SameMeaning
  BY <1>1 DEF SameMeaning
<1>9. QED
  BY <1>4, <1>5, <1>6, <1>7, <1>8 DEF Rearranged

LEMMA MeaningStays ==
  ASSUME Scanned, Rearranged, SameMeaning, ForwardNext
  PROVE  SameMeaning'
<1>1. block' = block
  BY DEF ForwardNext, SkipInstruction, VisitCall, VisitStore, ForwardStore,
         VisitFirstLoad, ForwardLoad, ReorderLoads, Reorder, Visiting
<1>2. /\ InSlots' <=> InSlots
      /\ OneFloat' <=> OneFloat
      /\ EarlyPointers' <=> EarlyPointers
  <2>1. \A i : SlotAt(i)' = SlotAt(i) /\ BytesOf(i)' = BytesOf(i)
    BY <1>1 DEF SlotAt, BytesOf
  <2>2. InSlots' <=> InSlots
    BY <1>1, <2>1 DEF InSlots
  <2>3. QED
    BY <1>1, <2>2 DEF OneFloat, EarlyPointers
<1> SUFFICES ASSUME InSlots, OneFloat, EarlyPointers
             PROVE  Run(code', order') = Run(block, [i \in DOMAIN block |-> i])
  BY <1>1, <1>2 DEF SameMeaning
<1>3. Run(code, order) = Run(block, [i \in DOMAIN block |-> i])
  BY DEF SameMeaning
<1>4. Run(code', order') = Run(code, order)
  <2>1. CASE SkipInstruction
    <3>1. code' = code /\ order' = order
      BY <2>1 DEF SkipInstruction
    <3>2. QED
      BY <3>1
  <2>2. CASE VisitCall
    <3>1. code' = code /\ order' = order
      BY <2>2 DEF VisitCall
    <3>2. QED
      BY <3>1
  <2>3. CASE VisitStore
    BY <2>3, StoreKeepsRun
  <2>4. CASE VisitFirstLoad
    <3>1. code' = code /\ order' = order
      BY <2>4 DEF VisitFirstLoad
    <3>2. QED
      BY <3>1
  <2>5. CASE ForwardLoad
    BY <2>5, ForwardLoadKeepsRun
  <2>6. CASE ReorderLoads
    BY <2>6, ReorderKeepsRun
  <2>7. QED
    BY <2>1, <2>2, <2>3, <2>4, <2>5, <2>6 DEF ForwardNext
<1>5. QED
  BY <1>3, <1>4

(***************************************************************************)
(* ForwardingBlockVisitor changes nothing that a block does, at any step   *)
(* of its scan: for every layout of State, and for blocks of every length, *)
(* where no access reaches into the next slot, floats are of one size and  *)
(* pointers are computed before the block.  MCForwarding has blocks that   *)
(* show that none of the three can be left out.                            *)
(***************************************************************************)
THEOREM ForwardingKeepsMeaning == ForwardSpec => []SameMeaning
<1>1. ForwardInit => Rearranged /\ SameMeaning
  BY RearrangedInitially
<1>2. Forwarding /\ Rearranged /\ SameMeaning /\ [ForwardNext]_forwardVars
        => (Rearranged /\ SameMeaning)'
  <2> SUFFICES ASSUME Forwarding, Rearranged, SameMeaning, [ForwardNext]_forwardVars
               PROVE  (Rearranged /\ SameMeaning)'
    OBVIOUS
  <2>1. Scanned
    BY DEF Forwarding
  <2>2. CASE ForwardNext
    <3>1. SameMeaning'
      BY <2>1, <2>2, MeaningStays
    <3>2. Rearranged'
      BY <2>1, <2>2, SkipRearranges, CallRearranges, StoreRearranges,
         FirstLoadRearranges, ForwardLoadRearranges, ReorderRearranges DEF ForwardNext
    <3>3. QED
      BY <3>1, <3>2
  <2>3. CASE UNCHANGED forwardVars
    <3>1. /\ block' = block /\ code' = code /\ order' = order
          /\ slot_to_load' = slot_to_load /\ cur' = cur
      BY <2>3 DEF forwardVars
    <3>2. \A i : SlotAt(i)' = SlotAt(i) /\ BytesOf(i)' = BytesOf(i)
      BY <3>1 DEF SlotAt, BytesOf
    <3>3. \A i, s : Writes(i, s)' <=> Writes(i, s)
      BY <3>1, <3>2 DEF Writes
    <3>4. Rearranged'
      BY <3>1, <3>3 DEF Rearranged, Ordered, Kept, DefinedFirst, NothingInBetween
    <3>5. InSlots' <=> InSlots
      BY <3>1, <3>2 DEF InSlots
    <3>6. SameMeaning'
      BY <3>1, <3>5 DEF SameMeaning, OneFloat, EarlyPointers
    <3>7. QED
      BY <3>4, <3>6
  <2>4. QED
    BY <2>2, <2>3
<1>3. QED
  BY <1>1, <1>2, ForwardingAlways, PTL DEF ForwardSpec
=============================================================================
