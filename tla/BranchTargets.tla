---------------------------- MODULE BranchTargets ----------------------------
(***************************************************************************)
(* Where control goes, twice: the decoder tells the trace lifter the       *)
(* addresses of the successors (branch_taken_pc, branch_not_taken_pc,      *)
(* next_pc), from which it makes the edges between blocks; and it gives    *)
(* the semantics address operands, from which the lifted code computes the *)
(* PC when it runs.  The two must agree on every path.                     *)
(*                                                                         *)
(* A static address is a uint64_t, 0 .. 2^Wide - 1 here; the PC has the    *)
(* word size of the architecture.  Any instruction may stand anywhere.     *)
(***************************************************************************)
EXTENDS Integers, Sequences

CONSTANTS Wide,       \* bits of a uint64_t
          WordSize,   \* architecture -> bits of its PC, at most Wide
          Disps,      \* the displacements that are encoded, in instructions
          MaxCalls    \* bound: depth of the stack of calls

ASSUME WidthsAssumption ==
  /\ Wide \in Nat /\ MaxCalls \in Nat /\ Disps \subseteq Int
  /\ \A a \in DOMAIN WordSize : WordSize[a] \in 3 .. Wide

\* What the proofs use of powers of two, true of all widths.
ASSUME PowersAssumption ==
  \A a \in DOMAIN WordSize :
    /\ 2^WordSize[a] \in Nat \ {0} /\ 2^(WordSize[a] - 1) \in Nat \ {0}
    /\ \E k \in 1 .. 2^Wide : 2^Wide = k * 2^WordSize[a]

VARIABLES arch,     \* the architecture, fixed
          block,    \* the static address of the block that runs
          pc,       \* the PC register
          calls     \* for each call in progress the link address that the
                    \* program has, and the next_pc that the lifter has

vars == <<arch, block, pc, calls>>

Mips == arch = "mips"
Word(x) == x % 2^WordSize[arch]

U64(x) == x % 2^Wide

\* static_cast<int32_t>, as a 64-bit number
SignedWord(x) ==
  IF Word(x) >= 2^(WordSize[arch] - 1) THEN Word(x) - 2^WordSize[arch] ELSE Word(x)

Lengths == IF arch \in {"x86", "amd64"} THEN {2, 3} ELSE {4}
Displacements == IF 4 \in Lengths THEN {4 * d : d \in Disps} ELSE Disps

\* J and JAL replace the low bits of the next PC; here all but the highest.
Region(next) == (next \div 2^(WordSize[arch] - 1)) * 2^(WordSize[arch] - 1)

\* Faulty variants: the operand counts from the instruction; a 32-bit target
\* is signed when it becomes a uint64_t.
X86FromItself(addr, kind, len, disp) ==
  [next |-> U64(addr + len), taken |-> U64(addr + len + disp),
   notTaken |-> U64(addr + len), takenOp |-> disp, fallOp |-> len]
X86Signed(addr, kind, len, disp) ==
  [next |-> U64(addr + len), taken |-> U64(SignedWord(addr + len + disp)),
   notTaken |-> U64(addr + len), takenOp |-> disp + len, fallOp |-> len]

\* X86: DecodeConditionalBranch, DecodeRelativeBranch, DecodeFallThroughPC.
X86Decode(addr, kind, len, disp) ==
  [next |-> U64(addr + len), taken |-> U64(addr + len + disp),
   notTaken |-> U64(addr + len), takenOp |-> disp + len, fallOp |-> len]

\* AArch64: displacements count from the instruction.
AArch64Decode(addr, kind, len, disp) ==
  [next |-> U64(addr + len), taken |-> U64(addr + disp),
   notTaken |-> U64(addr + len), takenOp |-> disp, fallOp |-> len]

\* MIPS: the target, an int32_t, serves as the displacement of the operand.
MipsDecode(addr, kind, len, disp) ==
  LET next == U64(addr + len)
      relative == SignedWord(next + disp)
      absolute == Region(next) + (disp % 2^(WordSize[arch] - 1))
      target == IF kind \in {"cond", "likely"} THEN relative ELSE absolute IN
  [next |-> next, taken |-> U64(target),
   notTaken |-> U64(IF kind = "cond" THEN next + 4 ELSE next),
   takenOp |-> SignedWord(target), fallOp |-> len + 4]

Decode(kind, len, disp) ==
  IF Mips THEN MipsDecode(block, kind, len, disp)
  ELSE IF arch = "aarch64" THEN AArch64Decode(block, kind, len, disp)
  ELSE X86Decode(block, kind, len, disp)

\* Faulty variant: operands are lifted after the PC has been stored.
AfterPCUpdate(disp, len) == Word(pc + len + disp)

\* LiftAddressOperand of [PC + disp], before LiftIntoBlock adds len to the PC.
Address(disp, len) == Word(pc + disp)

Init ==
  /\ arch \in DOMAIN WordSize
  /\ block \in {x \in 0 .. 2^WordSize[arch] - 1 : 4 \in Lengths => x % 4 = 0}
  /\ pc = block
  /\ calls = <<>>

\* Bytes are read only at addresses of the word size.
HasCode == block = Word(block)

Goes(static, runtime) == block' = static /\ pc' = runtime

Next1(len) ==
  Goes(U64(block + len), Word(pc + len)) /\ UNCHANGED <<arch, calls>>

Jump(len, disp) ==
  LET d == Decode("jump", len, disp) IN
  Goes(d.taken, Address(d.takenOp, len)) /\ UNCHANGED <<arch, calls>>

ConditionalBranch(kind, len, disp, taken) ==
  LET d == Decode(kind, len, disp) IN
  /\ IF taken THEN Goes(d.taken, Address(d.takenOp, len))
     ELSE Goes(d.notTaken, Address(d.fallOp, len))
  /\ UNCHANGED <<arch, calls>>

\* A call of the next instruction is a branch, without a check on return.
Call(len, disp) ==
  LET d == Decode("call", len, disp)
      link == Address(d.fallOp, len) IN
  /\ Len(calls) < MaxCalls
  /\ Goes(d.taken, Address(d.takenOp, len))
  /\ calls' = IF d.next = d.taken THEN calls
              ELSE Append(calls, [link |-> link, next |-> d.next])
  /\ UNCHANGED arch

\* The callee sets the PC to the link address; check_call_return compares it
\* with next_pc, and __remill_missing_block goes on from the PC.
Return ==
  /\ calls # <<>>
  /\ LET c == calls[Len(calls)] IN
     /\ pc' = c.link
     /\ block' = IF c.link = Word(c.next) THEN c.next ELSE c.link
  /\ calls' = SubSeq(calls, 1, Len(calls) - 1)
  /\ UNCHANGED arch

\* Nothing could be read at the address of the block.
MissingBlock == ~HasCode /\ block' = pc /\ UNCHANGED <<arch, pc, calls>>

Next ==
  \/ /\ HasCode
     /\ \/ Return
        \/ \E len \in Lengths :
             \/ Next1(len)
             \/ \E disp \in Displacements :
                  \/ Jump(len, disp)
                  \/ Call(len, disp)
                  \/ \E kind \in IF Mips THEN {"cond", "likely"} ELSE {"cond"},
                        taken \in BOOLEAN : ConditionalBranch(kind, len, disp, taken)
  \/ MissingBlock

Spec == Init /\ [][Next]_vars

-----------------------------------------------------------------------------
TypeOK ==
  /\ arch \in DOMAIN WordSize
  /\ block \in 0 .. 2^Wide - 1
  /\ pc \in 0 .. 2^WordSize[arch] - 1
  /\ calls \in Seq([link : 0 .. 2^WordSize[arch] - 1, next : 0 .. 2^Wide - 1])

(***************************************************************************)
(* A block runs with its own address in the PC: the edges that the lifter  *)
(* makes from branch_taken_pc, branch_not_taken_pc and next_pc lead where  *)
(* the operands of the same instruction lead, around the top of the        *)
(* address space as well.  Not on MIPS, where the operand of a branch adds *)
(* the whole target to the PC.                                             *)
(***************************************************************************)
PCIsBlock == ~Mips => Word(block) = pc

(***************************************************************************)
(* A call that comes back to the address it was given comes back to the    *)
(* block behind it: the link address is the next_pc that is checked.  Not  *)
(* on MIPS, where it skips the delay slot and next_pc does not.            *)
(***************************************************************************)
ReturnsContinue ==
  ~Mips => \A i \in DOMAIN calls : calls[i].link = Word(calls[i].next)

(***************************************************************************)
(* Only a target beyond an end of the address space has no code because of *)
(* its address: the block that is missed is the target itself, wrapped to  *)
(* 64 bits, and one inside is never mistaken for one outside.  Not on      *)
(* MIPS, where a target in the upper half is sign-extended.                *)
(***************************************************************************)
Wraps(target, static) ==
  target \notin 0 .. 2^WordSize[arch] - 1 /\ static = U64(target)
OnlyWrapsAreMissed ==
  [][~Mips /\ HasCode /\ Len(calls') >= Len(calls) =>
       \/ HasCode'
       \/ \E len \in Lengths, d \in Displacements \cup {0} :
            Wraps(block + d, block') \/ Wraps(block + d + len, block')]_vars
=============================================================================
