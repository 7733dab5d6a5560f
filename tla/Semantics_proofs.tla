-------------------------- MODULE Semantics_proofs --------------------------
(***************************************************************************)
(* Proofs about the semantics functions.  The first part is about          *)
(* BranchTargets: the addresses that the decoder computes and those that   *)
(* the lifted code computes are the same modulo the word size, for every   *)
(* word size and every displacement, on every path.                        *)
(*                                                                         *)
(* The second is about LiftedAtomics: fences keep their order, an update   *)
(* is not lost and a lock has one owner, for every number of threads and   *)
(* every program.  The argument: what a thread has performed is closed     *)
(* under the order of its code (DoneInOrder), so that an atomic            *)
(* instruction performs its accesses while its region is open, and the     *)
(* owner is the only thread that has one open, at most one (Regions).  So  *)
(* nothing comes between what such an instruction reads and what it        *)
(* writes (Winners, Counted).  Only for a pair of exclusive accesses,      *)
(* which have a region each, it is that one thread writes the word.        *)
(***************************************************************************)
EXTENDS BranchTargets, LiftedAtomics, FiniteSetTheorems, SequenceTheorems,
        WellFoundedInduction, TLAPS

-----------------------------------------------------------------------------
(***************************************************************************)
(* Arithmetic modulo m.                                                    *)
(***************************************************************************)
LEMMA ModRange ==
  ASSUME NEW m \in Nat \ {0}, NEW x \in Int PROVE x % m \in 0 .. m - 1
  OBVIOUS

LEMMA ModIdentity ==
  ASSUME NEW m \in Nat \ {0}, NEW x \in 0 .. m - 1 PROVE x % m = x
  OBVIOUS

LEMMA ModUnique ==
  ASSUME NEW m \in Nat \ {0}, NEW q \in Int, NEW r \in 0 .. m - 1
  PROVE  (m * q + r) % m = r
  OBVIOUS

LEMMA ModQuotient ==
  ASSUME NEW m \in Nat \ {0}, NEW x \in Int
  PROVE  \E q \in Int : x = m * q + (x % m)
<1>1. PICK q \in Int : q = x \div m
  OBVIOUS
<1>2. x % m = x - m * (x \div m)
  BY Z3
<1>3. PICK r \in 0 .. m - 1 : r = x % m
  BY ModRange
<1>4. r = x - m * q
  BY <1>1, <1>2, <1>3
<1>5. m * q \in Int
  OBVIOUS
<1>6. x = m * q + r
  BY <1>4, <1>5
<1>7. QED
  BY <1>3, <1>6

LEMMA ModSum ==
  ASSUME NEW m \in Nat \ {0}, NEW x \in Int, NEW d \in Int
  PROVE  ((x % m) + d) % m = (x + d) % m
<1>1. PICK r \in 0 .. m - 1 : r = x % m
  BY ModRange
<1>2. PICK q \in Int : x = m * q + r
  BY <1>1, ModQuotient
<1>3. PICK s \in 0 .. m - 1 : s = (r + d) % m
  BY ModRange
<1>4. PICK p \in Int : r + d = m * p + s
  <2>1. r + d \in Int
    OBVIOUS
  <2>2. \E p \in Int : r + d = m * p + ((r + d) % m)
    BY <2>1, ModQuotient
  <2>3. QED
    BY <1>3, <2>2
<1>5. x + d = m * (q + p) + s
  <2>1. m * q \in Int /\ m * p \in Int /\ m * (q + p) = m * q + m * p
    OBVIOUS
  <2>2. QED
    BY <1>2, <1>4, <2>1
<1>6. (x + d) % m = s
  <2>1. q + p \in Int
    OBVIOUS
  <2>2. QED
    BY <1>5, <2>1, ModUnique
<1>7. QED
  BY <1>1, <1>3, <1>6

Nested(m, n) == \A x \in Int : (x % n) % m = x % m

LEMMA ModOfMod ==
  ASSUME NEW m \in Nat \ {0}, NEW k \in Nat \ {0}, NEW n, n = k * m
  PROVE  Nested(m, n)
<1> SUFFICES ASSUME NEW x \in Int PROVE (x % n) % m = x % m
  BY DEF Nested
<1>1. n \in Nat \ {0}
  OBVIOUS
<1>2. PICK r \in 0 .. n - 1 : r = x % n
  BY <1>1, ModRange
<1>3. PICK q \in Int : x = n * q + r
  BY <1>1, <1>2, ModQuotient
<1>4. PICK s \in 0 .. m - 1 : s = r % m
  BY <1>1, <1>2, ModRange
<1>5. PICK p \in Int : r = m * p + s
  <2>1. r \in Int
    BY <1>1
  <2>2. \E p \in Int : r = m * p + (r % m)
    BY <2>1, ModQuotient
  <2>3. QED
    BY <1>4, <2>2
<1>6. x = m * (k * q + p) + s
  <2>1. n * q = m * (k * q)
    BY Z3
  <2>2. m * (k * q) \in Int /\ m * p \in Int /\ k * q \in Int
    OBVIOUS
  <2>3. m * (k * q + p) = m * (k * q) + m * p
    OBVIOUS
  <2>4. QED
    BY <1>3, <1>5, <2>1, <2>2, <2>3
<1>7. x % m = s
  <2>1. k * q + p \in Int
    OBVIOUS
  <2>2. QED
    BY <1>6, <2>1, ModUnique
<1>8. QED
  BY <1>2, <1>4, <1>7

-----------------------------------------------------------------------------
(***************************************************************************)
(* Words and static addresses.  From here on powers are not looked into.   *)
(***************************************************************************)
Size == 2^WordSize[arch]
Full == 2^Wide
Words == 0 .. Size - 1
Statics == 0 .. Full - 1

LEMMA Sizes ==
  ASSUME arch \in DOMAIN WordSize
  PROVE  /\ Size \in Nat \ {0} /\ Full \in Nat \ {0}
         /\ \E k \in Nat \ {0} : Full = k * Size
         /\ Size <= Full
<1>1. Size \in Nat \ {0}
  BY PowersAssumption DEF Size
<1>2. PICK k \in 1 .. Full : Full = k * Size
  BY PowersAssumption DEF Size, Full
<1>3. Full \in Nat \ {0} /\ k \in Nat \ {0}
  <2>1. Full \in Int \/ Full \notin Int
    OBVIOUS
  <2>2. k \in Int /\ 1 <= k
    BY <1>2
  <2>3. k * Size \in Nat \ {0}
    BY <1>1, <2>2
  <2>4. QED
    BY <1>2, <2>2, <2>3
<1>4. Size <= k * Size
  BY <1>1, <1>3
<1>5. QED
  BY <1>1, <1>2, <1>3, <1>4

LEMMA WordFacts ==
  ASSUME arch \in DOMAIN WordSize
  PROVE  /\ \A x \in Int : Word(x) \in Words /\ U64(x) \in Statics
         /\ \A x \in Int : Word(U64(x)) = Word(x)
         /\ \A x, d \in Int : Word(Word(x) + d) = Word(x + d)
         /\ \A x \in Words : Word(x) = x /\ U64(x) = x
         /\ Words \subseteq Statics /\ Statics \subseteq Int
<1>1. PICK m \in Nat \ {0}, n \in Nat \ {0}, k \in Nat \ {0} :
        m = Size /\ n = Full /\ n = k * m /\ m <= n
  BY Sizes
<1>2. \A x : Word(x) = x % m /\ U64(x) = x % n
  BY <1>1 DEF Word, U64, Size, Full
<1>3. Words = 0 .. m - 1 /\ Statics = 0 .. n - 1
  BY <1>1 DEF Words, Statics
<1>4. ASSUME NEW x \in Int PROVE Word(x) \in Words /\ U64(x) \in Statics
  BY <1>2, <1>3, ModRange
<1>5. ASSUME NEW x \in Int PROVE Word(U64(x)) = Word(x)
  <2>1. n = k * m
    BY <1>1
  <2>2. Nested(m, n)
    BY <2>1, ModOfMod
  <2>3. (x % n) % m = x % m
    BY <2>2 DEF Nested
  <2>4. QED
    BY <1>2, <2>3, Zenon
<1>6. ASSUME NEW x \in Int, NEW d \in Int PROVE Word(Word(x) + d) = Word(x + d)
  BY <1>2, ModSum
<1>7. ASSUME NEW x \in Words PROVE Word(x) = x /\ U64(x) = x
  <2>1. x \in 0 .. m - 1 /\ x \in 0 .. n - 1
    BY <1>1, <1>3
  <2>2. QED
    BY <1>2, <2>1, ModIdentity
<1>8. Words \subseteq Statics /\ Statics \subseteq Int
  BY <1>1, <1>3
<1>9. QED
  BY <1>4, <1>5, <1>6, <1>7, <1>8

LEMMA InstructionFacts ==
  ASSUME NEW len \in Lengths, NEW disp \in Displacements
  PROVE  len \in Int /\ disp \in Int
<1>1. Lengths \subseteq Int
  BY DEF Lengths
<1>2. Displacements \subseteq Int
  <2>1. Disps \subseteq Int
    BY WidthsAssumption
  <2>2. {4 * d : d \in Disps} \subseteq Int
    <3>1. ASSUME NEW d \in Disps PROVE 4 * d \in Int
      <4>1. d \in Int
        BY <2>1
      <4>2. QED
        BY <4>1
    <3>2. QED
      BY <3>1, Zenon
  <2>3. CASE 4 \in Lengths
    BY <2>2, <2>3 DEF Displacements
  <2>4. CASE 4 \notin Lengths
    BY <2>1, <2>4 DEF Displacements
  <2>5. QED
    BY <2>3, <2>4
<1>3. QED
  BY <1>1, <1>2

\* What the decoders promise of their two answers.
LEMMA DecodeAgrees ==
  ASSUME ~Mips, NEW kind, NEW len \in Int, NEW disp \in Int, block \in Int
  PROVE  LET d == Decode(kind, len, disp) IN
         /\ d.taken = U64(block + d.takenOp)
         /\ d.notTaken = U64(block + d.fallOp)
         /\ d.next = U64(block + d.fallOp)
         /\ d.fallOp = len /\ d.takenOp \in {disp, disp + len}
<1>1. CASE arch = "aarch64"
  BY <1>1 DEF Decode, AArch64Decode
<1>2. CASE arch # "aarch64"
  <2>1. Decode(kind, len, disp) = X86Decode(block, kind, len, disp)
    BY <1>2 DEF Decode
  <2>2. block + len + disp = block + (disp + len)
    OBVIOUS
  <2>3. QED
    BY <2>1, <2>2 DEF X86Decode
<1>3. QED
  BY <1>1, <1>2

-----------------------------------------------------------------------------
(***************************************************************************)
(* Types.                                                                  *)
(***************************************************************************)
Frames == [link : Words, next : Statics]

LEMMA TypeFacts ==
  TypeOK <=> /\ arch \in DOMAIN WordSize /\ block \in Statics /\ pc \in Words
             /\ calls \in Seq(Frames)
  BY DEF TypeOK, Frames, Words, Statics, Size, Full

\* What an instruction does to the types, MIPS included.
LEMMA DecodeTypes ==
  ASSUME arch \in DOMAIN WordSize, block \in Int, NEW kind, NEW len \in Int,
         NEW disp \in Int
  PROVE  LET d == Decode(kind, len, disp) IN
         /\ d.taken \in Statics /\ d.notTaken \in Statics /\ d.next \in Statics
         /\ d.takenOp \in Int /\ d.fallOp \in Int
<1>1. CASE ~Mips
  <2>1. \A x \in Int : U64(x) \in Statics
    BY WordFacts
  <2>2. LET d == Decode(kind, len, disp) IN
        /\ d.taken = U64(block + d.takenOp)
        /\ d.notTaken = U64(block + d.fallOp)
        /\ d.next = U64(block + d.fallOp)
        /\ d.fallOp = len /\ d.takenOp \in {disp, disp + len}
    BY <1>1, DecodeAgrees
  <2>3. QED
    BY <2>1, <2>2
<1>2. CASE Mips
  <2> DEFINE half == 2^(WordSize[arch] - 1)
             next == U64(block + len)
             relative == SignedWord(next + disp)
             absolute == Region(next) + (disp % half)
             target == IF kind \in {"cond", "likely"} THEN relative ELSE absolute
  <2>1. half \in Nat \ {0} /\ Size \in Nat \ {0}
    BY PowersAssumption, Sizes
  <2>2. \A x \in Int : U64(x) \in Statics /\ U64(x) \in Int /\ Word(x) \in Int
    BY WordFacts
  <2>3. ASSUME NEW x \in Int PROVE SignedWord(x) \in Int
    BY <2>1, <2>2 DEF SignedWord, Size
  <2>4. next \in Int /\ next \in Statics
    BY <2>2
  <2>5. relative \in Int
    BY <2>3, <2>4
  <2>6. absolute \in Int
    <3>1. Region(next) = (next \div half) * half
      BY DEF Region
    <3>2. next \div half \in Int /\ disp % half \in Int
      BY <2>1, <2>4
    <3> HIDE DEF half, next
    <3>3. (next \div half) * half \in Int
      BY <2>1, <3>2
    <3>4. QED
      BY <3>1, <3>2, <3>3
  <2> HIDE DEF relative, absolute
  <2>7. target \in Int
    BY <2>5, <2>6
  <2>8. Decode(kind, len, disp) =
          [next |-> next, taken |-> U64(target),
           notTaken |-> U64(IF kind = "cond" THEN next + 4 ELSE next),
           takenOp |-> SignedWord(target), fallOp |-> len + 4]
    BY <1>2 DEF Decode, MipsDecode, relative, absolute
  <2> HIDE DEF next, target
  <2>9. (IF kind = "cond" THEN next + 4 ELSE next) \in Int
    BY <2>4
  <2>10. QED
    BY <2>2, <2>3, <2>4, <2>7, <2>8, <2>9
<1>3. QED
  BY <1>1, <1>2

\* Not more than the last call is taken off the stack, or one is put on it.
LEMMA CallSequences ==
  ASSUME NEW S, NEW s \in Seq(S)
  PROVE  /\ \A x \in S : /\ Append(s, x) \in Seq(S)
                         /\ Len(Append(s, x)) = Len(s) + 1
                         /\ \A i \in DOMAIN Append(s, x) :
                              \/ i \in DOMAIN s /\ Append(s, x)[i] = s[i]
                              \/ Append(s, x)[i] = x
         /\ s # <<>> =>
              LET f == SubSeq(s, 1, Len(s) - 1) IN
              /\ Len(s) \in DOMAIN s /\ s[Len(s)] \in S
              /\ f \in Seq(S) /\ Len(f) = Len(s) - 1
              /\ \A i \in DOMAIN f : i \in DOMAIN s /\ f[i] = s[i]
<1>1. Len(s) \in Nat /\ DOMAIN s = 1 .. Len(s) /\ (s # <<>> => Len(s) # 0)
      /\ \A i \in 1 .. Len(s) : s[i] \in S
  BY ElementOfSeq, LenProperties, EmptySeq
<1>2. ASSUME NEW x \in S
      PROVE  /\ Append(s, x) \in Seq(S) /\ Len(Append(s, x)) = Len(s) + 1
             /\ \A i \in DOMAIN Append(s, x) :
                  \/ i \in DOMAIN s /\ Append(s, x)[i] = s[i]
                  \/ Append(s, x)[i] = x
  BY <1>1, AppendProperties
<1>3. ASSUME s # <<>>
      PROVE  LET f == SubSeq(s, 1, Len(s) - 1) IN
             /\ Len(s) \in DOMAIN s /\ s[Len(s)] \in S
             /\ f \in Seq(S) /\ Len(f) = Len(s) - 1
             /\ \A i \in DOMAIN f : i \in DOMAIN s /\ f[i] = s[i]
  <2>1. Len(s) \in DOMAIN s /\ s[Len(s)] \in S
    BY <1>1, <1>3
  <2>2. \A i \in 1 .. Len(s) - 1 : s[i] \in S
    BY <1>1
  <2>3. /\ SubSeq(s, 1, Len(s) - 1) \in Seq(S)
        /\ Len(SubSeq(s, 1, Len(s) - 1)) = Len(s) - 1
        /\ \A i \in 1 .. Len(s) - 1 : SubSeq(s, 1, Len(s) - 1)[i] = s[i]
        /\ DOMAIN SubSeq(s, 1, Len(s) - 1) = 1 .. Len(s) - 1
    BY <1>1, <1>3, <2>2, SubSeqProperties
  <2>4. QED
    BY <1>1, <2>1, <2>3
<1>4. QED
  BY <1>2, <1>3

-----------------------------------------------------------------------------
(***************************************************************************)
(* The invariant: the runs' two, with the types.                           *)
(***************************************************************************)
Inv == TypeOK /\ PCIsBlock /\ ReturnsContinue

\* A step that stays in the trace, or leaves it for a target: the stack may
\* grow by a call.
Moves ==
  /\ arch' = arch /\ block' \in Statics /\ pc' \in Words
  /\ ~Mips => Word(block') = pc'
  /\ \/ calls' = calls
     \/ \E c \in Frames : calls' = Append(calls, c) /\ (~Mips => c.link = Word(c.next))

\* The displacement that leads from the PC to the operand leads from the block
\* to the target.
LEMMA SameTarget ==
  ASSUME TypeOK, PCIsBlock, ~Mips, NEW t \in Int, NEW len
  PROVE  Word(U64(block + t)) = Address(t, len)
<1>1. arch \in DOMAIN WordSize /\ block \in Statics
  BY TypeFacts
<1>2. block \in Int
  BY <1>1, WordFacts
<1>3. Word(block) = pc
  BY DEF PCIsBlock
<1>4. block + t \in Int
  BY <1>2
<1>5. Word(U64(block + t)) = Word(block + t)
  BY <1>1, <1>4, WordFacts
<1>6. Word(Word(block) + t) = Word(block + t)
  BY <1>1, <1>2, WordFacts
<1>7. QED
  BY <1>3, <1>5, <1>6 DEF Address

\* Wherever the decoder's answer goes, the lifted code goes.
LEMMA GoesTogether ==
  ASSUME TypeOK, PCIsBlock, NEW kind, NEW len \in Lengths, NEW disp \in Displacements
  PROVE  LET d == Decode(kind, len, disp) IN
         /\ d.taken \in Statics /\ d.notTaken \in Statics /\ d.next \in Statics
         /\ Address(d.takenOp, len) \in Words /\ Address(d.fallOp, len) \in Words
         /\ ~Mips => /\ Word(d.taken) = Address(d.takenOp, len)
                     /\ Word(d.notTaken) = Address(d.fallOp, len)
                     /\ Word(d.next) = Address(d.fallOp, len)
<1>1. arch \in DOMAIN WordSize /\ block \in Int /\ pc \in Int
  BY TypeFacts, WordFacts
<1>2. len \in Int /\ disp \in Int
  BY InstructionFacts
<1> DEFINE d == Decode(kind, len, disp)
<1>3. /\ d.taken \in Statics /\ d.notTaken \in Statics /\ d.next \in Statics
      /\ d.takenOp \in Int /\ d.fallOp \in Int
  BY <1>1, <1>2, DecodeTypes
<1>4. ASSUME ~Mips
      PROVE  /\ d.taken = U64(block + d.takenOp)
             /\ d.notTaken = U64(block + d.fallOp)
             /\ d.next = U64(block + d.fallOp)
  BY <1>1, <1>2, <1>4, DecodeAgrees
<1> HIDE DEF d
<1>5. Address(d.takenOp, len) \in Words /\ Address(d.fallOp, len) \in Words
  <2>1. pc + d.takenOp \in Int /\ pc + d.fallOp \in Int
    BY <1>1, <1>3
  <2>2. QED
    BY <1>1, <2>1, WordFacts DEF Address
<1>6. ASSUME ~Mips
      PROVE  /\ Word(d.taken) = Address(d.takenOp, len)
             /\ Word(d.notTaken) = Address(d.fallOp, len)
             /\ Word(d.next) = Address(d.fallOp, len)
  <2>1. Word(U64(block + d.takenOp)) = Address(d.takenOp, len)
    BY <1>3, <1>6, SameTarget
  <2>2. Word(U64(block + d.fallOp)) = Address(d.fallOp, len)
    BY <1>3, <1>6, SameTarget
  <2>3. QED
    BY <1>4, <1>6, <2>1, <2>2
<1>7. QED
  BY <1>3, <1>5, <1>6 DEF d

LEMMA FallThroughMoves ==
  ASSUME Inv, NEW len \in Lengths, Next1(len)
  PROVE  Moves
<1>1. arch \in DOMAIN WordSize /\ block \in Int /\ pc \in Int
  BY TypeFacts, WordFacts DEF Inv
<1>2. len \in Int
  BY DEF Lengths
<1>3. block' = U64(block + len) /\ pc' = Word(pc + len) /\ UNCHANGED <<arch, calls>>
  BY DEF Next1, Goes
<1>4. block + len \in Int /\ pc + len \in Int
  BY <1>1, <1>2
<1>5. block' \in Statics /\ pc' \in Words
  BY <1>1, <1>3, <1>4, WordFacts
<1>6. ~Mips => Word(U64(block + len)) = Address(len, len)
  BY <1>2, SameTarget DEF Inv
<1>7. QED
  BY <1>3, <1>5, <1>6 DEF Moves, Address

LEMMA JumpMoves ==
  ASSUME Inv, NEW len \in Lengths, NEW disp \in Displacements, Jump(len, disp)
  PROVE  Moves
  BY GoesTogether DEF Inv, Jump, Goes, Moves

LEMMA BranchMoves ==
  ASSUME Inv, NEW kind, NEW len \in Lengths, NEW disp \in Displacements,
         NEW taken, ConditionalBranch(kind, len, disp, taken)
  PROVE  Moves
<1> DEFINE d == Decode(kind, len, disp)
<1>1. /\ d.taken \in Statics /\ d.notTaken \in Statics
      /\ Address(d.takenOp, len) \in Words /\ Address(d.fallOp, len) \in Words
      /\ ~Mips => /\ Word(d.taken) = Address(d.takenOp, len)
                  /\ Word(d.notTaken) = Address(d.fallOp, len)
  BY GoesTogether DEF Inv
<1>2. UNCHANGED <<arch, calls>>
  BY DEF ConditionalBranch
<1>3. \/ block' = d.taken /\ pc' = Address(d.takenOp, len)
      \/ block' = d.notTaken /\ pc' = Address(d.fallOp, len)
  BY DEF ConditionalBranch, Goes
<1> HIDE DEF d
<1>4. QED
  BY <1>1, <1>2, <1>3 DEF Moves

LEMMA CallMoves ==
  ASSUME Inv, NEW len \in Lengths, NEW disp \in Displacements, Call(len, disp)
  PROVE  Moves
<1> DEFINE d == Decode("call", len, disp)
           c == [link |-> Address(d.fallOp, len), next |-> d.next]
<1>1. /\ d.taken \in Statics /\ d.next \in Statics
      /\ Address(d.takenOp, len) \in Words /\ Address(d.fallOp, len) \in Words
      /\ ~Mips => /\ Word(d.taken) = Address(d.takenOp, len)
                  /\ Word(d.next) = Address(d.fallOp, len)
  BY GoesTogether DEF Inv
<1>2. /\ arch' = arch /\ block' = d.taken /\ pc' = Address(d.takenOp, len)
      /\ calls' = calls \/ calls' = Append(calls, c)
  BY DEF Call, Goes
<1>3. c \in Frames /\ c.link = Address(d.fallOp, len) /\ c.next = d.next
  BY <1>1 DEF Frames
<1> HIDE DEF d, c
<1>4. QED
  BY <1>1, <1>2, <1>3 DEF Moves

LEMMA MovesKeepInv ==
  ASSUME Inv, Moves
  PROVE  Inv'
<1>1. arch \in DOMAIN WordSize /\ calls \in Seq(Frames) /\ arch' = arch
  BY TypeFacts DEF Inv, Moves
<1>2. /\ \A x : Word(x)' = Word(x)
      /\ Mips' <=> Mips
      /\ Words' = Words /\ Statics' = Statics /\ Frames' = Frames
  BY <1>1 DEF Word, Mips, Words, Statics, Frames, Size, Full
<1>3. /\ block' \in Statics /\ pc' \in Words
      /\ ~Mips => Word(block') = pc'
  BY DEF Moves
<1>4. /\ calls' \in Seq(Frames)
      /\ \A i \in DOMAIN calls' :
           \/ i \in DOMAIN calls /\ calls'[i] = calls[i]
           \/ ~Mips => calls'[i].link = Word(calls'[i].next)
  <2>1. CASE calls' = calls
    BY <1>1, <2>1
  <2>2. ASSUME NEW c \in Frames, calls' = Append(calls, c), ~Mips => c.link = Word(c.next)
        PROVE  /\ calls' \in Seq(Frames)
               /\ \A i \in DOMAIN calls' :
                    \/ i \in DOMAIN calls /\ calls'[i] = calls[i]
                    \/ ~Mips => calls'[i].link = Word(calls'[i].next)
    <3>1. /\ Append(calls, c) \in Seq(Frames)
          /\ \A i \in DOMAIN Append(calls, c) :
               \/ i \in DOMAIN calls /\ Append(calls, c)[i] = calls[i]
               \/ Append(calls, c)[i] = c
      BY <1>1, CallSequences
    <3>2. QED
      BY <2>2, <3>1
  <2>3. QED
    BY <2>1, <2>2 DEF Moves
<1>5. ReturnsContinue'
  <2>1. ASSUME ~Mips, NEW i \in DOMAIN calls'
        PROVE  calls'[i].link = Word(calls'[i].next)
    BY <1>4, <2>1 DEF Inv, ReturnsContinue
  <2>2. QED
    BY <1>2, <2>1 DEF ReturnsContinue
<1>6. TypeOK'
  <2>1. /\ arch' \in DOMAIN WordSize /\ block' \in Statics' /\ pc' \in Words'
        /\ calls' \in Seq(Frames')
    BY <1>1, <1>2, <1>3, <1>4
  <2>2. QED
    BY <2>1 DEF TypeOK, Frames, Words, Statics, Size, Full
<1>7. PCIsBlock'
  BY <1>2, <1>3 DEF PCIsBlock
<1>8. QED
  BY <1>5, <1>6, <1>7 DEF Inv

LEMMA ReturnKeepsInv ==
  ASSUME Inv, Return
  PROVE  Inv'
<1>1. arch \in DOMAIN WordSize /\ calls \in Seq(Frames) /\ arch' = arch /\ calls # <<>>
  BY TypeFacts DEF Inv, Return
<1> DEFINE c == calls[Len(calls)]
<1>2. /\ Len(calls) \in DOMAIN calls /\ c \in Frames
      /\ calls' \in Seq(Frames)
      /\ \A i \in DOMAIN calls' : i \in DOMAIN calls /\ calls'[i] = calls[i]
  BY <1>1, CallSequences DEF Return
<1>3. c.link \in Words /\ c.next \in Statics
  BY <1>2 DEF Frames
<1>4. /\ pc' = c.link
      /\ block' = IF c.link = Word(c.next) THEN c.next ELSE c.link
  BY DEF Return
<1> HIDE DEF c
<1>5. block' \in Statics /\ pc' \in Words /\ Word(block') = pc'
  <2>1. c.link \in Statics /\ Word(c.link) = c.link
    BY <1>1, <1>3, WordFacts
  <2>2. CASE c.link = Word(c.next)
    BY <1>3, <1>4, <2>2
  <2>3. CASE c.link # Word(c.next)
    BY <1>3, <1>4, <2>1, <2>3
  <2>4. QED
    BY <2>2, <2>3
<1>6. /\ \A x : Word(x)' = Word(x)
      /\ Mips' <=> Mips
      /\ Words' = Words /\ Statics' = Statics /\ Frames' = Frames
  BY <1>1 DEF Word, Mips, Words, Statics, Frames, Size, Full
<1>7. TypeOK'
  <2>1. /\ arch' \in DOMAIN WordSize /\ block' \in Statics' /\ pc' \in Words'
        /\ calls' \in Seq(Frames')
    BY <1>1, <1>2, <1>5, <1>6
  <2>2. QED
    BY <2>1 DEF TypeOK, Frames, Words, Statics, Size, Full
<1>8. PCIsBlock'
  BY <1>5, <1>6 DEF PCIsBlock
<1>9. ReturnsContinue'
  BY <1>2, <1>6 DEF Inv, ReturnsContinue
<1>10. QED
  BY <1>7, <1>8, <1>9 DEF Inv

LEMMA MissingBlockMoves ==
  ASSUME Inv, MissingBlock
  PROVE  Moves
<1>1. arch \in DOMAIN WordSize /\ pc \in Words
  BY TypeFacts DEF Inv
<1>2. pc \in Statics /\ Word(pc) = pc
  BY <1>1, WordFacts
<1>3. QED
  BY <1>1, <1>2 DEF MissingBlock, Moves

LEMMA StepKinds ==
  ASSUME Next
  PROVE  \/ Return \/ MissingBlock
         \/ \E len \in Lengths : Next1(len)
         \/ \E len \in Lengths, disp \in Displacements : Jump(len, disp) \/ Call(len, disp)
         \/ \E len \in Lengths, disp \in Displacements :
              \E kind, taken : ConditionalBranch(kind, len, disp, taken)
  BY DEF Next

LEMMA InitInv == Init => Inv
<1> SUFFICES ASSUME Init PROVE Inv
  OBVIOUS
<1>1. arch \in DOMAIN WordSize /\ block \in Words /\ pc = block /\ calls = <<>>
  BY DEF Init, Words, Size
<1>2. block \in Statics /\ Word(block) = block
  BY <1>1, WordFacts
<1>3. calls \in Seq(Frames)
  BY <1>1, EmptySeq
<1>4. TypeOK
  BY <1>1, <1>2, <1>3, TypeFacts
<1>5. PCIsBlock /\ ReturnsContinue
  BY <1>1, <1>2 DEF PCIsBlock, ReturnsContinue
<1>6. QED
  BY <1>4, <1>5 DEF Inv

LEMMA NextKeepsInv == Inv /\ [Next]_vars => Inv'
<1> SUFFICES ASSUME Inv, [Next]_vars PROVE Inv'
  OBVIOUS
<1>1. CASE Return
  BY <1>1, ReturnKeepsInv
<1>2. CASE MissingBlock
  BY <1>2, MissingBlockMoves, MovesKeepInv
<1>3. ASSUME NEW len \in Lengths, Next1(len) PROVE Inv'
  BY <1>3, FallThroughMoves, MovesKeepInv
<1>4. ASSUME NEW len \in Lengths, NEW disp \in Displacements,
             Jump(len, disp) \/ Call(len, disp)
      PROVE  Inv'
  BY <1>4, JumpMoves, CallMoves, MovesKeepInv
<1>5. ASSUME NEW len \in Lengths, NEW disp \in Displacements, NEW kind, NEW taken,
             ConditionalBranch(kind, len, disp, taken)
      PROVE  Inv'
  BY <1>5, BranchMoves, MovesKeepInv
<1>6. CASE UNCHANGED vars
  BY <1>6 DEF vars, Inv, TypeOK, PCIsBlock, ReturnsContinue, Mips, Word
<1>7. CASE Next
  BY <1>1, <1>2, <1>3, <1>4, <1>5, <1>7, StepKinds
<1>8. QED
  BY <1>6, <1>7

LEMMA InvAlways == Spec => []Inv
  BY InitInv, NextKeepsInv, PTL DEF Spec

-----------------------------------------------------------------------------
(***************************************************************************)
(* The program counter fits the word size of the architecture and a static *)
(* address fits a uint64_t, on MIPS as well.                               *)
(***************************************************************************)
THEOREM BranchTypesCorrect == Spec => []TypeOK
<1>1. Inv => TypeOK
  BY DEF Inv
<1>2. QED
  BY <1>1, InvAlways, PTL

(***************************************************************************)
(* branch_taken_pc, branch_not_taken_pc and next_pc lead where the address *)
(* operands of the same instruction lead.                                  *)
(***************************************************************************)
THEOREM PCIsAlwaysBlock == Spec => []PCIsBlock
<1>1. Inv => PCIsBlock
  BY DEF Inv
<1>2. QED
  BY <1>1, InvAlways, PTL

(***************************************************************************)
(* The link address of every call in progress is the next_pc that          *)
(* check_call_return compares it with.                                     *)
(***************************************************************************)
THEOREM ReturnsAlwaysContinue == Spec => []ReturnsContinue
<1>1. Inv => ReturnsContinue
  BY DEF Inv
<1>2. QED
  BY <1>1, InvAlways, PTL

-----------------------------------------------------------------------------
(***************************************************************************)
(* A step other than a return goes to a target in reach, wrapped to 64     *)
(* bits; if the target is a word it stays as it is.                        *)
(***************************************************************************)
\* The targets that an instruction of the block can have.
InReach(t) ==
  \E len \in Lengths, d \in Displacements \cup {0} : t = block + d \/ t = block + d + len

LEMMA DecodedInReach ==
  ASSUME TypeOK, ~Mips, NEW kind, NEW len \in Lengths, NEW disp \in Displacements
  PROVE  LET d == Decode(kind, len, disp) IN
         /\ \E t : InReach(t) /\ d.taken = U64(t)
         /\ \E t : InReach(t) /\ d.notTaken = U64(t)
<1>1. arch \in DOMAIN WordSize /\ block \in Int
  BY TypeFacts, WordFacts
<1>2. len \in Int /\ disp \in Int
  BY InstructionFacts
<1> DEFINE d == Decode(kind, len, disp)
<1>3. /\ d.taken = U64(block + d.takenOp) /\ d.notTaken = U64(block + d.fallOp)
      /\ d.fallOp = len /\ d.takenOp \in {disp, disp + len}
  BY <1>1, <1>2, DecodeAgrees
<1> HIDE DEF d
<1>4. block + len = block + 0 + len /\ block + (disp + len) = block + disp + len
  BY <1>1, <1>2
<1>5. InReach(block + d.takenOp) /\ InReach(block + d.fallOp)
  BY <1>3, <1>4 DEF InReach
<1>6. QED
  BY <1>3, <1>5 DEF d

OnlyWraps ==
  ~Mips /\ HasCode /\ Len(calls') >= Len(calls) =>
    \/ HasCode'
    \/ \E len \in Lengths, d \in Displacements \cup {0} :
         Wraps(block + d, block') \/ Wraps(block + d + len, block')

LEMMA StepOnlyWraps ==
  ASSUME Inv, Next
  PROVE  OnlyWraps
<1> SUFFICES ASSUME ~Mips, HasCode, Len(calls') >= Len(calls)
             PROVE  \/ HasCode'
                    \/ \E len \in Lengths, d \in Displacements \cup {0} :
                         Wraps(block + d, block') \/ Wraps(block + d + len, block')
  BY DEF OnlyWraps
<1>1. TypeOK /\ arch \in DOMAIN WordSize /\ calls \in Seq(Frames) /\ block \in Int
  BY TypeFacts, WordFacts DEF Inv
<1>2. ~Return
  <2>1. ASSUME Return PROVE FALSE
    <3>1. /\ calls # <<>> /\ calls' = SubSeq(calls, 1, Len(calls) - 1)
      BY <2>1 DEF Return
    <3>2. Len(calls') = Len(calls) - 1
      BY <1>1, <3>1, CallSequences
    <3>3. Len(calls) \in Nat
      BY <1>1, LenProperties
    <3>4. QED
      BY <3>2, <3>3
  <2>2. QED
    BY <2>1
<1>3. ~MissingBlock
  BY DEF MissingBlock
<1>4. arch' = arch /\ \E t : InReach(t) /\ block' = U64(t)
  <2>1. ASSUME NEW len \in Lengths, Next1(len)
        PROVE  arch' = arch /\ \E t : InReach(t) /\ block' = U64(t)
    <3>1. arch' = arch /\ block' = U64(block + len)
      BY <2>1 DEF Next1, Goes
    <3>2. block + 0 + len = block + len
      BY <1>1, InstructionFacts
    <3>3. InReach(block + len)
      BY <3>2 DEF InReach
    <3>4. QED
      BY <3>1, <3>3
  <2>2. ASSUME NEW len \in Lengths, NEW disp \in Displacements,
               Jump(len, disp) \/ Call(len, disp)
        PROVE  arch' = arch /\ \E t : InReach(t) /\ block' = U64(t)
    <3>1. \A kind : \E t : InReach(t) /\ Decode(kind, len, disp).taken = U64(t)
      BY <1>1, DecodedInReach
    <3>2. /\ arch' = arch
          /\ \/ block' = Decode("jump", len, disp).taken
             \/ block' = Decode("call", len, disp).taken
      BY <2>2 DEF Jump, Call, Goes
    <3>3. QED
      BY <3>1, <3>2
  <2>3. ASSUME NEW len \in Lengths, NEW disp \in Displacements, NEW kind, NEW taken,
               ConditionalBranch(kind, len, disp, taken)
        PROVE  arch' = arch /\ \E t : InReach(t) /\ block' = U64(t)
    <3>1. /\ \E t : InReach(t) /\ Decode(kind, len, disp).taken = U64(t)
          /\ \E t : InReach(t) /\ Decode(kind, len, disp).notTaken = U64(t)
      BY <1>1, DecodedInReach
    <3>2. /\ arch' = arch
          /\ \/ block' = Decode(kind, len, disp).taken
             \/ block' = Decode(kind, len, disp).notTaken
      BY <2>3 DEF ConditionalBranch, Goes
    <3>3. QED
      BY <3>1, <3>2
  <2>4. QED
    BY <1>2, <1>3, <2>1, <2>2, <2>3, StepKinds
<1>5. PICK t : InReach(t) /\ block' = U64(t)
  BY <1>4
<1>6. CASE t \in Words
  <2>1. block' \in Words
    BY <1>1, <1>5, <1>6, WordFacts
  <2>2. Word(block') = block' /\ Word(block)' = Word(block')
    BY <1>1, <1>4, <2>1, WordFacts DEF Word
  <2>3. QED
    BY <2>2 DEF HasCode
<1>7. CASE t \notin Words
  <2>1. Wraps(t, block')
    BY <1>5, <1>7 DEF Wraps, Words, Size
  <2>2. QED
    BY <1>5, <2>1 DEF InReach
<1>8. QED
  BY <1>6, <1>7

(***************************************************************************)
(* Only a target beyond an end of the address space is looked up where no  *)
(* bytes are read, and it is that target that is; one inside never is,     *)
(* whatever the widths.                                                    *)
(***************************************************************************)
THEOREM OnlyWrapsAreEverMissed == Spec => OnlyWrapsAreMissed
<1>1. Inv /\ [Next]_vars => [OnlyWraps]_vars
  BY StepOnlyWraps
<1>2. Spec => [][OnlyWraps]_vars
  BY <1>1, InvAlways, PTL DEF Spec
<1>3. QED
  BY <1>2, PTL DEF OnlyWrapsAreMissed, OnlyWraps

-----------------------------------------------------------------------------
(***************************************************************************)
(* What FlattenSeq returns.                                                *)
(***************************************************************************)
LessThan == {ss \in Nat \X Nat : ss[1] < ss[2]}

LEMMA LeastElement ==
  ASSUME NEW T, T \subseteq Nat, T # {}
  PROVE  \E x \in T : \A y \in T : x <= y
<1>1. IsWellFoundedOn(LessThan, Nat)
  BY NatLessThanWellFounded DEF OpToRel, LessThan
<1>2. PICK x \in T : \A y \in T : ~ (<<y, x>> \in LessThan)
  BY <1>1, WFMin
<1>3. \A y \in T : x <= y
  <2> SUFFICES ASSUME NEW y \in T PROVE x <= y OBVIOUS
  <2>1. x \in Nat /\ y \in Nat OBVIOUS
  <2>2. <<y, x>> \notin LessThan BY <1>2
  <2>3. ~ (y < x) BY <2>1, <2>2 DEF LessThan
  <2> QED BY <2>1, <2>3
<1> QED BY <1>3

\* f[n] is the first n elements of s, one after the other.
Pieces(f, s, N) ==
  f = [i \in 1..N |-> IF i = 1 THEN s[i] ELSE f[i - 1] \o s[i]]

LEMMA PiecesExist ==
  ASSUME NEW s, NEW N \in Nat
  PROVE  \E f : Pieces(f, s, N)
<1> DEFINE D == {k \in Nat : ~ \E f : Pieces(f, s, k)}
<1> SUFFICES ASSUME D # {} PROVE FALSE
  OBVIOUS
<1>1. PICK x \in D : \A y \in D : x <= y
  <2>1. D \subseteq Nat
    OBVIOUS
  <2>2. QED
    BY <2>1, LeastElement
<1>2. CASE x = 0
  <2>1. 1..0 = {}
    OBVIOUS
  <2> DEFINE g == [i \in 1..0 |-> 0]
  <2>2. g = [i \in 1..0 |-> IF i = 1 THEN s[i] ELSE g[i - 1] \o s[i]]
    BY <2>1
  <2>3. Pieces(g, s, 0)
    BY <2>2 DEF Pieces
  <2>4. QED
    BY <1>1, <1>2, <2>3
<1>3. CASE x # 0
  <2>1. x - 1 \in Nat /\ ~(x <= x - 1) /\ x \in Nat
    BY <1>3
  <2>2. PICK f : Pieces(f, s, x - 1)
    BY <1>1, <2>1
  <2> DEFINE e == IF x = 1 THEN s[x] ELSE f[x - 1] \o s[x]
             g == [k \in 1..x |-> IF k = x THEN e ELSE f[k]]
  <2>3. ASSUME NEW k \in 1..x
        PROVE  g[k] = IF k = 1 THEN s[k] ELSE g[k - 1] \o s[k]
    <3>1. CASE k = x
      <4>1. g[k] = e
        BY <3>1
      <4>2. CASE k = 1
        BY <3>1, <4>1, <4>2
      <4>3. CASE k # 1
        <5>1. k - 1 \in 1..x /\ k - 1 # x
          BY <4>3
        <5>2. g[k - 1] = f[k - 1]
          BY <5>1
        <5>3. e = f[k - 1] \o s[k]
          BY <3>1, <4>3
        <5>4. QED
          BY <4>1, <4>3, <5>2, <5>3
      <4>4. QED
        BY <4>2, <4>3
    <3>2. CASE k # x
      <4>1. k \in 1..x - 1 /\ g[k] = f[k]
        BY <3>2, <2>1
      <4>2. f[k] = IF k = 1 THEN s[k] ELSE f[k - 1] \o s[k]
        BY <2>2, <4>1, Zenon DEF Pieces
      <4>3. CASE k = 1
        BY <4>1, <4>2, <4>3
      <4>4. CASE k # 1
        <5>1. k - 1 \in 1..x /\ k - 1 # x
          BY <4>1, <4>4, <2>1
        <5>2. g[k - 1] = f[k - 1]
          BY <5>1
        <5>3. QED
          BY <4>1, <4>2, <4>4, <5>2
      <4>5. QED
        BY <4>3, <4>4
    <3>3. QED
      BY <3>1, <3>2
  <2>4. g = [k \in 1..x |-> g[k]]
    OBVIOUS
  <2> HIDE DEF g
  <2>5. g = [k \in 1..x |-> IF k = 1 THEN s[k] ELSE g[k - 1] \o s[k]]
    BY <2>3, <2>4
  <2>6. Pieces(g, s, x)
    BY <2>5 DEF Pieces
  <2>7. QED
    BY <1>1, <2>6
<1>4. QED
  BY <1>2, <1>3

LEMMA FlattenIsPieces ==
  ASSUME NEW s, Len(s) \in Nat, Len(s) # 0
  PROVE  \E f : Pieces(f, s, Len(s)) /\ FlattenSeq(s) = f[Len(s)]
<1> DEFINE flatten == CHOOSE f : f = [i \in 1..Len(s) |->
                        IF i = 1 THEN s[i] ELSE f[i - 1] \o s[i]]
<1>1. FlattenSeq(s) = flatten[Len(s)]
  BY DEF FlattenSeq
<1>2. \E f : f = [i \in 1..Len(s) |-> IF i = 1 THEN s[i] ELSE f[i - 1] \o s[i]]
  BY PiecesExist DEF Pieces
<1>3. flatten = [i \in 1..Len(s) |->
                   IF i = 1 THEN s[i] ELSE flatten[i - 1] \o s[i]]
  BY <1>2
<1> HIDE DEF flatten
<1>4. Pieces(flatten, s, Len(s))
  BY <1>3 DEF Pieces
<1>5. QED
  BY <1>1, <1>4

\* The same, with the types of the elements.
PiecesOf(E, f, s, N) ==
  /\ N \in Nat
  /\ \A k \in 1..N : s[k] \in Seq(E)
  /\ \A k \in 1..N : k = 1 => f[k] = s[k]
  /\ \A k \in 1..N : k # 1 => f[k] = f[k - 1] \o s[k]

LEMMA PieceType ==
  ASSUME NEW E, NEW f, NEW s, NEW N, PiecesOf(E, f, s, N)
  PROVE  \A k \in 1..N : f[k] \in Seq(E)
<1>a. /\ N \in Nat
      /\ \A k \in 1..N : s[k] \in Seq(E)
      /\ \A k \in 1..N : k = 1 => f[k] = s[k]
      /\ \A k \in 1..N : k # 1 => f[k] = f[k - 1] \o s[k]
  BY DEF PiecesOf
<1> DEFINE D == {k \in 1..N : f[k] \notin Seq(E)}
<1>1. D \subseteq Nat
  BY <1>a
<1> SUFFICES ASSUME D # {} PROVE FALSE
  OBVIOUS
<1>2. PICK x \in D : \A y \in D : x <= y
  BY <1>a, <1>1, LeastElement
<1>3. CASE x = 1
  BY <1>a, <1>2, <1>3
<1>4. CASE x # 1
  <2>1. x \in 2..N /\ x - 1 \in 1..N /\ ~(x <= x - 1)
    BY <1>a, <1>4
  <2>2. f[x] = f[x - 1] \o s[x]
    BY <1>a, <2>1
  <2>3. f[x - 1] \in Seq(E) /\ s[x] \in Seq(E)
    BY <1>a, <1>2, <2>1
  <2>4. f[x] \in Seq(E)
    BY <1>a, <2>2, <2>3
  <2>5. QED
    BY <1>a, <1>2, <2>4
<1>5. QED
  BY <1>a, <1>3, <1>4

\* How many elements come before those of s[n].
Start(f, n) == IF n = 1 THEN 0 ELSE Len(f[n - 1])

LEMMA PieceStarts ==
  ASSUME NEW E, NEW f, NEW s, NEW N, PiecesOf(E, f, s, N), NEW n \in 1..N
  PROVE  /\ Start(f, n) \in Nat
         /\ Len(f[n]) = Start(f, n) + Len(s[n])
         /\ \A i \in 1..Start(f, n) : n # 1 /\ f[n][i] = f[n - 1][i]
         /\ \A k \in 1..Len(s[n]) : f[n][Start(f, n) + k] = s[n][k]
<1>a. /\ N \in Nat
      /\ \A k \in 1..N : s[k] \in Seq(E)
      /\ \A k \in 1..N : k = 1 => f[k] = s[k]
      /\ \A k \in 1..N : k # 1 => f[k] = f[k - 1] \o s[k]
  BY DEF PiecesOf
<1>1. f[n] \in Seq(E) /\ s[n] \in Seq(E)
  BY <1>a, PieceType
<1>2. CASE n = 1
  <2>1. f[n] = s[n] /\ Start(f, n) = 0
    BY <1>a, <1>2 DEF Start
  <2>2. QED
    BY <1>a, <1>1, <1>2, <2>1
<1>3. CASE n # 1
  <2>1. n \in 2..N /\ n - 1 \in 1..N
    BY <1>a, <1>3
  <2>2. f[n] = f[n - 1] \o s[n] /\ f[n - 1] \in Seq(E) /\ Start(f, n) = Len(f[n - 1])
    BY <1>a, <1>3, <2>1, PieceType DEF Start
  <2> DEFINE a == f[n - 1]
             b == s[n]
  <2>3. a \in Seq(E) /\ b \in Seq(E) /\ f[n] = a \o b /\ Start(f, n) = Len(a)
    BY <1>a, <1>1, <2>2
  <2> HIDE DEF a, b
  <2>4. /\ Len(a) \in Nat /\ Len(b) \in Nat /\ Len(a \o b) = Len(a) + Len(b)
        /\ \A i \in 1..Len(a) : (a \o b)[i] = a[i]
        /\ \A k \in 1..Len(b) : (a \o b)[Len(a) + k] = b[k]
    BY <1>a, <2>3
  <2>5. QED
    BY <1>a, <1>3, <2>3, <2>4 DEF a, b
<1>4. QED
  BY <1>a, <1>2, <1>3

LEMMA PieceStartsAreOrdered ==
  ASSUME NEW E, NEW f, NEW s, NEW N, PiecesOf(E, f, s, N), NEW m \in 1..N
  PROVE  \A n \in m..N : /\ Len(f[m]) <= Len(f[n])
                         /\ \A i \in 1..Len(f[m]) : f[n][i] = f[m][i]
<1>a. /\ N \in Nat
      /\ \A k \in 1..N : s[k] \in Seq(E)
      /\ \A k \in 1..N : k = 1 => f[k] = s[k]
      /\ \A k \in 1..N : k # 1 => f[k] = f[k - 1] \o s[k]
  BY DEF PiecesOf
<1> DEFINE D == {n \in m..N : ~(/\ Len(f[m]) <= Len(f[n])
                                /\ \A i \in 1..Len(f[m]) : f[n][i] = f[m][i])}
<1>1. D \subseteq Nat
  BY <1>a
<1> SUFFICES ASSUME D # {} PROVE FALSE
  OBVIOUS
<1>2. PICK x \in D : \A y \in D : x <= y
  BY <1>a, <1>1, LeastElement
<1>0. Len(f[m]) \in Nat
  <2>1. f[m] \in Seq(E)
    BY <1>a, PieceType
  <2>2. QED
    BY <1>a, <2>1
<1>3. x # m
  BY <1>a, <1>0, <1>2
<1>4. x - 1 \in m..N /\ ~(x <= x - 1) /\ x \in 1..N /\ x # 1
  BY <1>a, <1>3
<1>5. Len(f[m]) <= Len(f[x - 1]) /\ \A i \in 1..Len(f[m]) : f[x - 1][i] = f[m][i]
  BY <1>a, <1>2, <1>4
<1>6. /\ Start(f, x) \in Nat
      /\ Len(f[x]) = Start(f, x) + Len(s[x])
      /\ \A i \in 1..Start(f, x) : f[x][i] = f[x - 1][i]
  BY <1>a, <1>4, PieceStarts
<1>7. Start(f, x) = Len(f[x - 1])
  BY <1>a, <1>4 DEF Start
<1>8. Len(s[x]) \in Nat
  <2>1. s[x] \in Seq(E)
    BY <1>a, <1>4
  <2>2. QED
    BY <1>a, <2>1
<1>9. Len(f[x - 1]) \in Nat /\ Len(f[x]) \in Nat /\ Len(f[x]) >= Len(f[x - 1])
  <2> DEFINE a == Start(f, x)
             n == Len(s[x])
  <2>1. a \in Nat /\ n \in Nat /\ Len(f[x]) = a + n /\ Len(f[x - 1]) = a
    BY <1>6, <1>7, <1>8
  <2> HIDE DEF a, n
  <2>2. QED
    BY <2>1
<1>10. ASSUME NEW i \in 1..Len(f[m]) PROVE f[x][i] = f[m][i]
  <2>1. i \in 1..Start(f, x)
    BY <1>0, <1>5, <1>7, <1>9
  <2>2. QED
    BY <1>5, <1>6, <2>1
<1>11. QED
  BY <1>0, <1>2, <1>5, <1>9, <1>10

LEMMA PiecesCover ==
  ASSUME NEW E, NEW f, NEW s, NEW N, PiecesOf(E, f, s, N)
  PROVE  \A n \in 1..N : \A i \in 1..Len(f[n]) :
           \E m \in 1..n : \E k \in 1..Len(s[m]) : i = Start(f, m) + k
<1>a. /\ N \in Nat
      /\ \A k \in 1..N : s[k] \in Seq(E)
      /\ \A k \in 1..N : k = 1 => f[k] = s[k]
      /\ \A k \in 1..N : k # 1 => f[k] = f[k - 1] \o s[k]
  BY DEF PiecesOf
<1> DEFINE P(n) == \A i \in 1..Len(f[n]) :
                     \E m \in 1..n : \E k \in 1..Len(s[m]) : i = Start(f, m) + k
           D == {n \in 1..N : ~P(n)}
<1>1. D \subseteq Nat
  BY <1>a
<1> SUFFICES ASSUME D # {} PROVE FALSE
  OBVIOUS
<1>2. PICK x \in D : \A y \in D : x <= y
  BY <1>a, <1>1, LeastElement
<1>3. P(x)
  <2> SUFFICES ASSUME NEW i \in 1..Len(f[x])
               PROVE  \E m \in 1..x : \E k \in 1..Len(s[m]) : i = Start(f, m) + k
    BY <1>a
  <2>1. Start(f, x) \in Nat /\ Len(f[x]) = Start(f, x) + Len(s[x])
    BY <1>a, PieceStarts
  <2>2. Len(s[x]) \in Nat
    <3>1. s[x] \in Seq(E)
      BY <1>a
    <3>2. QED
      BY <1>a, <3>1
  <2>3. CASE i > Start(f, x)
    <3>1. i - Start(f, x) \in 1..Len(s[x]) /\ i = Start(f, x) + (i - Start(f, x))
      BY <1>a, <2>1, <2>2, <2>3
    <3>2. QED
      BY <1>a, <3>1
  <2>4. CASE ~(i > Start(f, x))
    <3>1. x # 1 /\ Start(f, x) = Len(f[x - 1])
      BY <1>a, <2>4 DEF Start
    <3>2. i \in 1..Len(f[x - 1]) /\ x - 1 \in 1..N /\ ~(x <= x - 1)
      BY <1>a, <2>1, <2>4, <3>1
    <3>3. P(x - 1)
      BY <1>a, <1>2, <3>2
    <3>4. PICK m \in 1..x - 1 : \E k \in 1..Len(s[m]) : i = Start(f, m) + k
      BY <1>a, <3>2, <3>3
    <3>5. m \in 1..x
      BY <1>a
    <3>6. QED
      BY <1>a, <3>4, <3>5
  <2>5. QED
    BY <1>a, <2>1, <2>3, <2>4
<1>4. QED
  BY <1>a, <1>2, <1>3

\* Where the elements of s[n] are in c, which is all of them in order.
Flattened(c, s, b, N) ==
  /\ b \in [1..N -> Nat] /\ DOMAIN c = 1..Len(c) /\ Len(c) \in Nat
  /\ \A n \in 1..N : Len(s[n]) \in Nat /\ b[n] + Len(s[n]) <= Len(c)
  /\ \A n \in 1..N : \A k \in 1..Len(s[n]) : c[b[n] + k] = s[n][k]
  /\ \A m, n \in 1..N : m < n => b[m] + Len(s[m]) <= b[n]
  /\ \A i \in 1..Len(c) : \E n \in 1..N : \E k \in 1..Len(s[n]) : i = b[n] + k

LEMMA FlattenSeqFacts ==
  ASSUME NEW E, NEW N \in Nat, NEW s, s = [k \in 1..N |-> s[k]],
         \A k \in 1..N : s[k] \in Seq(E)
  PROVE  \E b : Flattened(FlattenSeq(s), s, b, N)
<1>1. Len(s) = N /\ s \in Seq(Seq(E))
  <2>1. s \in [1..N -> Seq(E)]
    BY Zenon
  <2>2. QED
    BY <2>1
<1>2. CASE N = 0
  <2>1. FlattenSeq(s) = s
    BY <1>1, <1>2 DEF FlattenSeq
  <2>2. 1..N = {} /\ DOMAIN s = 1..0
    BY <1>1, <1>2
  <2>3. Flattened(s, s, [n \in 1..N |-> 0], N)
    BY <1>1, <1>2, <2>2 DEF Flattened
  <2>4. QED
    BY <2>1, <2>3
<1>3. CASE N # 0
  <2>1. PICK f : Pieces(f, s, N) /\ FlattenSeq(s) = f[N]
    BY <1>1, <1>3, FlattenIsPieces
  <2>p. PiecesOf(E, f, s, N)
    <3>1. \A k \in 1..N : f[k] = IF k = 1 THEN s[k] ELSE f[k - 1] \o s[k]
      BY <2>1, Zenon DEF Pieces
    <3>2. QED
      BY <3>1 DEF PiecesOf
  <2> DEFINE c == f[N]
             b == [n \in 1..N |-> Start(f, n)]
  <2>2. c \in Seq(E)
    BY <1>3, <2>p, PieceType
  <2>3. DOMAIN c = 1..Len(c) /\ Len(c) \in Nat
    BY <2>2
  <2>4. \A n \in 1..N : b[n] \in Nat /\ b[n] = Start(f, n)
    BY <2>p, PieceStarts
  <2>5. \A n \in 1..N : Len(s[n]) \in Nat
    <3> SUFFICES ASSUME NEW n \in 1..N PROVE Len(s[n]) \in Nat
      OBVIOUS
    <3>1. s[n] \in Seq(E)
      OBVIOUS
    <3>2. QED
      BY <3>1
  <2>6. ASSUME NEW n \in 1..N
        PROVE  /\ b[n] + Len(s[n]) <= Len(c)
               /\ \A k \in 1..Len(s[n]) : c[b[n] + k] = s[n][k]
    <3>1. Len(f[n]) = b[n] + Len(s[n])
      BY <2>p, <2>4, PieceStarts
    <3>2. N \in n..N
      OBVIOUS
    <3>3. Len(f[n]) <= Len(f[N]) /\ \A i \in 1..Len(f[n]) : f[N][i] = f[n][i]
      BY <2>p, <3>2, PieceStartsAreOrdered
    <3>4. \A k \in 1..Len(s[n]) : f[n][b[n] + k] = s[n][k]
      BY <2>p, <2>4, PieceStarts
    <3>5. \A k \in 1..Len(s[n]) : b[n] + k \in 1..Len(f[n])
      BY <2>4, <2>5, <3>1
    <3>6. QED
      BY <3>1, <3>3, <3>4, <3>5
  <2>7. ASSUME NEW m \in 1..N, NEW n \in 1..N, m < n
        PROVE  b[m] + Len(s[m]) <= b[n]
    <3>1. n - 1 \in m..N /\ n # 1
      BY <2>7
    <3>2. b[n] = Len(f[n - 1])
      BY <2>4, <3>1 DEF Start
    <3>3. Len(f[m]) = b[m] + Len(s[m])
      BY <2>p, <2>4, PieceStarts
    <3>4. Len(f[m]) <= Len(f[n - 1])
      BY <2>p, <3>1, PieceStartsAreOrdered
    <3>5. QED
      BY <3>2, <3>3, <3>4
  <2>8. \A i \in 1..Len(c) : \E n \in 1..N : \E k \in 1..Len(s[n]) : i = b[n] + k
    <3>1. N \in 1..N
      BY <1>3
    <3>2. QED
      BY <2>p, <2>4, <3>1, PiecesCover
  <2>9. b \in [1..N -> Nat]
    BY <2>4
  <2> HIDE DEF b, c
  <2>10. Flattened(c, s, b, N)
    BY <2>3, <2>5, <2>6, <2>7, <2>8, <2>9 DEF Flattened
  <2>11. QED
    BY <2>1, <2>10 DEF c
<1>4. QED
  BY <1>2, <1>3

-----------------------------------------------------------------------------
(***************************************************************************)
(* What the instructions are lifted to.                                    *)
(***************************************************************************)
LEMMA Join1 ==
  ASSUME NEW x, NEW y
  PROVE  <<x>> \o <<y>> = <<x, y>>
<1> DEFINE S == {x, y}
<1>1. <<x>> \in Seq(S) /\ <<y>> \in Seq(S) /\ <<x, y>> \in Seq(S)
  OBVIOUS
<1>2. Len(<<x>>) = 1 /\ Len(<<y>>) = 1 /\ Len(<<x, y>>) = 2
  OBVIOUS
<1> DEFINE c == <<x>> \o <<y>>
<1>3. /\ c \in Seq(S) /\ Len(c) = 2
      /\ \A i \in 1..2 : c[i] = IF i <= 1 THEN <<x>>[i] ELSE <<y>>[i - 1]
  BY <1>1, <1>2, ConcatProperties
<1>4. c[1] = x /\ c[2] = y
  BY <1>3
<1>5. \A i \in 1..2 : c[i] = <<x, y>>[i]
  BY <1>4
<1> HIDE DEF c, S
<1>6. c = <<x, y>>
  BY <1>1, <1>2, <1>3, <1>5, SeqEqual
<1>7. QED
  BY <1>6 DEF c

LEMMA Join2 ==
  ASSUME NEW x, NEW y, NEW z
  PROVE  <<x, y>> \o <<z>> = <<x, y, z>>
<1> DEFINE S == {x, y, z}
<1>1. <<x, y>> \in Seq(S) /\ <<z>> \in Seq(S) /\ <<x, y, z>> \in Seq(S)
  OBVIOUS
<1>2. Len(<<x, y>>) = 2 /\ Len(<<z>>) = 1 /\ Len(<<x, y, z>>) = 3
  OBVIOUS
<1> DEFINE c == <<x, y>> \o <<z>>
<1>3. /\ c \in Seq(S) /\ Len(c) = 3
      /\ \A i \in 1..3 : c[i] = IF i <= 2 THEN <<x, y>>[i] ELSE <<z>>[i - 2]
  BY <1>1, <1>2, ConcatProperties
<1>4. c[1] = x /\ c[2] = y /\ c[3] = z
  BY <1>3
<1>5. \A i \in 1..3 : c[i] = <<x, y, z>>[i]
  BY <1>4
<1> HIDE DEF c, S
<1>6. c = <<x, y, z>>
  BY <1>1, <1>2, <1>3, <1>5, SeqEqual
<1>7. QED
  BY <1>6 DEF c

LEMMA AppendFourth ==
  ASSUME NEW S, NEW d \in Seq(S), Len(d) = 3, NEW z \in S
  PROVE  d \o <<z>> = <<d[1], d[2], d[3], z>>
<1> DEFINE e == <<z>>
           c == d \o e
           f == <<d[1], d[2], d[3], z>>
<1>1. e \in Seq(S) /\ Len(e) = 1 /\ e[1] = z
  OBVIOUS
<1>2. d[1] \in S /\ d[2] \in S /\ d[3] \in S
  <2>1. 1 \in 1..Len(d) /\ 2 \in 1..Len(d) /\ 3 \in 1..Len(d)
    OBVIOUS
  <2>2. QED
    BY <2>1, ElementOfSeq
<1>3. /\ f \in Seq(S) /\ Len(f) = 4
      /\ f[1] = d[1] /\ f[2] = d[2] /\ f[3] = d[3] /\ f[4] = z
  BY <1>2
<1> HIDE DEF e
<1>4. /\ c \in Seq(S) /\ Len(c) = Len(d) + Len(e)
      /\ \A i \in 1..Len(d) + Len(e) : c[i] = IF i <= Len(d) THEN d[i] ELSE e[i - Len(d)]
  BY <1>1, ConcatProperties
<1> HIDE DEF c, f
<1>5. /\ Len(c) = 4 /\ c[1] = d[1] /\ c[2] = d[2] /\ c[3] = d[3] /\ c[4] = e[1]
  BY <1>1, <1>4
<1>6. ASSUME NEW i \in 1..4 PROVE c[i] = f[i]
  <2>1. i = 1 \/ i = 2 \/ i = 3 \/ i = 4
    OBVIOUS
  <2>2. QED
    BY <2>1, <1>1, <1>3, <1>5
<1>7. c = f
  BY <1>3, <1>4, <1>5, <1>6, SeqEqual
<1>8. QED
  BY <1>7 DEF c, f, e

LEMMA Join3 ==
  ASSUME NEW a, NEW x, NEW y, NEW z
  PROVE  <<a>> \o <<x, y>> \o <<z>> = <<a, x, y, z>>
<1> DEFINE S == {a, x, y, z}
           d == <<a>> \o <<x, y>>
<1>1. /\ <<a>> \in Seq(S) /\ <<x, y>> \in Seq(S) /\ z \in S
      /\ Len(<<a>>) = 1 /\ Len(<<x, y>>) = 2
  OBVIOUS
<1>2. /\ d \in Seq(S) /\ Len(d) = 3
      /\ \A i \in 1..3 : d[i] = IF i <= 1 THEN <<a>>[i] ELSE <<x, y>>[i - 1]
  BY <1>1, ConcatProperties
<1>3. d[1] = a /\ d[2] = x /\ d[3] = y
  BY <1>2
<1> HIDE DEF d, S
<1>4. d \o <<z>> = <<d[1], d[2], d[3], z>>
  BY <1>1, <1>2, AppendFourth
<1>5. QED
  BY <1>3, <1>4 DEF d

LEMMA Join0 ==
  ASSUME NEW y
  PROVE  <<>> \o <<y>> = <<y>>
  OBVIOUS

\* The kinds of instructions, by what they are lifted to.
Lifted(i, monitor) ==
  LET l == i.loc
      u == LiftIntoBlock(i, monitor) IN
  /\ i.op = "store" => u = <<Write(l, "one")>>
  /\ i.op = "load" => u = <<Read(l)>>
  /\ i.op = "lock_add" => u = <<AtomicBegin, Read(l), Write(l, "inc"), AtomicEnd>>
  /\ i.op = "xchg" => u = <<AtomicBegin, Read(l), Write(l, "one"), AtomicEnd>>
  /\ i.op = "cmpxchg" => u = <<AtomicBegin, Update(l, "one_if_zero"), AtomicEnd>>
  /\ i.op = "xadd" => u = <<AtomicBegin, Update(l, "inc"), AtomicEnd>>
  /\ i.op = "mfence" => u = <<Barrier({"W"}, {"R"})>>
  /\ i.op = "lfence" => u = <<Barrier({"R"}, {"R"})>>
  /\ i.op \in {"sfence", "dmb"} => u = <<Barrier({"W"}, {"W"})>>
  /\ i.op = "ldxr" => u = <<AtomicBegin, Read(l), AtomicEnd>>
  /\ i.op = "ldaxr" => u = <<AtomicBegin, Barrier({"R"}, {"W"}), Read(l), AtomicEnd>>
  /\ i.op = "ldar" => u = <<Barrier({"R"}, {"W"}), Read(l)>>
  /\ i.op = "stlr" => u = <<Write(l, "one"), Barrier({"W"}, {"W"})>>
  /\ i.op = "stlxr" /\ monitor = l =>
       u = <<AtomicBegin, Write(l, "inc"), Barrier({"W"}, {"W"}), AtomicEnd>>
  /\ i.op = "stlxr" /\ monitor # l =>
       u = <<AtomicBegin, Barrier({"W"}, {"W"}), AtomicEnd>>
  /\ i.op = "new_trace" => u = <<>>

LEMMA LiftedShape ==
  ASSUME NEW i, NEW monitor
  PROVE  Lifted(i, monitor)
<1> DEFINE l == i.loc
           u == LiftIntoBlock(i, monitor)
           s == Semantics(i, monitor)
<1>1. u = IF Atomic(i.op) THEN <<AtomicBegin>> \o s \o <<AtomicEnd>> ELSE s
  BY Zenon DEF LiftIntoBlock
<1>2. /\ i.op = "lock_add" => s = <<Read(l), Write(l, "inc")>>
      /\ i.op = "xchg" => s = <<Read(l), Write(l, "one")>>
      /\ i.op = "cmpxchg" => s = <<Update(l, "one_if_zero")>>
      /\ i.op = "xadd" => s = <<Update(l, "inc")>>
      /\ i.op = "ldxr" => s = <<Read(l)>>
      /\ i.op = "ldaxr" => s = <<Barrier({"R"}, {"W"}), Read(l)>>
  BY DEF Semantics
<1>3. i.op = "stlxr" => s = (IF monitor = l THEN <<Write(l, "inc")>> ELSE <<>>)
                            \o <<Barrier({"W"}, {"W"})>>
  BY DEF Semantics
<1>4. /\ i.op = "store" => s = <<Write(l, "one")>>
      /\ i.op = "load" => s = <<Read(l)>>
      /\ i.op \in {"mfence", "sfence", "lfence", "dmb"} => s = <<Fence(i.op)>>
      /\ i.op = "ldar" => s = <<Barrier({"R"}, {"W"}), Read(l)>>
      /\ i.op = "stlr" => s = <<Write(l, "one"), Barrier({"W"}, {"W"})>>
      /\ i.op = "new_trace" => s = <<>>
  BY DEF Semantics
<1>5. /\ Fence("mfence") = Barrier({"W"}, {"R"})
      /\ Fence("lfence") = Barrier({"R"}, {"R"})
      /\ Fence("sfence") = Barrier({"W"}, {"W"})
      /\ Fence("dmb") = Barrier({"W"}, {"W"})
  BY DEF Fence
<1> HIDE DEF u, s
<1>6. i.op = "stlxr" /\ monitor = l => s = <<Write(l, "inc"), Barrier({"W"}, {"W"})>>
  BY <1>3, Join1
<1>7. i.op = "stlxr" /\ monitor # l => s = <<Barrier({"W"}, {"W"})>>
  BY <1>3, Join0
<1>8. \A x, y : /\ s = <<x, y>> => <<AtomicBegin>> \o s \o <<AtomicEnd>>
                                     = <<AtomicBegin, x, y, AtomicEnd>>
                /\ s = <<x>> => <<AtomicBegin>> \o s \o <<AtomicEnd>>
                                     = <<AtomicBegin, x, AtomicEnd>>
  <2> SUFFICES ASSUME NEW x, NEW y
               PROVE  /\ s = <<x, y>> => <<AtomicBegin>> \o s \o <<AtomicEnd>>
                                         = <<AtomicBegin, x, y, AtomicEnd>>
                      /\ s = <<x>> => <<AtomicBegin>> \o s \o <<AtomicEnd>>
                                      = <<AtomicBegin, x, AtomicEnd>>
    OBVIOUS
  <2>1. <<AtomicBegin>> \o <<x, y>> \o <<AtomicEnd>> = <<AtomicBegin, x, y, AtomicEnd>>
    BY Join3
  <2>2. <<AtomicBegin>> \o <<x>> = <<AtomicBegin, x>>
    BY Join1
  <2>3. <<AtomicBegin, x>> \o <<AtomicEnd>> = <<AtomicBegin, x, AtomicEnd>>
    BY Join2
  <2>4. QED
    BY <2>1, <2>2, <2>3
<1>9. Atomic(i.op) <=> i.op \in {"lock_add", "xchg", "cmpxchg", "xadd",
                                 "ldxr", "ldaxr", "stlxr"}
  BY Zenon DEF Atomic
<1>10. /\ i.op = "lock_add" => u = <<AtomicBegin, Read(l), Write(l, "inc"), AtomicEnd>>
       /\ i.op = "xchg" => u = <<AtomicBegin, Read(l), Write(l, "one"), AtomicEnd>>
       /\ i.op = "cmpxchg" => u = <<AtomicBegin, Update(l, "one_if_zero"), AtomicEnd>>
       /\ i.op = "xadd" => u = <<AtomicBegin, Update(l, "inc"), AtomicEnd>>
       /\ i.op = "ldxr" => u = <<AtomicBegin, Read(l), AtomicEnd>>
       /\ i.op = "ldaxr" => u = <<AtomicBegin, Barrier({"R"}, {"W"}), Read(l), AtomicEnd>>
  BY <1>1, <1>2, <1>8, <1>9
<1>11. /\ i.op = "stlxr" /\ monitor = l =>
            u = <<AtomicBegin, Write(l, "inc"), Barrier({"W"}, {"W"}), AtomicEnd>>
       /\ i.op = "stlxr" /\ monitor # l =>
            u = <<AtomicBegin, Barrier({"W"}, {"W"}), AtomicEnd>>
  BY <1>1, <1>6, <1>7, <1>8, <1>9
<1>12. /\ i.op = "store" => u = <<Write(l, "one")>>
       /\ i.op = "load" => u = <<Read(l)>>
       /\ i.op = "ldar" => u = <<Barrier({"R"}, {"W"}), Read(l)>>
       /\ i.op = "stlr" => u = <<Write(l, "one"), Barrier({"W"}, {"W"})>>
       /\ i.op = "new_trace" => u = <<>>
       /\ i.op \in {"mfence", "sfence", "lfence", "dmb"} => u = <<Fence(i.op)>>
  BY <1>1, <1>4, <1>9
<1>13. /\ i.op = "mfence" => u = <<Barrier({"W"}, {"R"})>>
       /\ i.op = "lfence" => u = <<Barrier({"R"}, {"R"})>>
       /\ i.op \in {"sfence", "dmb"} => u = <<Barrier({"W"}, {"W"})>>
  BY <1>5, <1>12
<1>14. QED
  BY <1>10, <1>11, <1>12, <1>13, Zenon DEF Lifted, u

-----------------------------------------------------------------------------
\* The intrinsics that open and close a region, those that count, the others.
IsBegin(d) == d.kinds = {} /\ d.region = "begin"
IsEnd(d) == d.kinds = {} /\ d.region = "end"
Counts(d) == "W" \in d.kinds /\ d.how = "inc"
Hows == {"one", "inc", "one_if_zero"}
Plain(l, d) ==
  /\ ~IsBegin(d) /\ ~IsEnd(d) /\ d.kinds \subseteq {"R", "W"}
  /\ d.kinds # {} => d.loc = l
  /\ "W" \in d.kinds => d.how \in Hows
Apart(c, d) == \A x \in {"R", "W"} : ~(x \in c.kinds /\ x \in d.kinds)
Ops == X86Ops \cup AArch64Ops

LEMMA ReadFields ==
  ASSUME NEW l
  PROVE  /\ Plain(l, Read(l)) /\ Read(l).kinds = {"R"} /\ Read(l).loc = l
         /\ ~Counts(Read(l))
  BY DEF Read, Plain, IsBegin, IsEnd, Counts

LEMMA AccessFields ==
  ASSUME NEW l, NEW h
  PROVE  /\ h \in Hows => Plain(l, Write(l, h)) /\ Plain(l, Update(l, h))
         /\ Write(l, h).kinds = {"W"} /\ Update(l, h).kinds = {"R", "W"}
         /\ Write(l, h).loc = l /\ Update(l, h).loc = l
         /\ Write(l, h).how = h /\ Update(l, h).how = h
         /\ (Counts(Write(l, h)) <=> h = "inc") /\ (Counts(Update(l, h)) <=> h = "inc")
         /\ Apart(Read(l), Write(l, h))
  BY DEF Read, Write, Update, Plain, IsBegin, IsEnd, Counts, Apart

LEMMA BarrierFields ==
  ASSUME NEW from, NEW to
  PROVE  /\ Barrier(from, to).kinds = {} /\ Barrier(from, to).region = None
         /\ Barrier(from, to).from = from /\ Barrier(from, to).to = to
         /\ ~Counts(Barrier(from, to))
         /\ \A l : Plain(l, Barrier(from, to))
         /\ \A d : Apart(d, Barrier(from, to)) /\ Apart(Barrier(from, to), d)
  BY NoneAssumption DEF Barrier, Plain, IsBegin, IsEnd, Counts, Apart

LEMMA RegionFields ==
  /\ AtomicBegin.from = {"W"} /\ AtomicBegin.to = {"R", "W"}
  /\ AtomicEnd.from = {"R", "W"} /\ AtomicEnd.to = {"R"}
  /\ AtomicBegin.kinds = {} /\ AtomicBegin.region = "begin"
  /\ AtomicEnd.kinds = {} /\ AtomicEnd.region = "end"
  /\ IsBegin(AtomicBegin) /\ ~IsEnd(AtomicBegin) /\ ~Counts(AtomicBegin)
  /\ IsEnd(AtomicEnd) /\ ~IsBegin(AtomicEnd) /\ ~Counts(AtomicEnd)
  /\ \A d : /\ Apart(d, AtomicBegin) /\ Apart(AtomicBegin, d)
            /\ Apart(d, AtomicEnd) /\ Apart(AtomicEnd, d)
  BY DEF AtomicBegin, AtomicEnd, Barrier, IsBegin, IsEnd, Counts, Apart

\* What every instruction is lifted to.
LiftedWell(i, u) ==
  /\ DOMAIN u = 1..Len(u) /\ Len(u) \in Nat
  /\ \A k \in DOMAIN u : /\ u[k].kinds \subseteq {"R", "W"}
                         /\ u[k].kinds # {} => u[k].loc = i.loc
                         /\ "W" \in u[k].kinds => u[k].how \in Hows
  /\ \A j, k \in DOMAIN u : ~Apart(u[j], u[k]) => j = k
  /\ Atomic(i.op) => Len(u) >= 2 /\ IsBegin(u[1]) /\ IsEnd(u[Len(u)])
  /\ \A k \in DOMAIN u : IsBegin(u[k]) => Atomic(i.op) /\ k = 1 /\ u[k] = AtomicBegin
  /\ \A k \in DOMAIN u : IsEnd(u[k]) => Atomic(i.op) /\ k = Len(u) /\ u[k] = AtomicEnd

\* How it writes.
LiftedWrites(i, monitor, u) ==
  LET l == i.loc IN
  /\ i.op = "xchg" =>
       \E j, k \in DOMAIN u : j < k /\ u[j] = Read(l) /\ u[k] = Write(l, "one")
  /\ i.op = "cmpxchg" => \E j \in DOMAIN u : u[j] = Update(l, "one_if_zero")
  /\ \A k \in DOMAIN u : Counts(u[k]) =>
       \/ i.op = "xadd" /\ u[k].kinds = {"R", "W"}
       \/ i.op = "stlxr" /\ monitor = l /\ u[k].kinds = {"W"}
       \/ /\ i.op = "lock_add" /\ u[k].kinds = {"W"}
          /\ \E j \in DOMAIN u : j < k /\ u[j] = Read(l)
  /\ i.op \in {"ldxr", "ldaxr"} => \E k \in DOMAIN u : u[k] = Read(l)

\* And which fence it is.
LiftedFences(i, u) ==
  /\ i.op = "mfence" => \E k \in DOMAIN u : u[k] = Barrier({"W"}, {"R"})
  /\ i.op \in {"sfence", "dmb", "stlr"} => \E k \in DOMAIN u : u[k] = Barrier({"W"}, {"W"})
  /\ i.op = "ldar" => \E k \in DOMAIN u : u[k] = Barrier({"R"}, {"W"})
  /\ i.op = "lfence" => \E k \in DOMAIN u : u[k] = Barrier({"R"}, {"R"})

LEMMA Tuples ==
  ASSUME NEW a, NEW b, NEW c, NEW d
  PROVE  /\ DOMAIN <<a>> = 1..1 /\ Len(<<a>>) = 1
         /\ DOMAIN <<a, b>> = 1..2 /\ Len(<<a, b>>) = 2
         /\ DOMAIN <<a, b, c>> = 1..3 /\ Len(<<a, b, c>>) = 3
         /\ DOMAIN <<a, b, c, d>> = 1..4 /\ Len(<<a, b, c, d>>) = 4
         /\ \A k \in 1..1 : k = 1
         /\ \A k \in 1..2 : k = 1 \/ k = 2
         /\ \A k \in 1..3 : k = 1 \/ k = 2 \/ k = 3
         /\ \A k \in 1..4 : k = 1 \/ k = 2 \/ k = 3 \/ k = 4
  OBVIOUS

LEMMA OneIsWell ==
  ASSUME NEW i, NEW a, Plain(i.loc, a), ~Atomic(i.op)
  PROVE  LiftedWell(i, <<a>>)
<1>1. DOMAIN <<a>> = 1..1 /\ Len(<<a>>) = 1 /\ \A k \in 1..1 : k = 1
  BY Tuples
<1>2. <<a>>[1] = a
  OBVIOUS
<1>3. QED
  BY <1>1, <1>2 DEF LiftedWell, Plain

LEMMA TwoAreWell ==
  ASSUME NEW i, NEW a, NEW b, Plain(i.loc, a), Plain(i.loc, b), Apart(a, b),
         ~Atomic(i.op)
  PROVE  LiftedWell(i, <<a, b>>)
<1> DEFINE u == <<a, b>>
<1>1. DOMAIN u = 1..2 /\ Len(u) = 2 /\ \A k \in 1..2 : k = 1 \/ k = 2
  BY Tuples
<1>2. u[1] = a /\ u[2] = b
  OBVIOUS
<1>3. Apart(b, a)
  BY DEF Apart
<1> HIDE DEF u
<1>4. \A j, k \in DOMAIN u : ~Apart(u[j], u[k]) => j = k
  BY <1>1, <1>2, <1>3
<1>5. \A k \in DOMAIN u : /\ ~IsBegin(u[k]) /\ ~IsEnd(u[k])
                          /\ u[k].kinds \subseteq {"R", "W"}
                          /\ u[k].kinds # {} => u[k].loc = i.loc
                          /\ "W" \in u[k].kinds => u[k].how \in Hows
  BY <1>1, <1>2 DEF Plain
<1>6. LiftedWell(i, u)
  BY <1>1, <1>4, <1>5 DEF LiftedWell
<1>7. QED
  BY <1>6 DEF u

LEMMA RegionOfOneIsWell ==
  ASSUME NEW i, NEW a, Plain(i.loc, a), Atomic(i.op)
  PROVE  LiftedWell(i, <<AtomicBegin, a, AtomicEnd>>)
<1> DEFINE u == <<AtomicBegin, a, AtomicEnd>>
<1>1. DOMAIN u = 1..3 /\ Len(u) = 3 /\ \A k \in 1..3 : k = 1 \/ k = 2 \/ k = 3
  BY Tuples
<1>2. u[1] = AtomicBegin /\ u[2] = a /\ u[3] = AtomicEnd
  OBVIOUS
<1> HIDE DEF u
<1>3. \A j, k \in DOMAIN u : ~Apart(u[j], u[k]) => j = k
  BY <1>1, <1>2, RegionFields
<1>4. \A k \in DOMAIN u : /\ IsBegin(u[k]) => k = 1 /\ u[k] = AtomicBegin
                          /\ IsEnd(u[k]) => k = 3 /\ u[k] = AtomicEnd
                          /\ u[k].kinds \subseteq {"R", "W"}
                          /\ u[k].kinds # {} => u[k].loc = i.loc
                          /\ "W" \in u[k].kinds => u[k].how \in Hows
  BY <1>1, <1>2, RegionFields DEF Plain
<1>5. LiftedWell(i, u)
  BY <1>1, <1>2, <1>3, <1>4, RegionFields DEF LiftedWell
<1>6. QED
  BY <1>5 DEF u

LEMMA RegionOfTwoIsWell ==
  ASSUME NEW i, NEW a, NEW b, Plain(i.loc, a), Plain(i.loc, b), Apart(a, b),
         Atomic(i.op)
  PROVE  LiftedWell(i, <<AtomicBegin, a, b, AtomicEnd>>)
<1> DEFINE u == <<AtomicBegin, a, b, AtomicEnd>>
<1>1. /\ DOMAIN u = 1..4 /\ Len(u) = 4
      /\ \A k \in 1..4 : k = 1 \/ k = 2 \/ k = 3 \/ k = 4
  BY Tuples
<1>2. u[1] = AtomicBegin /\ u[2] = a /\ u[3] = b /\ u[4] = AtomicEnd
  OBVIOUS
<1>3. Apart(b, a)
  BY DEF Apart
<1> HIDE DEF u
<1>4. \A j, k \in DOMAIN u : ~Apart(u[j], u[k]) => j = k
  BY <1>1, <1>2, <1>3, RegionFields
<1>5. \A k \in DOMAIN u : /\ IsBegin(u[k]) => k = 1 /\ u[k] = AtomicBegin
                          /\ IsEnd(u[k]) => k = 4 /\ u[k] = AtomicEnd
                          /\ u[k].kinds \subseteq {"R", "W"}
                          /\ u[k].kinds # {} => u[k].loc = i.loc
                          /\ "W" \in u[k].kinds => u[k].how \in Hows
  BY <1>1, <1>2, RegionFields DEF Plain
<1>6. LiftedWell(i, u)
  BY <1>1, <1>2, <1>4, <1>5, RegionFields DEF LiftedWell
<1>7. QED
  BY <1>6 DEF u

LEMMA LiftIsWell ==
  ASSUME NEW i, i.op \in Ops, NEW monitor
  PROVE  LiftedWell(i, LiftIntoBlock(i, monitor))
<1> DEFINE l == i.loc
           u == LiftIntoBlock(i, monitor)
<1>1. Lifted(i, monitor)
  BY LiftedShape
<1>2. Atomic(i.op) <=> i.op \in {"lock_add", "xchg", "cmpxchg", "xadd",
                                 "ldxr", "ldaxr", "stlxr"}
  BY Zenon DEF Atomic
<1>3. CASE i.op = "store"
  <2>1. u = <<Write(l, "one")>>
    BY <1>1, <1>3, Zenon DEF Lifted
  <2>2. LiftedWell(i, <<Write(l, "one")>>)
    BY <1>2, <1>3, OneIsWell, ReadFields, AccessFields, BarrierFields DEF Hows
  <2>3. QED
    BY <2>1, <2>2
<1>4. CASE i.op = "load"
  <2>1. u = <<Read(l)>>
    BY <1>1, <1>4, Zenon DEF Lifted
  <2>2. LiftedWell(i, <<Read(l)>>)
    BY <1>2, <1>4, OneIsWell, ReadFields, AccessFields, BarrierFields DEF Hows
  <2>3. QED
    BY <2>1, <2>2
<1>5. CASE i.op = "lock_add"
  <2>1. u = <<AtomicBegin, Read(l), Write(l, "inc"), AtomicEnd>>
    BY <1>1, <1>5, Zenon DEF Lifted
  <2>2. LiftedWell(i, <<AtomicBegin, Read(l), Write(l, "inc"), AtomicEnd>>)
    BY <1>2, <1>5, RegionOfTwoIsWell, ReadFields, AccessFields, BarrierFields DEF Hows
  <2>3. QED
    BY <2>1, <2>2
<1>6. CASE i.op = "xchg"
  <2>1. u = <<AtomicBegin, Read(l), Write(l, "one"), AtomicEnd>>
    BY <1>1, <1>6, Zenon DEF Lifted
  <2>2. LiftedWell(i, <<AtomicBegin, Read(l), Write(l, "one"), AtomicEnd>>)
    BY <1>2, <1>6, RegionOfTwoIsWell, ReadFields, AccessFields, BarrierFields DEF Hows
  <2>3. QED
    BY <2>1, <2>2
<1>7. CASE i.op = "cmpxchg"
  <2>1. u = <<AtomicBegin, Update(l, "one_if_zero"), AtomicEnd>>
    BY <1>1, <1>7, Zenon DEF Lifted
  <2>2. LiftedWell(i, <<AtomicBegin, Update(l, "one_if_zero"), AtomicEnd>>)
    BY <1>2, <1>7, RegionOfOneIsWell, ReadFields, AccessFields, BarrierFields DEF Hows
  <2>3. QED
    BY <2>1, <2>2
<1>8. CASE i.op = "xadd"
  <2>1. u = <<AtomicBegin, Update(l, "inc"), AtomicEnd>>
    BY <1>1, <1>8, Zenon DEF Lifted
  <2>2. LiftedWell(i, <<AtomicBegin, Update(l, "inc"), AtomicEnd>>)
    BY <1>2, <1>8, RegionOfOneIsWell, ReadFields, AccessFields, BarrierFields DEF Hows
  <2>3. QED
    BY <2>1, <2>2
<1>9. CASE i.op = "mfence"
  <2>1. u = <<Barrier({"W"}, {"R"})>>
    BY <1>1, <1>9, Zenon DEF Lifted
  <2>2. LiftedWell(i, <<Barrier({"W"}, {"R"})>>)
    BY <1>2, <1>9, OneIsWell, ReadFields, AccessFields, BarrierFields DEF Hows
  <2>3. QED
    BY <2>1, <2>2
<1>10. CASE i.op = "lfence"
  <2>1. u = <<Barrier({"R"}, {"R"})>>
    BY <1>1, <1>10, Zenon DEF Lifted
  <2>2. LiftedWell(i, <<Barrier({"R"}, {"R"})>>)
    BY <1>2, <1>10, OneIsWell, ReadFields, AccessFields, BarrierFields DEF Hows
  <2>3. QED
    BY <2>1, <2>2
<1>11. CASE i.op = "sfence"
  <2>1. u = <<Barrier({"W"}, {"W"})>>
    BY <1>1, <1>11, Zenon DEF Lifted
  <2>2. LiftedWell(i, <<Barrier({"W"}, {"W"})>>)
    BY <1>2, <1>11, OneIsWell, ReadFields, AccessFields, BarrierFields DEF Hows
  <2>3. QED
    BY <2>1, <2>2
<1>12. CASE i.op = "dmb"
  <2>1. u = <<Barrier({"W"}, {"W"})>>
    BY <1>1, <1>12, Zenon DEF Lifted
  <2>2. LiftedWell(i, <<Barrier({"W"}, {"W"})>>)
    BY <1>2, <1>12, OneIsWell, ReadFields, AccessFields, BarrierFields DEF Hows
  <2>3. QED
    BY <2>1, <2>2
<1>13. CASE i.op = "ldxr"
  <2>1. u = <<AtomicBegin, Read(l), AtomicEnd>>
    BY <1>1, <1>13, Zenon DEF Lifted
  <2>2. LiftedWell(i, <<AtomicBegin, Read(l), AtomicEnd>>)
    BY <1>2, <1>13, RegionOfOneIsWell, ReadFields, AccessFields, BarrierFields DEF Hows
  <2>3. QED
    BY <2>1, <2>2
<1>14. CASE i.op = "ldaxr"
  <2>1. u = <<AtomicBegin, Barrier({"R"}, {"W"}), Read(l), AtomicEnd>>
    BY <1>1, <1>14, Zenon DEF Lifted
  <2>2. LiftedWell(i, <<AtomicBegin, Barrier({"R"}, {"W"}), Read(l), AtomicEnd>>)
    BY <1>2, <1>14, RegionOfTwoIsWell, ReadFields, AccessFields, BarrierFields DEF Hows
  <2>3. QED
    BY <2>1, <2>2
<1>15. CASE i.op = "ldar"
  <2>1. u = <<Barrier({"R"}, {"W"}), Read(l)>>
    BY <1>1, <1>15, Zenon DEF Lifted
  <2>2. LiftedWell(i, <<Barrier({"R"}, {"W"}), Read(l)>>)
    BY <1>2, <1>15, TwoAreWell, ReadFields, AccessFields, BarrierFields DEF Hows
  <2>3. QED
    BY <2>1, <2>2
<1>16. CASE i.op = "stlr"
  <2>1. u = <<Write(l, "one"), Barrier({"W"}, {"W"})>>
    BY <1>1, <1>16, Zenon DEF Lifted
  <2>2. LiftedWell(i, <<Write(l, "one"), Barrier({"W"}, {"W"})>>)
    BY <1>2, <1>16, TwoAreWell, ReadFields, AccessFields, BarrierFields DEF Hows
  <2>3. QED
    BY <2>1, <2>2
<1>17. CASE i.op = "stlxr" /\ monitor = l
  <2>1. u = <<AtomicBegin, Write(l, "inc"), Barrier({"W"}, {"W"}), AtomicEnd>>
    BY <1>1, <1>17, Zenon DEF Lifted
  <2>2. LiftedWell(i, <<AtomicBegin, Write(l, "inc"), Barrier({"W"}, {"W"}), AtomicEnd>>)
    BY <1>2, <1>17, RegionOfTwoIsWell, ReadFields, AccessFields, BarrierFields DEF Hows
  <2>3. QED
    BY <2>1, <2>2
<1>18. CASE i.op = "stlxr" /\ monitor # l
  <2>1. u = <<AtomicBegin, Barrier({"W"}, {"W"}), AtomicEnd>>
    BY <1>1, <1>18, Zenon DEF Lifted
  <2>2. LiftedWell(i, <<AtomicBegin, Barrier({"W"}, {"W"}), AtomicEnd>>)
    BY <1>2, <1>18, RegionOfOneIsWell, ReadFields, AccessFields, BarrierFields DEF Hows
  <2>3. QED
    BY <2>1, <2>2
<1>19. CASE i.op = "new_trace"
  <2>1. u = <<>>
    BY <1>1, <1>19, Zenon DEF Lifted
  <2>2. DOMAIN <<>> = 1..0 /\ Len(<<>>) = 0 /\ \A k \in 1..0 : FALSE
    OBVIOUS
  <2>3. LiftedWell(i, <<>>)
    BY <1>2, <1>19, <2>2 DEF LiftedWell
  <2>4. QED
    BY <2>1, <2>3
<1>20. QED
  BY <1>3, <1>4, <1>5, <1>6, <1>7, <1>8, <1>9, <1>10, <1>11, <1>12, <1>13,
     <1>14, <1>15, <1>16, <1>17, <1>18, <1>19 DEF Ops, X86Ops, AArch64Ops

LEMMA TupleElements ==
  ASSUME NEW a, NEW b, NEW c, NEW d
  PROVE  /\ \A k \in DOMAIN <<a>> : <<a>>[k] = a
         /\ \A k \in DOMAIN <<a, b>> : <<a, b>>[k] \in {a, b}
         /\ \A k \in DOMAIN <<a, b, c>> : <<a, b, c>>[k] \in {a, b, c}
         /\ \A k \in DOMAIN <<a, b, c, d>> : <<a, b, c, d>>[k] \in {a, b, c, d}
<1>1. \A k \in DOMAIN <<a>> : <<a>>[k] = a
  BY Tuples
<1>2. \A k \in DOMAIN <<a, b>> : <<a, b>>[k] \in {a, b}
  BY Tuples
<1>3. \A k \in DOMAIN <<a, b, c>> : <<a, b, c>>[k] \in {a, b, c}
  BY Tuples
<1>4. \A k \in DOMAIN <<a, b, c, d>> : <<a, b, c, d>>[k] \in {a, b, c, d}
  BY Tuples
<1>5. QED
  BY <1>1, <1>2, <1>3, <1>4

LEMMA LiftWrites ==
  ASSUME NEW i, i.op \in Ops, NEW monitor
  PROVE  LiftedWrites(i, monitor, LiftIntoBlock(i, monitor))
<1> DEFINE l == i.loc
           u == LiftIntoBlock(i, monitor)
<1>1. Lifted(i, monitor)
  BY LiftedShape
<1>2. i.op = "xchg" => \E j, k \in DOMAIN u : j < k /\ u[j] = Read(l) /\ u[k] = Write(l, "one")
  <2> SUFFICES ASSUME i.op = "xchg"
               PROVE  \E j, k \in DOMAIN u : j < k /\ u[j] = Read(l) /\ u[k] = Write(l, "one")
    OBVIOUS
  <2>1. u = <<AtomicBegin, Read(l), Write(l, "one"), AtomicEnd>>
    BY <1>1, Zenon DEF Lifted
  <2> HIDE DEF u
  <2>2. DOMAIN u = 1..4 /\ u[2] = Read(l) /\ u[3] = Write(l, "one")
    BY <2>1
  <2>3. QED
    BY <2>2
<1>3. i.op = "lock_add" => \E j \in DOMAIN u : j = 2 /\ u[j] = Read(l)
  <2> SUFFICES ASSUME i.op = "lock_add"
               PROVE  \E j \in DOMAIN u : j = 2 /\ u[j] = Read(l)
    OBVIOUS
  <2>1. u = <<AtomicBegin, Read(l), Write(l, "inc"), AtomicEnd>>
    BY <1>1, Zenon DEF Lifted
  <2> HIDE DEF u
  <2>2. QED
    BY <2>1
<1>4. i.op = "cmpxchg" => \E j \in DOMAIN u : u[j] = Update(l, "one_if_zero")
  <2> SUFFICES ASSUME i.op = "cmpxchg"
               PROVE  \E j \in DOMAIN u : u[j] = Update(l, "one_if_zero")
    OBVIOUS
  <2>1. u = <<AtomicBegin, Update(l, "one_if_zero"), AtomicEnd>>
    BY <1>1, Zenon DEF Lifted
  <2> HIDE DEF u
  <2>2. DOMAIN u = 1..3 /\ u[2] = Update(l, "one_if_zero")
    BY <2>1
  <2>3. QED
    BY <2>2
<1>5. i.op \in {"ldxr", "ldaxr"} => \E k \in DOMAIN u : u[k] = Read(l)
  <2>1. ASSUME i.op = "ldxr" PROVE \E k \in DOMAIN u : u[k] = Read(l)
    <3>1. u = <<AtomicBegin, Read(l), AtomicEnd>>
      BY <1>1, <2>1, Zenon DEF Lifted
    <3> HIDE DEF u
    <3>2. DOMAIN u = 1..3 /\ u[2] = Read(l)
      BY <3>1
    <3>3. QED
      BY <3>2
  <2>2. ASSUME i.op = "ldaxr" PROVE \E k \in DOMAIN u : u[k] = Read(l)
    <3>1. u = <<AtomicBegin, Barrier({"R"}, {"W"}), Read(l), AtomicEnd>>
      BY <1>1, <2>2, Zenon DEF Lifted
    <3> HIDE DEF u
    <3>2. DOMAIN u = 1..4 /\ u[3] = Read(l)
      BY <3>1
    <3>3. QED
      BY <3>2
  <2>3. QED
    BY <2>1, <2>2
<1> DEFINE Well == \A k \in DOMAIN u : Counts(u[k]) =>
                     \/ i.op = "xadd" /\ u[k].kinds = {"R", "W"}
                     \/ i.op = "stlxr" /\ monitor = l /\ u[k].kinds = {"W"}
                     \/ /\ i.op = "lock_add" /\ u[k].kinds = {"W"}
                        /\ \E j \in DOMAIN u : j < k /\ u[j] = Read(l)
<1> HIDE DEF u
<1>6. ASSUME i.op = "store" PROVE Well
  <2>1. u = <<Write(l, "one")>>
    BY <1>1, <1>6, Zenon DEF Lifted, u
  <2>2. \A k \in DOMAIN u : u[k] = Write(l, "one")
    BY <2>1, TupleElements
  <2>3. \A k \in DOMAIN u : ~Counts(u[k])
    BY <2>2, ReadFields, AccessFields, BarrierFields, RegionFields
  <2>4. QED
    BY <1>6, <2>3
<1>7. ASSUME i.op = "load" PROVE Well
  <2>1. u = <<Read(l)>>
    BY <1>1, <1>7, Zenon DEF Lifted, u
  <2>2. \A k \in DOMAIN u : u[k] = Read(l)
    BY <2>1, TupleElements
  <2>3. \A k \in DOMAIN u : ~Counts(u[k])
    BY <2>2, ReadFields, AccessFields, BarrierFields, RegionFields
  <2>4. QED
    BY <1>7, <2>3
<1>8. ASSUME i.op = "lock_add" PROVE Well
  <2>1. u = <<AtomicBegin, Read(l), Write(l, "inc"), AtomicEnd>>
    BY <1>1, <1>8, Zenon DEF Lifted, u
  <2>2. DOMAIN u = 1..4 /\ u[1] = AtomicBegin /\ u[2] = Read(l)
    BY <2>1
  <2>3. \A k \in DOMAIN u : Counts(u[k]) => k > 2
    BY <2>2, ReadFields, AccessFields, RegionFields
  <2>4. \A k \in DOMAIN u : u[k] \in {AtomicBegin, Read(l), Write(l, "inc"), AtomicEnd}
    BY <2>1, TupleElements
  <2>5. \A k \in DOMAIN u : Counts(u[k]) => u[k].kinds = {"W"}
    BY <2>4, ReadFields, AccessFields, RegionFields
  <2>6. QED
    BY <1>3, <1>8, <2>3, <2>5
<1>9. ASSUME i.op = "xchg" PROVE Well
  <2>1. u = <<AtomicBegin, Read(l), Write(l, "one"), AtomicEnd>>
    BY <1>1, <1>9, Zenon DEF Lifted, u
  <2>2. \A k \in DOMAIN u : u[k] \in {AtomicBegin, Read(l), Write(l, "one"), AtomicEnd}
    BY <2>1, TupleElements
  <2>3. \A k \in DOMAIN u : ~Counts(u[k])
    BY <2>2, ReadFields, AccessFields, BarrierFields, RegionFields
  <2>4. QED
    BY <1>9, <2>3
<1>10. ASSUME i.op = "cmpxchg" PROVE Well
  <2>1. u = <<AtomicBegin, Update(l, "one_if_zero"), AtomicEnd>>
    BY <1>1, <1>10, Zenon DEF Lifted, u
  <2>2. \A k \in DOMAIN u : u[k] \in {AtomicBegin, Update(l, "one_if_zero"), AtomicEnd}
    BY <2>1, TupleElements
  <2>3. \A k \in DOMAIN u : ~Counts(u[k])
    BY <2>2, ReadFields, AccessFields, BarrierFields, RegionFields
  <2>4. QED
    BY <1>10, <2>3
<1>11. ASSUME i.op = "xadd" PROVE Well
  <2>1. u = <<AtomicBegin, Update(l, "inc"), AtomicEnd>>
    BY <1>1, <1>11, Zenon DEF Lifted, u
  <2>2. \A k \in DOMAIN u : u[k] \in {AtomicBegin, Update(l, "inc"), AtomicEnd}
    BY <2>1, TupleElements
  <2>3. \A k \in DOMAIN u : Counts(u[k]) => u[k].kinds = {"R", "W"}
    BY <2>2, ReadFields, AccessFields, BarrierFields, RegionFields
  <2>4. QED
    BY <1>11, <2>3
<1>12. ASSUME i.op = "mfence" PROVE Well
  <2>1. u = <<Barrier({"W"}, {"R"})>>
    BY <1>1, <1>12, Zenon DEF Lifted, u
  <2>2. \A k \in DOMAIN u : u[k] = Barrier({"W"}, {"R"})
    BY <2>1, TupleElements
  <2>3. \A k \in DOMAIN u : ~Counts(u[k])
    BY <2>2, ReadFields, AccessFields, BarrierFields, RegionFields
  <2>4. QED
    BY <1>12, <2>3
<1>13. ASSUME i.op = "lfence" PROVE Well
  <2>1. u = <<Barrier({"R"}, {"R"})>>
    BY <1>1, <1>13, Zenon DEF Lifted, u
  <2>2. \A k \in DOMAIN u : u[k] = Barrier({"R"}, {"R"})
    BY <2>1, TupleElements
  <2>3. \A k \in DOMAIN u : ~Counts(u[k])
    BY <2>2, ReadFields, AccessFields, BarrierFields, RegionFields
  <2>4. QED
    BY <1>13, <2>3
<1>14. ASSUME i.op = "sfence" PROVE Well
  <2>1. u = <<Barrier({"W"}, {"W"})>>
    BY <1>1, <1>14, Zenon DEF Lifted, u
  <2>2. \A k \in DOMAIN u : u[k] = Barrier({"W"}, {"W"})
    BY <2>1, TupleElements
  <2>3. \A k \in DOMAIN u : ~Counts(u[k])
    BY <2>2, ReadFields, AccessFields, BarrierFields, RegionFields
  <2>4. QED
    BY <1>14, <2>3
<1>15. ASSUME i.op = "dmb" PROVE Well
  <2>1. u = <<Barrier({"W"}, {"W"})>>
    BY <1>1, <1>15, Zenon DEF Lifted, u
  <2>2. \A k \in DOMAIN u : u[k] = Barrier({"W"}, {"W"})
    BY <2>1, TupleElements
  <2>3. \A k \in DOMAIN u : ~Counts(u[k])
    BY <2>2, ReadFields, AccessFields, BarrierFields, RegionFields
  <2>4. QED
    BY <1>15, <2>3
<1>16. ASSUME i.op = "ldxr" PROVE Well
  <2>1. u = <<AtomicBegin, Read(l), AtomicEnd>>
    BY <1>1, <1>16, Zenon DEF Lifted, u
  <2>2. \A k \in DOMAIN u : u[k] \in {AtomicBegin, Read(l), AtomicEnd}
    BY <2>1, TupleElements
  <2>3. \A k \in DOMAIN u : ~Counts(u[k])
    BY <2>2, ReadFields, AccessFields, BarrierFields, RegionFields
  <2>4. QED
    BY <1>16, <2>3
<1>17. ASSUME i.op = "ldaxr" PROVE Well
  <2>1. u = <<AtomicBegin, Barrier({"R"}, {"W"}), Read(l), AtomicEnd>>
    BY <1>1, <1>17, Zenon DEF Lifted, u
  <2>2. \A k \in DOMAIN u : u[k] \in {AtomicBegin, Barrier({"R"}, {"W"}), Read(l), AtomicEnd}
    BY <2>1, TupleElements
  <2>3. \A k \in DOMAIN u : ~Counts(u[k])
    BY <2>2, ReadFields, AccessFields, BarrierFields, RegionFields
  <2>4. QED
    BY <1>17, <2>3
<1>18. ASSUME i.op = "ldar" PROVE Well
  <2>1. u = <<Barrier({"R"}, {"W"}), Read(l)>>
    BY <1>1, <1>18, Zenon DEF Lifted, u
  <2>2. \A k \in DOMAIN u : u[k] \in {Barrier({"R"}, {"W"}), Read(l)}
    BY <2>1, TupleElements
  <2>3. \A k \in DOMAIN u : ~Counts(u[k])
    BY <2>2, ReadFields, AccessFields, BarrierFields, RegionFields
  <2>4. QED
    BY <1>18, <2>3
<1>19. ASSUME i.op = "stlr" PROVE Well
  <2>1. u = <<Write(l, "one"), Barrier({"W"}, {"W"})>>
    BY <1>1, <1>19, Zenon DEF Lifted, u
  <2>2. \A k \in DOMAIN u : u[k] \in {Write(l, "one"), Barrier({"W"}, {"W"})}
    BY <2>1, TupleElements
  <2>3. \A k \in DOMAIN u : ~Counts(u[k])
    BY <2>2, ReadFields, AccessFields, BarrierFields, RegionFields
  <2>4. QED
    BY <1>19, <2>3
<1>20. ASSUME i.op = "stlxr" /\ monitor = l PROVE Well
  <2>1. u = <<AtomicBegin, Write(l, "inc"), Barrier({"W"}, {"W"}), AtomicEnd>>
    BY <1>1, <1>20, Zenon DEF Lifted, u
  <2>2. \A k \in DOMAIN u : u[k] \in {AtomicBegin, Write(l, "inc"), Barrier({"W"}, {"W"}), AtomicEnd}
    BY <2>1, TupleElements
  <2>3. \A k \in DOMAIN u : Counts(u[k]) => u[k].kinds = {"W"}
    BY <2>2, ReadFields, AccessFields, BarrierFields, RegionFields
  <2>4. QED
    BY <1>20, <2>3
<1>21. ASSUME i.op = "stlxr" /\ monitor # l PROVE Well
  <2>1. u = <<AtomicBegin, Barrier({"W"}, {"W"}), AtomicEnd>>
    BY <1>1, <1>21, Zenon DEF Lifted, u
  <2>2. \A k \in DOMAIN u : u[k] \in {AtomicBegin, Barrier({"W"}, {"W"}), AtomicEnd}
    BY <2>1, TupleElements
  <2>3. \A k \in DOMAIN u : ~Counts(u[k])
    BY <2>2, ReadFields, AccessFields, BarrierFields, RegionFields
  <2>4. QED
    BY <1>21, <2>3
<1>22. ASSUME i.op = "new_trace" PROVE Well
  <2>1. u = <<>>
    BY <1>1, <1>22, Zenon DEF Lifted, u
  <2>2. QED
    BY <2>1
<1>23. Well
  BY <1>6, <1>7, <1>8, <1>9, <1>10, <1>11, <1>12, <1>13, <1>14, <1>15, <1>16,
     <1>17, <1>18, <1>19, <1>20, <1>21, <1>22 DEF Ops, X86Ops, AArch64Ops
<1>24. LiftedWrites(i, monitor, u)
  BY <1>2, <1>4, <1>5, <1>23, Zenon DEF LiftedWrites
<1>25. QED
  BY <1>24 DEF u

LEMMA LiftFences ==
  ASSUME NEW i, i.op \in Ops, NEW monitor
  PROVE  LiftedFences(i, LiftIntoBlock(i, monitor))
<1> DEFINE l == i.loc
           u == LiftIntoBlock(i, monitor)
<1>1. Lifted(i, monitor)
  BY LiftedShape
<1>2. /\ i.op = "mfence" => u = <<Barrier({"W"}, {"R"})>>
      /\ i.op = "lfence" => u = <<Barrier({"R"}, {"R"})>>
      /\ i.op \in {"sfence", "dmb"} => u = <<Barrier({"W"}, {"W"})>>
      /\ i.op = "ldar" => u = <<Barrier({"R"}, {"W"}), Read(l)>>
      /\ i.op = "stlr" => u = <<Write(l, "one"), Barrier({"W"}, {"W"})>>
  BY <1>1, Zenon DEF Lifted
<1> HIDE DEF u
<1>3. \A x, y : /\ u = <<x>> => \E k \in DOMAIN u : u[k] = x
                /\ u = <<x, y>> => /\ \E k \in DOMAIN u : u[k] = x
                                   /\ \E k \in DOMAIN u : u[k] = y
  <2> SUFFICES ASSUME NEW x, NEW y
               PROVE  /\ u = <<x>> => \E k \in DOMAIN u : u[k] = x
                      /\ u = <<x, y>> => /\ \E k \in DOMAIN u : u[k] = x
                                         /\ \E k \in DOMAIN u : u[k] = y
    OBVIOUS
  <2>1. u = <<x>> => 1 \in DOMAIN u /\ u[1] = x
    OBVIOUS
  <2>2. u = <<x, y>> => 1 \in DOMAIN u /\ 2 \in DOMAIN u /\ u[1] = x /\ u[2] = y
    OBVIOUS
  <2>3. QED
    BY <2>1, <2>2
<1>4. LiftedFences(i, u)
  BY <1>2, <1>3 DEF LiftedFences
<1>5. QED
  BY <1>4 DEF u

-----------------------------------------------------------------------------
(***************************************************************************)
(* The code of a program: the intrinsics of its instructions, in order.    *)
(***************************************************************************)
Lift(p, n) == LiftIntoBlock(p[n], Monitor(p)[n - 1])

Laid(p, c, b) ==
  /\ b \in [DOMAIN p -> Nat] /\ DOMAIN c = 1..Len(c) /\ Len(c) \in Nat
  /\ \A n \in DOMAIN p : \A k \in DOMAIN Lift(p, n) :
       /\ b[n] + k \in DOMAIN c
       /\ c[b[n] + k].inst = n /\ c[b[n] + k].do = Lift(p, n)[k]
  /\ \A m, n \in DOMAIN p : m < n => b[m] + Len(Lift(p, m)) <= b[n]
  /\ \A i \in DOMAIN c : \E n \in DOMAIN p : \E k \in DOMAIN Lift(p, n) : i = b[n] + k

Program(p) ==
  /\ DOMAIN p = 1..Len(p) /\ Len(p) \in Nat
  /\ \A n \in DOMAIN p : p[n] \in [op : Ops, loc : Locations]

LEMMA CodeIsLaid ==
  ASSUME NEW p, Program(p)
  PROVE  \E b : Laid(p, Code(p), b)
<1> DEFINE N == Len(p)
           s == [n \in DOMAIN p |-> [k \in DOMAIN Lift(p, n) |->
                                       [inst |-> n, do |-> Lift(p, n)[k]]]]
           E == {s[n][k] : n \in 1..N, k \in Nat}
<1>1. N \in Nat /\ DOMAIN p = 1..N
  BY DEF Program
<1>2. Code(p) = FlattenSeq(s)
  BY DEF Code, Lift
<1>3. \A n \in 1..N : /\ DOMAIN Lift(p, n) = 1..Len(Lift(p, n))
                      /\ Len(Lift(p, n)) \in Nat
  <2> SUFFICES ASSUME NEW n \in 1..N
               PROVE  /\ DOMAIN Lift(p, n) = 1..Len(Lift(p, n))
                      /\ Len(Lift(p, n)) \in Nat
    OBVIOUS
  <2>1. LiftedWell(p[n], Lift(p, n))
    <3>1. p[n].op \in Ops
      BY <1>1 DEF Program
    <3>2. QED
      BY <3>1, LiftIsWell DEF Lift
  <2>2. QED
    BY <2>1 DEF LiftedWell
<1>4. \A n \in 1..N :
        /\ s[n] = [k \in 1..Len(Lift(p, n)) |-> [inst |-> n, do |-> Lift(p, n)[k]]]
        /\ Len(s[n]) = Len(Lift(p, n))
        /\ \A k \in 1..Len(Lift(p, n)) : /\ s[n][k].inst = n
                                         /\ s[n][k].do = Lift(p, n)[k]
  <2> SUFFICES ASSUME NEW n \in 1..N
               PROVE  /\ s[n] = [k \in 1..Len(Lift(p, n)) |-> [inst |-> n, do |-> Lift(p, n)[k]]]
                      /\ Len(s[n]) = Len(Lift(p, n))
                      /\ \A k \in 1..Len(Lift(p, n)) : /\ s[n][k].inst = n
                                                       /\ s[n][k].do = Lift(p, n)[k]
    OBVIOUS
  <2> DEFINE u == Lift(p, n)
             v == s[n]
  <2>1. DOMAIN u = 1..Len(u) /\ Len(u) \in Nat
    BY <1>3
  <2>2. v = [k \in DOMAIN u |-> [inst |-> n, do |-> u[k]]]
    BY <1>1
  <2> HIDE DEF u, v
  <2>3. Len(v) = Len(u)
    BY <2>1, <2>2
  <2>4. /\ v = [k \in 1..Len(u) |-> [inst |-> n, do |-> u[k]]] /\ Len(v) = Len(u)
        /\ \A k \in 1..Len(u) : v[k].inst = n /\ v[k].do = u[k]
    BY <2>1, <2>2, <2>3
  <2>5. QED
    BY <2>4 DEF u, v
<1>5. s = [n \in 1..N |-> s[n]]
  BY <1>1
<1> HIDE DEF s
<1>6. ASSUME NEW n \in 1..N PROVE s[n] \in Seq(E)
  <2> DEFINE v == s[n]
             K == Len(Lift(p, n))
  <2>1. K \in Nat /\ v = [k \in 1..K |-> [inst |-> n, do |-> Lift(p, n)[k]]]
    BY <1>3, <1>4
  <2>2. \A k \in 1..K : k \in Nat
    BY <2>1
  <2>3. \A k \in 1..K : v[k] \in E
    BY <2>2
  <2> HIDE DEF v, E, K
  <2>4. v \in [1..K -> E]
    BY <2>1, <2>3
  <2>5. v \in Seq(E)
    BY <2>1, <2>4
  <2>6. QED
    BY <2>5 DEF v
<1> HIDE DEF E, N
<1>7. PICK b : Flattened(FlattenSeq(s), s, b, N)
  BY <1>1, <1>5, <1>6, FlattenSeqFacts
<1> DEFINE c == FlattenSeq(s)
<1> HIDE DEF c
<1>8. /\ b \in [1..N -> Nat] /\ DOMAIN c = 1..Len(c) /\ Len(c) \in Nat
      /\ \A n \in 1..N : Len(s[n]) \in Nat /\ b[n] + Len(s[n]) <= Len(c)
      /\ \A n \in 1..N : \A k \in 1..Len(s[n]) : c[b[n] + k] = s[n][k]
      /\ \A m, n \in 1..N : m < n => b[m] + Len(s[m]) <= b[n]
      /\ \A i \in 1..Len(c) : \E n \in 1..N : \E k \in 1..Len(s[n]) : i = b[n] + k
  BY <1>7, Zenon DEF Flattened, c
<1>9. ASSUME NEW n \in DOMAIN p, NEW k \in DOMAIN Lift(p, n)
      PROVE  /\ b[n] + k \in DOMAIN c
             /\ c[b[n] + k].inst = n /\ c[b[n] + k].do = Lift(p, n)[k]
  <2>1. n \in 1..N /\ k \in 1..Len(s[n]) /\ k \in 1..Len(Lift(p, n))
    BY <1>1, <1>3, <1>4
  <2>2. c[b[n] + k] = s[n][k] /\ b[n] \in Nat /\ b[n] + Len(s[n]) <= Len(c)
        /\ Len(s[n]) \in Nat
    BY <1>8, <2>1
  <2>3. b[n] + k \in 1..Len(c)
    BY <1>8, <2>1, <2>2
  <2>4. s[n][k].inst = n /\ s[n][k].do = Lift(p, n)[k]
    BY <1>4, <2>1
  <2>5. QED
    BY <1>8, <2>2, <2>3, <2>4
<1>10. ASSUME NEW m \in DOMAIN p, NEW n \in DOMAIN p, m < n
       PROVE  b[m] + Len(Lift(p, m)) <= b[n]
  BY <1>1, <1>4, <1>8, <1>10
<1>11. ASSUME NEW i \in DOMAIN c
       PROVE  \E n \in DOMAIN p : \E k \in DOMAIN Lift(p, n) : i = b[n] + k
  <2>1. PICK n \in 1..N : \E k \in 1..Len(s[n]) : i = b[n] + k
    BY <1>8
  <2>2. 1..Len(s[n]) = DOMAIN Lift(p, n)
    BY <1>3, <1>4
  <2>3. QED
    BY <1>1, <2>1, <2>2
<1>12. Laid(p, c, b)
  BY <1>1, <1>8, <1>9, <1>10, <1>11 DEF Laid
<1>13. QED
  BY <1>2, <1>12 DEF c

\* The intrinsics of instruction n lie between b and e.
RegionIs(c, b, e, n) ==
  /\ b \in DOMAIN c /\ c[b].inst = n /\ IsBegin(c[b].do)
  /\ e \in DOMAIN c /\ c[e].inst = n /\ IsEnd(c[e].do)
  /\ \A j \in DOMAIN c : c[j].inst = n => b <= j /\ j <= e

\* The order of the code, and its regions.
Shape(p, c) ==
  /\ DOMAIN c = 1..Len(c) /\ Len(c) \in Nat
  /\ \A i \in DOMAIN c : c[i].inst \in DOMAIN p
  /\ \A i, j \in DOMAIN c : c[i].inst < c[j].inst => i < j
  /\ \A i \in DOMAIN c : /\ c[i].do.kinds \subseteq {"R", "W"}
                         /\ c[i].do.kinds # {} => c[i].do.loc = p[c[i].inst].loc
                         /\ "W" \in c[i].do.kinds => c[i].do.how \in Hows
  /\ \A i, j \in DOMAIN c : c[i].inst = c[j].inst /\ ~Apart(c[i].do, c[j].do) => i = j
  /\ \A n \in DOMAIN p : Atomic(p[n].op) => \E b, e \in DOMAIN c : RegionIs(c, b, e, n)
  /\ \A i \in DOMAIN c :
       /\ IsBegin(c[i].do) => Atomic(p[c[i].inst].op) /\ c[i].do = AtomicBegin
       /\ IsEnd(c[i].do) => Atomic(p[c[i].inst].op) /\ c[i].do = AtomicEnd
  /\ \A i, j \in DOMAIN c : c[i].inst = c[j].inst /\ IsBegin(c[i].do) /\ IsBegin(c[j].do) => i = j
  /\ \A i, j \in DOMAIN c : c[i].inst = c[j].inst /\ IsEnd(c[i].do) /\ IsEnd(c[j].do) => i = j

\* Instruction n has the intrinsic d.
Has(c, n, d) == \E k \in DOMAIN c : c[k].inst = n /\ c[k].do = d

\* What it reads and writes, and its fences.
Effects(p, c) ==
  /\ \A n \in DOMAIN p :
       LET op == p[n].op
           l == p[n].loc IN
       /\ op = "xchg" => \E j, k \in DOMAIN c :
                           /\ j < k /\ c[j].inst = n /\ c[k].inst = n
                           /\ c[j].do = Read(l) /\ c[k].do = Write(l, "one")
       /\ op = "cmpxchg" => Has(c, n, Update(l, "one_if_zero"))
       /\ op \in {"ldxr", "ldaxr"} => Has(c, n, Read(l))
       /\ op = "mfence" => Has(c, n, Barrier({"W"}, {"R"}))
       /\ op \in {"sfence", "dmb", "stlr"} => Has(c, n, Barrier({"W"}, {"W"}))
       /\ op = "ldar" => Has(c, n, Barrier({"R"}, {"W"}))
       /\ op = "lfence" => Has(c, n, Barrier({"R"}, {"R"}))
  /\ \A i \in DOMAIN c : Counts(c[i].do) =>
       LET n == c[i].inst IN
       \/ p[n].op = "xadd" /\ c[i].do.kinds = {"R", "W"}
       \/ p[n].op = "stlxr" /\ Monitor(p)[n - 1] = p[n].loc /\ c[i].do.kinds = {"W"}
       \/ /\ p[n].op = "lock_add" /\ c[i].do.kinds = {"W"}
          /\ \E j \in DOMAIN c : j < i /\ c[j].inst = n /\ c[j].do = Read(p[n].loc)

LEMMA CodeFacts ==
  ASSUME NEW p, Program(p)
  PROVE  Shape(p, Code(p)) /\ Effects(p, Code(p))
<1> DEFINE c == Code(p)
<1>1. PICK b : Laid(p, c, b)
  BY CodeIsLaid
<1> HIDE DEF c
<1>2. /\ b \in [DOMAIN p -> Nat] /\ DOMAIN c = 1..Len(c) /\ Len(c) \in Nat
      /\ \A n \in DOMAIN p : \A k \in DOMAIN Lift(p, n) :
           /\ b[n] + k \in DOMAIN c
           /\ c[b[n] + k].inst = n /\ c[b[n] + k].do = Lift(p, n)[k]
      /\ \A m, n \in DOMAIN p : m < n => b[m] + Len(Lift(p, m)) <= b[n]
      /\ \A i \in DOMAIN c : \E n \in DOMAIN p : \E k \in DOMAIN Lift(p, n) : i = b[n] + k
  BY <1>1, Zenon DEF Laid
<1>3. \A n \in DOMAIN p : /\ LiftedWell(p[n], Lift(p, n))
                          /\ LiftedWrites(p[n], Monitor(p)[n - 1], Lift(p, n))
                          /\ LiftedFences(p[n], Lift(p, n))
  <2>1. \A n \in DOMAIN p : p[n].op \in Ops
    BY DEF Program
  <2>2. QED
    BY <2>1, LiftIsWell, LiftWrites, LiftFences DEF Lift
<1>4. \A i \in DOMAIN c : \E k \in DOMAIN Lift(p, c[i].inst) :
        /\ c[i].inst \in DOMAIN p /\ i = b[c[i].inst] + k
        /\ c[i].do = Lift(p, c[i].inst)[k]
  <2> SUFFICES ASSUME NEW i \in DOMAIN c
               PROVE  \E k \in DOMAIN Lift(p, c[i].inst) :
                        /\ c[i].inst \in DOMAIN p /\ i = b[c[i].inst] + k
                        /\ c[i].do = Lift(p, c[i].inst)[k]
    OBVIOUS
  <2>1. PICK n \in DOMAIN p : \E k \in DOMAIN Lift(p, n) : i = b[n] + k
    BY <1>2
  <2>2. PICK k \in DOMAIN Lift(p, n) : i = b[n] + k
    BY <2>1
  <2>3. c[i].inst = n /\ c[i].do = Lift(p, n)[k]
    BY <1>2, <2>2
  <2>4. QED
    BY <2>2, <2>3
<1>5. DOMAIN p \subseteq Nat
  BY DEF Program
<1>6. \A n \in DOMAIN p : /\ DOMAIN Lift(p, n) = 1..Len(Lift(p, n))
                          /\ Len(Lift(p, n)) \in Nat /\ b[n] \in Nat
  BY <1>2, <1>3 DEF LiftedWell
<1>7. ASSUME NEW i \in DOMAIN c, NEW j \in DOMAIN c, c[i].inst < c[j].inst
      PROVE  i < j
  <2>1. PICK k \in DOMAIN Lift(p, c[i].inst) : c[i].inst \in DOMAIN p /\ i = b[c[i].inst] + k
    BY <1>4
  <2>2. PICK h \in DOMAIN Lift(p, c[j].inst) : c[j].inst \in DOMAIN p /\ j = b[c[j].inst] + h
    BY <1>4
  <2>3. b[c[i].inst] + Len(Lift(p, c[i].inst)) <= b[c[j].inst]
    BY <1>2, <1>7, <2>1, <2>2
  <2> DEFINE x == b[c[i].inst]
             y == b[c[j].inst]
             z == Len(Lift(p, c[i].inst))
  <2>4. /\ x \in Nat /\ y \in Nat /\ z \in Nat /\ x + z <= y
        /\ i = x + k /\ j = y + h /\ k \in 1..z /\ h \in Nat /\ h >= 1
    BY <1>6, <2>1, <2>2, <2>3
  <2> HIDE DEF x, y, z
  <2>5. QED
    BY <2>4
<1>8. ASSUME NEW i \in DOMAIN c, NEW j \in DOMAIN c, c[i].inst = c[j].inst,
             \/ ~Apart(c[i].do, c[j].do)
             \/ IsBegin(c[i].do) /\ IsBegin(c[j].do)
             \/ IsEnd(c[i].do) /\ IsEnd(c[j].do)
      PROVE  i = j
  <2> DEFINE n == c[i].inst
             u == Lift(p, n)
  <2>1. PICK k \in DOMAIN u : n \in DOMAIN p /\ i = b[n] + k /\ c[i].do = u[k]
    BY <1>4
  <2>2. PICK h \in DOMAIN u : j = b[n] + h /\ c[j].do = u[h]
    BY <1>4, <1>8
  <2>3. LiftedWell(p[n], u)
    BY <1>3, <2>1
  <2> HIDE DEF n, u
  <2>4. k = h
    BY <1>8, <2>1, <2>2, <2>3 DEF LiftedWell
  <2>5. QED
    BY <2>1, <2>2, <2>4
<1>9. ASSUME NEW i \in DOMAIN c
      PROVE  /\ c[i].do.kinds \subseteq {"R", "W"}
             /\ c[i].do.kinds # {} => c[i].do.loc = p[c[i].inst].loc
             /\ "W" \in c[i].do.kinds => c[i].do.how \in Hows
             /\ IsBegin(c[i].do) => Atomic(p[c[i].inst].op) /\ c[i].do = AtomicBegin
             /\ IsEnd(c[i].do) => Atomic(p[c[i].inst].op) /\ c[i].do = AtomicEnd
  <2> DEFINE n == c[i].inst
             u == Lift(p, n)
  <2>1. PICK k \in DOMAIN u : n \in DOMAIN p /\ i = b[n] + k /\ c[i].do = u[k]
    BY <1>4
  <2>2. LiftedWell(p[n], u)
    BY <1>3, <2>1
  <2> HIDE DEF u
  <2>3. QED
    BY <2>1, <2>2 DEF LiftedWell
<1>10. ASSUME NEW n \in DOMAIN p, Atomic(p[n].op)
       PROVE  \E x, y \in DOMAIN c : RegionIs(c, x, y, n)
  <2> DEFINE u == Lift(p, n)
             x == b[n] + 1
             y == b[n] + Len(u)
  <2>1. LiftedWell(p[n], u)
    BY <1>3
  <2>2. /\ Len(u) \in Nat /\ Len(u) >= 2 /\ DOMAIN u = 1..Len(u) /\ b[n] \in Nat
        /\ IsBegin(u[1]) /\ IsEnd(u[Len(u)])
    BY <1>6, <1>10, <2>1, Zenon DEF LiftedWell
  <2>3. 1 \in DOMAIN u /\ Len(u) \in DOMAIN u
    BY <2>2
  <2>4. /\ x \in DOMAIN c /\ c[x].inst = n /\ IsBegin(c[x].do)
        /\ y \in DOMAIN c /\ c[y].inst = n /\ IsEnd(c[y].do)
    BY <1>2, <2>2, <2>3
  <2>5. ASSUME NEW j \in DOMAIN c, c[j].inst = n PROVE x <= j /\ j <= y
    <3>1. PICK k \in DOMAIN u : j = b[n] + k
      BY <1>4, <2>5
    <3> HIDE DEF u
    <3>2. QED
      BY <2>2, <3>1
  <2>6. QED
    BY <2>4, <2>5 DEF RegionIs
<1>11. Shape(p, c)
  BY <1>2, <1>4, <1>7, <1>8, <1>9, <1>10 DEF Shape
<1>12. ASSUME NEW n \in DOMAIN p, NEW d, \E k \in DOMAIN Lift(p, n) : Lift(p, n)[k] = d
       PROVE  Has(c, n, d)
  BY <1>2, <1>12 DEF Has
<1>13. ASSUME NEW n \in DOMAIN p
       PROVE  /\ p[n].op = "cmpxchg" => Has(c, n, Update(p[n].loc, "one_if_zero"))
              /\ p[n].op \in {"ldxr", "ldaxr"} => Has(c, n, Read(p[n].loc))
  <2>1. LiftedWrites(p[n], Monitor(p)[n - 1], Lift(p, n))
    BY <1>3
  <2>2. QED
    BY <1>12, <2>1 DEF LiftedWrites
<1>14. ASSUME NEW n \in DOMAIN p
       PROVE  /\ p[n].op = "mfence" => Has(c, n, Barrier({"W"}, {"R"}))
              /\ p[n].op \in {"sfence", "dmb", "stlr"} => Has(c, n, Barrier({"W"}, {"W"}))
              /\ p[n].op = "ldar" => Has(c, n, Barrier({"R"}, {"W"}))
              /\ p[n].op = "lfence" => Has(c, n, Barrier({"R"}, {"R"}))
  <2>1. LiftedFences(p[n], Lift(p, n))
    BY <1>3
  <2>2. QED
    BY <1>12, <2>1 DEF LiftedFences
<1>15. ASSUME NEW n \in DOMAIN p, p[n].op = "xchg"
       PROVE  \E j, k \in DOMAIN c :
                 /\ j < k /\ c[j].inst = n /\ c[k].inst = n
                 /\ c[j].do = Read(p[n].loc) /\ c[k].do = Write(p[n].loc, "one")
  <2> DEFINE u == Lift(p, n)
  <2>1. LiftedWrites(p[n], Monitor(p)[n - 1], u)
    BY <1>3
  <2>2. PICK j, k \in DOMAIN u : /\ j < k /\ u[j] = Read(p[n].loc)
                                 /\ u[k] = Write(p[n].loc, "one")
    BY <1>15, <2>1, Zenon DEF LiftedWrites
  <2>3. j \in Nat /\ k \in Nat /\ b[n] \in Nat
    BY <1>6
  <2>4. b[n] + j < b[n] + k
    BY <2>2, <2>3
  <2>5. /\ b[n] + j \in DOMAIN c /\ c[b[n] + j].inst = n /\ c[b[n] + j].do = u[j]
        /\ b[n] + k \in DOMAIN c /\ c[b[n] + k].inst = n /\ c[b[n] + k].do = u[k]
    BY <1>2
  <2>6. QED
    BY <2>2, <2>4, <2>5
<1>16. ASSUME NEW i \in DOMAIN c, Counts(c[i].do)
       PROVE  LET n == c[i].inst IN
              \/ p[n].op = "xadd" /\ c[i].do.kinds = {"R", "W"}
              \/ p[n].op = "stlxr" /\ Monitor(p)[n - 1] = p[n].loc /\ c[i].do.kinds = {"W"}
              \/ /\ p[n].op = "lock_add" /\ c[i].do.kinds = {"W"}
                 /\ \E j \in DOMAIN c : j < i /\ c[j].inst = n /\ c[j].do = Read(p[n].loc)
  <2> DEFINE n == c[i].inst
             u == Lift(p, n)
  <2>1. PICK k \in DOMAIN u : n \in DOMAIN p /\ i = b[n] + k /\ c[i].do = u[k]
    BY <1>4
  <2>2. LiftedWrites(p[n], Monitor(p)[n - 1], u)
    BY <1>3, <2>1
  <2>3. \/ p[n].op = "xadd" /\ u[k].kinds = {"R", "W"}
        \/ p[n].op = "stlxr" /\ Monitor(p)[n - 1] = p[n].loc /\ u[k].kinds = {"W"}
        \/ /\ p[n].op = "lock_add" /\ u[k].kinds = {"W"}
           /\ \E j \in DOMAIN u : j < k /\ u[j] = Read(p[n].loc)
    BY <1>16, <2>1, <2>2, Zenon DEF LiftedWrites
  <2>4. ASSUME NEW j \in DOMAIN u, j < k
        PROVE  /\ b[n] + j \in DOMAIN c /\ b[n] + j < i
               /\ c[b[n] + j].inst = n /\ c[b[n] + j].do = u[j]
    <3>1. j \in Nat /\ k \in Nat /\ b[n] \in Nat
      BY <1>6, <2>1
    <3>2. QED
      BY <1>2, <2>1, <2>4, <3>1
  <2> HIDE DEF u, n
  <2>5. \/ p[n].op = "xadd" /\ c[i].do.kinds = {"R", "W"}
        \/ p[n].op = "stlxr" /\ Monitor(p)[n - 1] = p[n].loc /\ c[i].do.kinds = {"W"}
        \/ /\ p[n].op = "lock_add" /\ c[i].do.kinds = {"W"}
           /\ \E j \in DOMAIN c : j < i /\ c[j].inst = n /\ c[j].do = Read(p[n].loc)
    BY <2>1, <2>3, <2>4
  <2>6. QED
    BY <2>5 DEF n
<1>17. Effects(p, c)
  BY <1>13, <1>14, <1>15, <1>16, Zenon DEF Effects
<1>18. QED
  BY <1>11, <1>17 DEF c

-----------------------------------------------------------------------------
(***************************************************************************)
(* MONITOR has the address of the last exclusive load, if there is one     *)
(* since the last exclusive store, in the same trace.                      *)
(***************************************************************************)
AfterInst(i, old) ==
  IF i.op \in {"ldxr", "ldaxr"} THEN i.loc
  ELSE IF i.op \in {"stlxr", "new_trace"} THEN None ELSE old
Monitors(m, p, N) == m = [n \in 0..N |-> IF n = 0 THEN None ELSE AfterInst(p[n], m[n - 1])]

LEMMA MonitorsExist ==
  ASSUME NEW p, NEW N \in Nat
  PROVE  \E m : Monitors(m, p, N)
<1> DEFINE D == {k \in Nat : ~ \E m : Monitors(m, p, k)}
<1> SUFFICES ASSUME D # {} PROVE FALSE
  OBVIOUS
<1>1. PICK x \in D : \A y \in D : x <= y
  <2>1. D \subseteq Nat
    OBVIOUS
  <2>2. QED
    BY <2>1, LeastElement
<1>2. CASE x = 0
  <2> DEFINE g == [n \in 0..0 |-> None]
  <2>1. g = [n \in 0..0 |-> IF n = 0 THEN None ELSE AfterInst(p[n], g[n - 1])]
    OBVIOUS
  <2>2. Monitors(g, p, 0)
    BY <2>1 DEF Monitors
  <2>3. QED
    BY <1>1, <1>2, <2>2
<1>3. CASE x # 0
  <2>1. x - 1 \in Nat /\ ~(x <= x - 1) /\ x \in Nat
    BY <1>3
  <2>2. PICK m : Monitors(m, p, x - 1)
    BY <1>1, <2>1
  <2> DEFINE e == AfterInst(p[x], m[x - 1])
             g == [k \in 0..x |-> IF k = x THEN e ELSE m[k]]
  <2>3. ASSUME NEW k \in 0..x
        PROVE  g[k] = IF k = 0 THEN None ELSE AfterInst(p[k], g[k - 1])
    <3>1. CASE k = x
      <4>1. x - 1 \in 0..x /\ x - 1 # x
        BY <2>1
      <4>2. g[x - 1] = m[x - 1]
        BY <4>1
      <4>3. QED
        BY <1>3, <3>1, <4>2
    <3>2. CASE k # x
      <4>1. k \in 0..x - 1 /\ g[k] = m[k]
        BY <2>1, <3>2
      <4>2. m[k] = IF k = 0 THEN None ELSE AfterInst(p[k], m[k - 1])
        BY <2>2, <4>1, Zenon DEF Monitors
      <4>3. CASE k = 0
        BY <4>1, <4>2, <4>3
      <4>4. CASE k # 0
        <5>1. k - 1 \in 0..x /\ k - 1 # x
          BY <2>1, <4>1, <4>4
        <5>2. g[k - 1] = m[k - 1]
          BY <5>1
        <5>3. QED
          BY <4>1, <4>2, <4>4, <5>2
      <4>5. QED
        BY <4>3, <4>4
    <3>3. QED
      BY <3>1, <3>2
  <2>4. g = [k \in 0..x |-> g[k]]
    OBVIOUS
  <2> HIDE DEF g
  <2>5. g = [k \in 0..x |-> IF k = 0 THEN None ELSE AfterInst(p[k], g[k - 1])]
    BY <2>3, <2>4
  <2>6. Monitors(g, p, x)
    BY <2>5 DEF Monitors
  <2>7. QED
    BY <1>1, <2>6
<1>4. QED
  BY <1>2, <1>3

LEMMA MonitorSteps ==
  ASSUME NEW p, Len(p) \in Nat
  PROVE  /\ Monitor(p)[0] = None
         /\ \A n \in 1..Len(p) : Monitor(p)[n] = AfterInst(p[n], Monitor(p)[n - 1])
<1> DEFINE m == CHOOSE f : f = [n \in 0..Len(p) |->
                  IF n = 0 THEN None
                  ELSE IF p[n].op \in {"ldxr", "ldaxr"} THEN p[n].loc
                  ELSE IF p[n].op \in {"stlxr", "new_trace"} THEN None
                  ELSE f[n - 1]]
<1>1. Monitor(p) = m
  BY DEF Monitor
<1>2. \E f : f = [n \in 0..Len(p) |->
                  IF n = 0 THEN None
                  ELSE IF p[n].op \in {"ldxr", "ldaxr"} THEN p[n].loc
                  ELSE IF p[n].op \in {"stlxr", "new_trace"} THEN None
                  ELSE f[n - 1]]
  BY MonitorsExist DEF Monitors, AfterInst
<1>3. m = [n \in 0..Len(p) |->
                  IF n = 0 THEN None
                  ELSE IF p[n].op \in {"ldxr", "ldaxr"} THEN p[n].loc
                  ELSE IF p[n].op \in {"stlxr", "new_trace"} THEN None
                  ELSE m[n - 1]]
  BY <1>2
<1> HIDE DEF m
<1>4. \A n \in 0..Len(p) : m[n] = IF n = 0 THEN None
                  ELSE IF p[n].op \in {"ldxr", "ldaxr"} THEN p[n].loc
                  ELSE IF p[n].op \in {"stlxr", "new_trace"} THEN None
                  ELSE m[n - 1]
  BY <1>3, Zenon
<1>5. 0 \in 0..Len(p) /\ \A n \in 1..Len(p) : n \in 0..Len(p) /\ n # 0
  OBVIOUS
<1>6. m[0] = None
  BY <1>4, <1>5
<1>7. \A n \in 1..Len(p) : m[n] = AfterInst(p[n], m[n - 1])
  BY <1>4, <1>5 DEF AfterInst
<1>8. QED
  BY <1>1, <1>6, <1>7

\* The instruction k loads the monitor that instruction n + 1 finds.
Loads(p, k, n) ==
  /\ k \in 1..n /\ p[k].op \in {"ldxr", "ldaxr"} /\ p[k].loc = Monitor(p)[n]
  /\ \A q \in k + 1..n : p[q].op # "stlxr"

LEMMA MonitorIsLoaded ==
  ASSUME NEW p, Program(p), NEW n \in 0..Len(p), Monitor(p)[n] # None
  PROVE  \E k : Loads(p, k, n)
<1> DEFINE D == {x \in 0..Len(p) : Monitor(p)[x] # None /\ ~ \E k : Loads(p, k, x)}
<1>0. Len(p) \in Nat /\ DOMAIN p = 1..Len(p)
  BY DEF Program
<1>1. D \subseteq Nat
  BY <1>0
<1> SUFFICES ASSUME D # {} PROVE FALSE
  OBVIOUS
<1>2. PICK x \in D : \A y \in D : x <= y
  BY <1>1, LeastElement
<1>3. /\ Monitor(p)[0] = None
      /\ \A h \in 1..Len(p) : Monitor(p)[h] = AfterInst(p[h], Monitor(p)[h - 1])
  BY <1>0, MonitorSteps
<1>4. x \in 1..Len(p) /\ x - 1 \in 0..Len(p) /\ ~(x <= x - 1)
  BY <1>0, <1>2, <1>3
<1>5. CASE p[x].op \in {"ldxr", "ldaxr"}
  <2>1. Monitor(p)[x] = p[x].loc
    BY <1>3, <1>4, <1>5 DEF AfterInst
  <2>2. x \in 1..x /\ x + 1..x = {}
    BY <1>4
  <2>3. Loads(p, x, x)
    BY <1>5, <2>1, <2>2 DEF Loads
  <2>4. QED
    BY <1>2, <2>3
<1>6. CASE p[x].op \notin {"ldxr", "ldaxr"}
  <2>1. p[x].op # "stlxr" /\ Monitor(p)[x] = Monitor(p)[x - 1]
    BY <1>2, <1>3, <1>4, <1>6 DEF AfterInst
  <2>2. Monitor(p)[x - 1] # None
    BY <1>2, <2>1
  <2>3. PICK k : Loads(p, k, x - 1)
    BY <1>2, <1>4, <2>2
  <2>4. /\ k \in 1..x - 1 /\ p[k].op \in {"ldxr", "ldaxr"} /\ p[k].loc = Monitor(p)[x]
        /\ \A q \in k + 1..x - 1 : p[q].op # "stlxr"
    BY <2>1, <2>3, Zenon DEF Loads
  <2>5. k \in 1..x
    BY <1>4, <2>4
  <2>6. \A q \in k + 1..x : q = x \/ q \in k + 1..x - 1
    BY <1>4, <2>4
  <2>7. Loads(p, k, x)
    BY <2>1, <2>4, <2>5, <2>6 DEF Loads
  <2>8. QED
    BY <1>2, <2>7
<1>7. QED
  BY <1>5, <1>6

-----------------------------------------------------------------------------
(***************************************************************************)
(* The threads.  Their programs do not change, so neither does what they   *)
(* are lifted to.                                                          *)
(***************************************************************************)
Fixed ==
  /\ \E s \in Systems : prog = s.prog /\ relaxed = s.relaxed
  /\ code = [t \in Threads |-> Code(prog[t])]

\* The type of what changes.
Values ==
  /\ mem \in [Locations -> Nat]
  /\ DOMAIN got = Threads /\ \A t \in Threads : got[t] \in [DOMAIN code[t] -> Nat]

\* The order of the intrinsics of c, if r may be reordered.
OrderedIn(r, c, j, i) ==
  LET a == c[j].do
      b == c[i].do IN
  IF a.kinds = {} /\ b.kinds = {} THEN a.region # None /\ b.region # None
  ELSE IF b.kinds = {} THEN a.kinds \cap b.from # {}
  ELSE IF a.kinds = {} THEN b.kinds \cap a.to # {}
  ELSE \/ a.loc = b.loc
       \/ \E x \in a.kinds, y \in b.kinds : <<x, y>> \notin r

LEMMA OrderIsOrdered ==
  ASSUME NEW c, NEW j, NEW i
  PROVE  Ordered(c, j, i) <=> OrderedIn(relaxed, c, j, i)
  BY DEF Ordered, OrderedIn

\* What was performed has no predecessor that was not.
Downward(r, c, d) ==
  /\ d \subseteq DOMAIN c
  /\ \A i \in d : \A j \in 1..i - 1 : OrderedIn(r, c, j, i) => j \in d
DoneInOrder ==
  /\ DOMAIN done = Threads
  /\ \A t \in Threads : Downward(relaxed, code[t], done[t])

LEMMA ProgramsAreLaid ==
  ASSUME Fixed, NEW t \in Threads
  PROVE  /\ Program(prog[t]) /\ code[t] = Code(prog[t])
         /\ Shape(prog[t], code[t]) /\ Effects(prog[t], code[t])
         /\ IsFiniteSet(Threads) /\ None \notin Threads
<1>1. PICK s \in Systems : prog = s.prog /\ relaxed = s.relaxed
  BY DEF Fixed
<1>2. /\ IsFiniteSet(DOMAIN s.prog) /\ None \notin DOMAIN s.prog
      /\ RunsOn(s, X86Ops) \/ RunsOn(s, AArch64Ops)
  BY SystemsAssumption
<1>3. \A i \in [op : X86Ops, loc : Locations] \cup [op : AArch64Ops, loc : Locations] :
        i \in [op : Ops, loc : Locations]
  BY DEF Ops
<1> DEFINE p == prog[t]
<1>4. p \in Seq([op : X86Ops, loc : Locations]) \/ p \in Seq([op : AArch64Ops, loc : Locations])
  BY <1>1, <1>2 DEF RunsOn, Threads
<1> HIDE DEF p
<1>5. /\ DOMAIN p = 1..Len(p) /\ Len(p) \in Nat
      /\ \A n \in DOMAIN p : p[n] \in [op : X86Ops, loc : Locations]
                                      \cup [op : AArch64Ops, loc : Locations]
  <2>1. PICK S : /\ S \subseteq [op : X86Ops, loc : Locations]
                                \cup [op : AArch64Ops, loc : Locations]
                 /\ p \in Seq(S)
    BY <1>4
  <2>2. DOMAIN p = 1..Len(p) /\ Len(p) \in Nat /\ \A n \in DOMAIN p : p[n] \in S
    BY <2>1, LenProperties, ElementOfSeq
  <2>3. QED
    BY <2>1, <2>2
<1>6. Program(p)
  BY <1>3, <1>5 DEF Program
<1>7. code[t] = Code(p)
  BY DEF Fixed, p
<1>8. Shape(p, code[t]) /\ Effects(p, code[t])
  BY <1>6, <1>7, CodeFacts
<1>9. QED
  BY <1>1, <1>2, <1>6, <1>7, <1>8 DEF p, Threads

LEMMA PerformFacts ==
  ASSUME DOMAIN done = Threads, NEW t \in Threads, NEW i, Perform(t, i)
  PROVE  /\ DOMAIN done' = Threads
         /\ done'[t] = done[t] \cup {i}
         /\ \A u \in Threads : u # t => done'[u] = done[u]
         /\ \A u \in Threads : done[u] \subseteq done'[u]
  BY DEF Perform

\* The order of intrinsics that a region consists of.
LEMMA RegionOrder ==
  ASSUME NEW p, NEW c, NEW r, Shape(p, c), NEW j \in DOMAIN c, NEW i \in DOMAIN c
  PROVE  /\ IsBegin(c[j].do) \/ IsEnd(c[j].do) =>
              (IsBegin(c[i].do) \/ IsEnd(c[i].do) => OrderedIn(r, c, j, i))
         /\ IsBegin(c[j].do) /\ c[i].do.kinds # {} => OrderedIn(r, c, j, i)
         /\ c[j].do.kinds # {} /\ IsEnd(c[i].do) => OrderedIn(r, c, j, i)
         /\ c[j].do.kinds # {} /\ c[i].do.kinds # {} /\ c[j].do.loc = c[i].do.loc
              => OrderedIn(r, c, j, i)
<1>1. /\ c[i].do.kinds \subseteq {"R", "W"} /\ c[j].do.kinds \subseteq {"R", "W"}
      /\ IsBegin(c[j].do) => c[j].do = AtomicBegin
      /\ IsEnd(c[i].do) => c[i].do = AtomicEnd
  BY DEF Shape
<1>2. IsBegin(c[j].do) \/ IsEnd(c[j].do) =>
        (IsBegin(c[i].do) \/ IsEnd(c[i].do) => OrderedIn(r, c, j, i))
  BY NoneAssumption DEF IsBegin, IsEnd, OrderedIn
<1>3. IsBegin(c[j].do) /\ c[i].do.kinds # {} => OrderedIn(r, c, j, i)
  BY <1>1, RegionFields DEF OrderedIn
<1>4. c[j].do.kinds # {} /\ IsEnd(c[i].do) => OrderedIn(r, c, j, i)
  BY <1>1, RegionFields DEF OrderedIn
<1>5. c[j].do.kinds # {} /\ c[i].do.kinds # {} /\ c[j].do.loc = c[i].do.loc
        => OrderedIn(r, c, j, i)
  BY DEF OrderedIn
<1>6. QED
  BY <1>2, <1>3, <1>4, <1>5

-----------------------------------------------------------------------------
(***************************************************************************)
(* What each step keeps.                                                   *)
(***************************************************************************)
LEMMA InitOrder ==
  ThreadsInit => Fixed /\ Values /\ DoneInOrder
<1> SUFFICES ASSUME ThreadsInit PROVE Fixed /\ Values /\ DoneInOrder
  OBVIOUS
<1>1. Fixed
  BY DEF ThreadsInit, Fixed
<1>2. Values
  BY DEF ThreadsInit, Values
<1>3. DoneInOrder
  BY DEF ThreadsInit, DoneInOrder, Downward
<1>4. QED
  BY <1>1, <1>2, <1>3

LEMMA FixedStep ==
  ASSUME Fixed, UNCHANGED <<prog, relaxed, code>>
  PROVE  Fixed'
  BY DEF Fixed, Threads

LEMMA DownwardStep ==
  ASSUME NEW r, NEW c, NEW d, NEW i \in DOMAIN c, Downward(r, c, d),
         \A j \in (1..i - 1) \ d : ~OrderedIn(r, c, j, i)
  PROVE  Downward(r, c, d \cup {i})
  BY DEF Downward

LEMMA OrderStep ==
  ASSUME Fixed, DoneInOrder, NEW t \in Threads, NEW i, Ready(t, i), Perform(t, i),
         UNCHANGED <<prog, relaxed, code>>
  PROVE  DoneInOrder'
<1>1. Threads' = Threads
  BY DEF Threads
<1>2. /\ DOMAIN done' = Threads
      /\ done'[t] = done[t] \cup {i}
      /\ \A u \in Threads : u # t => done'[u] = done[u]
  BY PerformFacts DEF DoneInOrder
<1>3. /\ i \in DOMAIN code[t]
      /\ \A j \in (1..i - 1) \ done[t] : ~OrderedIn(relaxed, code[t], j, i)
  BY OrderIsOrdered DEF Ready
<1>4. ASSUME NEW u \in Threads
      PROVE  Downward(relaxed, code[u], done'[u])
  <2>1. CASE u = t
    <3>1. Downward(relaxed, code[t], done[t])
      BY DEF DoneInOrder
    <3>2. Downward(relaxed, code[t], done[t] \cup {i})
      BY <1>3, <3>1, DownwardStep
    <3>3. QED
      BY <1>2, <2>1, <3>2
  <2>2. CASE u # t
    BY <1>2, <2>2 DEF DoneInOrder
  <2>3. QED
    BY <2>1, <2>2
<1>5. QED
  BY <1>1, <1>2, <1>4 DEF DoneInOrder

-----------------------------------------------------------------------------
(***************************************************************************)
(* Fences.  What stands behind one is performed after it, and it is        *)
(* performed after what stands in front of it.                             *)
(***************************************************************************)
LEMMA BehindFence ==
  ASSUME NEW p, Program(p), NEW c, Shape(p, c), NEW r, NEW d, Downward(r, c, d),
         NEW a \in DOMAIN c, NEW k \in DOMAIN c, NEW b \in d,
         c[a].inst < c[k].inst, c[k].inst < c[b].inst,
         OrderedIn(r, c, a, k), OrderedIn(r, c, k, b)
  PROVE  a \in d
<1>1. b \in DOMAIN c
  BY DEF Downward
<1>2. a < k /\ k < b /\ a \in 1..Len(c) /\ k \in 1..Len(c) /\ b \in 1..Len(c) /\ Len(c) \in Nat
  BY <1>1 DEF Shape
<1>3. k \in 1..b - 1 /\ a \in 1..k - 1
  BY <1>2
<1>4. k \in d
  BY <1>3 DEF Downward
<1>5. QED
  BY <1>3, <1>4 DEF Downward

LEMMA X86IsTotalStoreOrder ==
  ASSUME Fixed, NEW t \in Threads, NEW n \in DOMAIN prog[t],
         prog[t][n].op \notin AArch64Ops
  PROVE  relaxed \subseteq {<<"W", "R">>}
<1>1. PICK s \in Systems : prog = s.prog /\ relaxed = s.relaxed
  BY DEF Fixed
<1>2. CASE RunsOn(s, AArch64Ops)
  <2> DEFINE p == prog[t]
             S == [op : AArch64Ops, loc : Locations]
  <2>1. p \in Seq(S) /\ n \in DOMAIN p
    BY <1>1, <1>2 DEF RunsOn, Threads
  <2> HIDE DEF p, S
  <2>2. p[n] \in S
    BY <2>1, LenProperties, ElementOfSeq
  <2>3. QED
    BY <2>2 DEF p, S
<1>3. CASE RunsOn(s, X86Ops) /\ s.relaxed \subseteq {<<"W", "R">>}
  BY <1>1, <1>3
<1>4. QED
  BY <1>2, <1>3, SystemsAssumption

LEMMA WeakFences ==
  ASSUME NEW p, NEW c, Effects(p, c), NEW n \in DOMAIN p, p[n].op \in DOMAIN Weak
  PROVE  \E x, y \in {"R", "W"} : /\ Weak[p[n].op] = <<x, y>>
                                  /\ Has(c, n, Barrier({x}, {y}))
<1>1. /\ p[n].op \in {"sfence", "dmb", "stlr"} => Has(c, n, Barrier({"W"}, {"W"}))
      /\ p[n].op = "ldar" => Has(c, n, Barrier({"R"}, {"W"}))
      /\ p[n].op = "lfence" => Has(c, n, Barrier({"R"}, {"R"}))
  BY Zenon DEF Effects
<1>2. /\ DOMAIN Weak = {"sfence", "dmb", "stlr", "ldar", "lfence"}
      /\ Weak["sfence"] = <<"W", "W">> /\ Weak["dmb"] = <<"W", "W">>
      /\ Weak["stlr"] = <<"W", "W">> /\ Weak["ldar"] = <<"R", "W">>
      /\ Weak["lfence"] = <<"R", "R">>
  BY DEF Weak
<1> HIDE DEF Weak
<1>3. CASE p[n].op \in {"sfence", "dmb", "stlr"}
  BY <1>1, <1>2, <1>3
<1>4. CASE p[n].op = "ldar"
  BY <1>1, <1>2, <1>4
<1>5. CASE p[n].op = "lfence"
  BY <1>1, <1>2, <1>5
<1>6. QED
  BY <1>2, <1>3, <1>4, <1>5

LEMMA OrderKeepsFences ==
  Fixed /\ DoneInOrder => FencesOrder
<1> SUFFICES ASSUME Fixed, DoneInOrder, NEW t \in Threads, NEW n \in DOMAIN prog[t]
             PROVE  LET op == prog[t][n].op IN
                    /\ op \in FullFences =>
                         InOrder(t, Accesses(t, Before(n)), Accesses(t, After(t, n)))
                    /\ op \in DOMAIN Weak =>
                         InOrder(t, Doing(t, Before(n), Weak[op][1]),
                                    Doing(t, After(t, n), Weak[op][2]))
  BY DEF FencesOrder
<1> DEFINE p == prog[t]
           c == code[t]
           d == done[t]
           r == relaxed
<1>1. /\ Program(p) /\ Shape(p, c) /\ Effects(p, c) /\ Downward(r, c, d)
  BY ProgramsAreLaid DEF DoneInOrder
<1>2. n \in 1..Len(p) /\ Len(p) \in Nat /\ n \in DOMAIN p
  BY <1>1 DEF Program
<1>3. \A m : /\ m \in Before(n) => m < n
             /\ m \in After(t, n) => n < m
  BY <1>2 DEF Before, After
<1>4. \A i \in DOMAIN c : c[i].do.kinds \subseteq {"R", "W"} /\ c[i].inst \in DOMAIN p
  BY <1>1 DEF Shape
<1> HIDE DEF p, c, d, r
<1>5. ASSUME p[n].op \in FullFences,
             NEW a \in Accesses(t, Before(n)), NEW b \in Accesses(t, After(t, n)), b \in d
      PROVE  a \in d
  <2>1. /\ a \in DOMAIN c /\ c[a].inst < n /\ c[a].do.kinds # {}
        /\ b \in DOMAIN c /\ n < c[b].inst /\ c[b].do.kinds # {}
    BY <1>3 DEF Accesses, c
  <2>2. r \subseteq {<<"W", "R">>}
    <3>1. p[n].op \notin AArch64Ops
      BY <1>5 DEF FullFences, AArch64Ops
    <3>2. QED
      BY <3>1, X86IsTotalStoreOrder DEF p, r
  <2>3. CASE OrderedIn(r, c, a, b)
    <3>1. c[a].inst < c[b].inst
      <4>1. c[a].inst \in Nat /\ c[b].inst \in Nat /\ n \in Nat
        BY <1>1, <1>2, <1>4, <2>1 DEF Program
      <4>2. QED
        BY <2>1, <4>1
    <3>2. a < b /\ a \in 1..Len(c) /\ b \in 1..Len(c) /\ Len(c) \in Nat
      BY <1>1, <2>1, <3>1 DEF Shape
    <3>3. a \in 1..b - 1
      BY <3>2
    <3>4. QED
      BY <1>1, <1>5, <2>3, <3>3 DEF Downward
  <2>4. CASE ~OrderedIn(r, c, a, b)
    <3>1. \A x \in c[a].do.kinds, y \in c[b].do.kinds : <<x, y>> \in r
      BY <2>1, <2>4 DEF OrderedIn
    <3>2. \A x \in c[a].do.kinds, y \in c[b].do.kinds : x = "W" /\ y = "R"
      BY <2>2, <3>1
    <3>3. "W" \in c[a].do.kinds /\ "R" \in c[b].do.kinds
      BY <2>1, <3>2
    <3>4. CASE p[n].op = "mfence"
      <4>1. PICK k \in DOMAIN c : c[k].inst = n /\ c[k].do = Barrier({"W"}, {"R"})
        <5>1. Has(c, n, Barrier({"W"}, {"R"}))
          BY <1>1, <1>2, <3>4, Zenon DEF Effects
        <5>2. QED
          BY <5>1 DEF Has
      <4>2. OrderedIn(r, c, a, k) /\ OrderedIn(r, c, k, b)
        BY <2>1, <3>3, <4>1, BarrierFields DEF OrderedIn
      <4>3. QED
        BY <1>1, <1>5, <2>1, <4>1, <4>2, BehindFence
    <3>5. CASE p[n].op # "mfence"
      <4>1. Atomic(p[n].op)
        BY <1>5, <3>5 DEF FullFences, Atomic
      <4>2. PICK x, y \in DOMAIN c : RegionIs(c, x, y, n)
        BY <1>1, <4>1 DEF Shape, p
      <4>3. /\ c[x].inst = n /\ c[x].do = AtomicBegin /\ IsBegin(c[x].do)
            /\ c[y].inst = n /\ c[y].do = AtomicEnd /\ IsEnd(c[y].do)
            /\ x <= y
        BY <1>1, <4>2 DEF RegionIs, Shape
      <4>4. /\ OrderedIn(r, c, a, x) /\ OrderedIn(r, c, y, b) /\ OrderedIn(r, c, x, y)
        <5>1. OrderedIn(r, c, a, x) /\ OrderedIn(r, c, y, b)
          BY <2>1, <3>3, <4>3, RegionFields DEF OrderedIn
        <5>2. OrderedIn(r, c, x, y)
          BY <1>1, <4>3, RegionOrder
        <5>3. QED
          BY <5>1, <5>2
      <4>5. y \in d
        <5>1. y < b
          BY <1>1, <2>1, <4>3 DEF Shape
        <5>2. y \in 1..b - 1
          BY <1>1, <2>1, <5>1 DEF Shape
        <5>3. QED
          BY <1>1, <1>5, <4>4, <5>2 DEF Downward
      <4>6. x \in d
        <5>1. x # y
          BY <4>3, RegionFields
        <5>2. x \in 1..y - 1
          BY <1>1, <4>3, <5>1 DEF Shape
        <5>3. QED
          BY <1>1, <4>4, <4>5, <5>2 DEF Downward
      <4>7. a \in 1..x - 1
        <5>1. a < x
          BY <1>1, <2>1, <4>3 DEF Shape
        <5>2. QED
          BY <1>1, <2>1, <5>1 DEF Shape
      <4>8. QED
        BY <1>1, <4>4, <4>6, <4>7 DEF Downward
    <3>6. QED
      BY <3>4, <3>5
  <2>5. QED
    BY <2>3, <2>4
<1>6. ASSUME p[n].op \in DOMAIN Weak,
             NEW a \in Doing(t, Before(n), Weak[p[n].op][1]),
             NEW b \in Doing(t, After(t, n), Weak[p[n].op][2]), b \in d
      PROVE  a \in d
  <2>1. PICK x, y \in {"R", "W"} : /\ Weak[p[n].op] = <<x, y>>
                                   /\ Has(c, n, Barrier({x}, {y}))
    BY <1>1, <1>6, WeakFences DEF p
  <2>2. Weak[p[n].op][1] = x /\ Weak[p[n].op][2] = y
    BY <2>1
  <2>3. /\ a \in DOMAIN c /\ c[a].inst < n /\ x \in c[a].do.kinds
        /\ b \in DOMAIN c /\ n < c[b].inst /\ y \in c[b].do.kinds
    BY <1>3, <2>2 DEF Doing, Accesses, c
  <2>4. PICK k \in DOMAIN c : c[k].inst = n /\ c[k].do = Barrier({x}, {y})
    BY <2>1 DEF Has
  <2>5. OrderedIn(r, c, a, k) /\ OrderedIn(r, c, k, b)
    <3>1. c[k].do.kinds = {} /\ c[k].do.from = {x} /\ c[k].do.to = {y}
      BY <2>4 DEF Barrier
    <3>2. c[a].do.kinds # {} /\ c[b].do.kinds # {}
      BY <2>3
    <3>3. c[a].do.kinds \cap {x} # {} /\ c[b].do.kinds \cap {y} # {}
      BY <2>3
    <3>4. QED
      BY <3>1, <3>2, <3>3 DEF OrderedIn
  <2>6. QED
    BY <1>1, <1>6, <2>3, <2>4, <2>5, BehindFence
<1>7. p[n].op \in FullFences =>
        InOrder(t, Accesses(t, Before(n)), Accesses(t, After(t, n)))
  BY <1>5 DEF InOrder, d
<1>8. p[n].op \in DOMAIN Weak =>
        InOrder(t, Doing(t, Before(n), Weak[p[n].op][1]),
                   Doing(t, After(t, n), Weak[p[n].op][2]))
  BY <1>6 DEF InOrder, d
<1>9. QED
  BY <1>7, <1>8 DEF p

-----------------------------------------------------------------------------
(***************************************************************************)
(* Every reachable state has this order.                                   *)
(***************************************************************************)
LEMMA StepFacts ==
  ASSUME NEW t \in Threads, NEW i \in DOMAIN code[t], Access(t, i) \/ Synchronize(t, i)
  PROVE  Ready(t, i) /\ Perform(t, i) /\ UNCHANGED <<prog, relaxed, code>>
  BY DEF Access, Synchronize

LEMMA OrderStepOrStutter ==
  ASSUME Fixed, DoneInOrder, [ThreadsNext]_threadVars
  PROVE  Fixed' /\ DoneInOrder'
<1>1. CASE ThreadsNext
  <2>1. PICK t \in Threads : \E i \in DOMAIN code[t] : Access(t, i) \/ Synchronize(t, i)
    BY <1>1 DEF ThreadsNext, Step
  <2>2. PICK i \in DOMAIN code[t] : Access(t, i) \/ Synchronize(t, i)
    BY <2>1
  <2>3. Ready(t, i) /\ Perform(t, i) /\ UNCHANGED <<prog, relaxed, code>>
    BY <2>2, StepFacts
  <2>4. QED
    BY <2>3, FixedStep, OrderStep
<1>2. CASE UNCHANGED threadVars
  <2>1. UNCHANGED <<prog, relaxed, code, done>>
    BY <1>2 DEF threadVars
  <2>2. Fixed'
    BY <2>1, FixedStep
  <2>3. DoneInOrder'
    BY <2>1 DEF DoneInOrder, Threads
  <2>4. QED
    BY <2>2, <2>3
<1>3. QED
  BY <1>1, <1>2

\* No access behind a fence is performed before one in front of it that it
\* orders: mfence and the LOCKed instructions order all, on X86; the others
\* what their barriers say, on any machine.
THEOREM FencesHold == ThreadsSpec => []FencesOrder
<1>1. ThreadsInit => Fixed /\ DoneInOrder
  BY InitOrder
<1>2. Fixed /\ DoneInOrder /\ [ThreadsNext]_threadVars => Fixed' /\ DoneInOrder'
  BY OrderStepOrStutter
<1>3. Fixed /\ DoneInOrder => FencesOrder
  BY OrderKeepsFences
<1>4. QED
  BY <1>1, <1>2, <1>3, PTL DEF ThreadsSpec

-----------------------------------------------------------------------------
(***************************************************************************)
(* Regions.  A region is open from the begin of an instruction to its end. *)
(***************************************************************************)
Open(c, d, n) == \E b \in d : \E e \in DOMAIN c \ d : RegionIs(c, b, e, n)

\* Intrinsic i may be performed, if d were.
CanDo(r, c, d, i) ==
  /\ i \in DOMAIN c \ d
  /\ \A j \in (1..i - 1) \ d : ~OrderedIn(r, c, j, i)

LEMMA ReadyCanDo ==
  ASSUME NEW t, NEW i, Ready(t, i)
  PROVE  CanDo(relaxed, code[t], done[t], i)
  BY OrderIsOrdered DEF Ready, CanDo

LEMMA CanDoFirst ==
  ASSUME NEW p, NEW c, Shape(p, c), NEW r, NEW d, NEW i, CanDo(r, c, d, i),
         NEW j \in DOMAIN c, j < i, OrderedIn(r, c, j, i)
  PROVE  j \in d
<1>1. j \in 1..i - 1
  BY DEF CanDo, Shape
<1>2. QED
  BY <1>1 DEF CanDo

LEMMA DoneFirst ==
  ASSUME NEW p, NEW c, Shape(p, c), NEW r, NEW d, Downward(r, c, d), NEW i \in d,
         NEW j \in DOMAIN c, j < i, OrderedIn(r, c, j, i)
  PROVE  j \in d
<1>1. j \in 1..i - 1 /\ i \in DOMAIN c
  BY DEF Downward, Shape
<1>2. QED
  BY <1>1 DEF Downward

\* The begin and the end of a region enclose its accesses.
Encloses(r, c, b, e, n) ==
  /\ b \in DOMAIN c /\ e \in DOMAIN c /\ c[b].inst = n /\ c[e].inst = n
  /\ IsBegin(c[b].do) /\ IsEnd(c[e].do)
  /\ b < e /\ OrderedIn(r, c, b, e)
  /\ \A i \in DOMAIN c : c[i].inst = n /\ c[i].do.kinds # {} =>
       /\ b < i /\ OrderedIn(r, c, b, i)
       /\ i < e /\ OrderedIn(r, c, i, e)
  /\ \A i \in DOMAIN c : c[i].inst = n /\ IsBegin(c[i].do) => i = b
  /\ \A i \in DOMAIN c : c[i].inst = n /\ IsEnd(c[i].do) => i = e

LEMMA RegionFacts ==
  ASSUME NEW p, NEW c, Shape(p, c), NEW r, NEW n, NEW b, NEW e, RegionIs(c, b, e, n)
  PROVE  Encloses(r, c, b, e, n)
<1>1. /\ b \in DOMAIN c /\ e \in DOMAIN c /\ c[b].inst = n /\ c[e].inst = n
      /\ IsBegin(c[b].do) /\ IsEnd(c[e].do)
      /\ \A i \in DOMAIN c : c[i].inst = n => b <= i /\ i <= e
  BY DEF RegionIs
<1>2. /\ DOMAIN c \subseteq Nat
      /\ \A i \in DOMAIN c : c[i].inst = n /\ IsBegin(c[i].do) => i = b
      /\ \A i \in DOMAIN c : c[i].inst = n /\ IsEnd(c[i].do) => i = e
  BY <1>1 DEF Shape
<1>3. OrderedIn(r, c, b, e)
  BY <1>1, RegionOrder
<1>4. \A i \in DOMAIN c : c[i].do.kinds # {} =>
        OrderedIn(r, c, b, i) /\ OrderedIn(r, c, i, e)
  BY <1>1, RegionOrder
<1>5. b # e /\ \A i \in DOMAIN c : c[i].do.kinds # {} => i # b /\ i # e
  BY <1>1 DEF IsBegin, IsEnd
<1>6. b < e
  BY <1>1, <1>2, <1>5
<1>7. ASSUME NEW i \in DOMAIN c, c[i].inst = n, c[i].do.kinds # {}
      PROVE  b < i /\ i < e
  BY <1>1, <1>2, <1>5, <1>7
<1>8. QED
  BY <1>1, <1>2, <1>3, <1>4, <1>6, <1>7 DEF Encloses

LEMMA OpenIsUnique ==
  ASSUME NEW p, Program(p), NEW c, Shape(p, c), NEW r, NEW d, Downward(r, c, d),
         NEW m, NEW n, Open(c, d, m), Open(c, d, n)
  PROVE  m = n
<1>1. ASSUME NEW x, NEW y, Open(c, d, x), Open(c, d, y), x < y
      PROVE  FALSE
  <2>1. PICK b \in d, e \in DOMAIN c \ d : RegionIs(c, b, e, x)
    BY <1>1 DEF Open
  <2>2. PICK f \in d, g \in DOMAIN c \ d : RegionIs(c, f, g, y)
    BY <1>1 DEF Open
  <2>3. e \in DOMAIN c /\ c[e].inst = x /\ IsEnd(c[e].do)
    BY <2>1 DEF RegionIs
  <2>4. f \in DOMAIN c /\ c[f].inst = y /\ IsBegin(c[f].do)
    BY <2>2 DEF RegionIs
  <2>5. e < f
    BY <1>1, <2>3, <2>4 DEF Shape
  <2>6. OrderedIn(r, c, e, f)
    BY <2>3, <2>4, RegionOrder
  <2>7. e \in d
    BY <2>2, <2>3, <2>5, <2>6, DoneFirst
  <2>8. QED
    BY <2>1, <2>7
<1>2. m \in Nat /\ n \in Nat
  <2>1. \A x : Open(c, d, x) => x \in DOMAIN p
    BY DEF Open, RegionIs, Shape
  <2>2. QED
    BY <2>1 DEF Program
<1>3. ~(m < n) /\ ~(n < m)
  BY <1>1
<1>4. QED
  BY <1>2, <1>3

\* An access of an atomic instruction is performed in its region,
LEMMA AccessIsInRegion ==
  ASSUME NEW p, NEW c, Shape(p, c), NEW r, NEW d, Downward(r, c, d),
         NEW i, CanDo(r, c, d, i), c[i].do.kinds # {}, Atomic(p[c[i].inst].op)
  PROVE  Open(c, d, c[i].inst)
<1> DEFINE n == c[i].inst
<1>1. i \in DOMAIN c /\ i \notin d
  BY DEF CanDo
<1>2. n \in DOMAIN p
  BY <1>1 DEF Shape
<1>3. PICK b, e \in DOMAIN c : RegionIs(c, b, e, n)
  BY <1>2 DEF Shape
<1>4. b < i /\ OrderedIn(r, c, b, i) /\ i < e /\ OrderedIn(r, c, i, e)
  <2>1. Encloses(r, c, b, e, n)
    BY <1>3, RegionFacts
  <2>2. QED
    BY <1>1, <2>1 DEF Encloses
<1>5. b \in d
  BY <1>4, CanDoFirst
<1>6. e \notin d
  <2> SUFFICES ASSUME e \in d PROVE FALSE
    OBVIOUS
  <2>1. i \in d
    BY <1>1, <1>4, DoneFirst
  <2>2. QED
    BY <1>1, <2>1
<1>7. QED
  BY <1>3, <1>5, <1>6 DEF Open

\* which stays open until all of them are.
LEMMA PendingIsInRegion ==
  ASSUME NEW p, NEW c, Shape(p, c), NEW r, NEW d, Downward(r, c, d),
         NEW i \in d, NEW j \in DOMAIN c \ d, c[i].inst = c[j].inst,
         c[i].do.kinds # {}, c[j].do.kinds # {}, Atomic(p[c[i].inst].op)
  PROVE  Open(c, d, c[i].inst)
<1> DEFINE n == c[i].inst
<1>1. i \in DOMAIN c
  BY DEF Downward
<1>2. n \in DOMAIN p
  BY <1>1 DEF Shape
<1>3. PICK b, e \in DOMAIN c : RegionIs(c, b, e, n)
  BY <1>2 DEF Shape
<1>4. b < i /\ OrderedIn(r, c, b, i) /\ j < e /\ OrderedIn(r, c, j, e)
  <2>1. Encloses(r, c, b, e, n)
    BY <1>3, RegionFacts
  <2>2. QED
    BY <1>1, <2>1 DEF Encloses
<1>5. b \in d
  BY <1>4, DoneFirst
<1>6. e \notin d
  <2> SUFFICES ASSUME e \in d PROVE FALSE
    OBVIOUS
  <2>1. j \in d
    BY <1>4, DoneFirst
  <2>2. QED
    BY <2>1
<1>7. QED
  BY <1>3, <1>5, <1>6 DEF Open

\* How a step changes what is open.
LEMMA OpenStep ==
  ASSUME NEW p, NEW c, Shape(p, c), NEW r, NEW d, Downward(r, c, d),
         NEW i, CanDo(r, c, d, i), NEW n, Open(c, d \cup {i}, n)
  PROVE  \/ Open(c, d, n) /\ ~IsEnd(c[i].do)
         \/ Open(c, d, n) /\ IsEnd(c[i].do) /\ n # c[i].inst
         \/ IsBegin(c[i].do)
<1>1. PICK b \in d \cup {i}, e \in DOMAIN c \ (d \cup {i}) : RegionIs(c, b, e, n)
  BY DEF Open
<1>2. CASE b = i
  BY <1>1, <1>2 DEF RegionIs
<1>3. CASE b # i
  <2>1. Open(c, d, n)
    BY <1>1, <1>3 DEF Open
  <2>2. ASSUME IsEnd(c[i].do), n = c[i].inst PROVE FALSE
    <3>1. i \in DOMAIN c
      BY DEF CanDo
    <3>2. i = e
      <4>1. Encloses(r, c, b, e, n)
        BY <1>1, RegionFacts
      <4>2. QED
        BY <2>2, <3>1, <4>1 DEF Encloses
    <3>3. QED
      BY <1>1, <3>2
  <2>3. QED
    BY <2>1, <2>2
<1>4. QED
  BY <1>2, <1>3

\* The end of a region can be performed only while it is open.
LEMMA EndClosesRegion ==
  ASSUME NEW p, NEW c, Shape(p, c), NEW r, NEW d, Downward(r, c, d),
         NEW i, CanDo(r, c, d, i), IsEnd(c[i].do)
  PROVE  Open(c, d, c[i].inst)
<1> DEFINE n == c[i].inst
<1>1. i \in DOMAIN c /\ i \notin d
  BY DEF CanDo
<1>2. n \in DOMAIN p /\ Atomic(p[n].op)
  BY <1>1 DEF Shape
<1>3. PICK b, e \in DOMAIN c : RegionIs(c, b, e, n)
  BY <1>2 DEF Shape
<1>4. e = i /\ b < e /\ OrderedIn(r, c, b, e)
  <2>1. Encloses(r, c, b, e, n)
    BY <1>3, RegionFacts
  <2>2. QED
    BY <1>1, <2>1 DEF Encloses
<1>5. b \in d
  BY <1>4, CanDoFirst
<1>6. QED
  BY <1>1, <1>3, <1>4, <1>5 DEF Open

\* After its begin comes the end, which was not performed.
LEMMA BeginHasEnd ==
  ASSUME NEW p, NEW c, Shape(p, c), NEW r, NEW d, Downward(r, c, d),
         NEW i, CanDo(r, c, d, i), IsBegin(c[i].do)
  PROVE  \E e \in DOMAIN c \ (d \cup {i}) : IsEnd(c[e].do)
<1> DEFINE n == c[i].inst
<1>1. i \in DOMAIN c /\ i \notin d
  BY DEF CanDo
<1>2. n \in DOMAIN p /\ Atomic(p[n].op)
  BY <1>1 DEF Shape
<1>3. PICK b, e \in DOMAIN c : RegionIs(c, b, e, n)
  BY <1>2 DEF Shape
<1>4. b = i /\ b < e /\ OrderedIn(r, c, b, e) /\ IsEnd(c[e].do)
  <2>1. Encloses(r, c, b, e, n)
    BY <1>3, RegionFacts
  <2>2. QED
    BY <1>1, <2>1 DEF Encloses
<1>5. e \notin d
  <2> SUFFICES ASSUME e \in d PROVE FALSE
    OBVIOUS
  <2>1. i \in d
    BY <1>1, <1>4, DoneFirst
  <2>2. QED
    BY <1>1, <2>1
<1>6. e # i
  BY <1>4 DEF IsBegin, IsEnd
<1>7. QED
  BY <1>4, <1>5, <1>6

-----------------------------------------------------------------------------
(***************************************************************************)
(* Only the owner is in a region, and it has an end to perform.            *)
(***************************************************************************)
Regions ==
  /\ \A t \in Threads : \A n : Open(code[t], done[t], n) => owner = t
  /\ owner # None =>
       owner \in Threads /\ \E e \in DOMAIN code[owner] \ done[owner] : IsEnd(code[owner][e].do)

LEMMA OnlyRegionsOwn ==
  ASSUME NEW t \in Threads, NEW i \in DOMAIN code[t], Access(t, i) \/ Synchronize(t, i)
  PROVE  /\ IsBegin(code[t][i].do) => owner = None /\ owner' = t
         /\ IsEnd(code[t][i].do) => owner' = None
         /\ ~IsBegin(code[t][i].do) /\ ~IsEnd(code[t][i].do) => owner' = owner
<1>1. CASE Access(t, i)
  BY <1>1 DEF Access, IsBegin, IsEnd
<1>2. CASE Synchronize(t, i)
  BY <1>2 DEF Synchronize, IsBegin, IsEnd
<1>3. QED
  BY <1>1, <1>2

LEMMA RegionsStep ==
  ASSUME Fixed, DoneInOrder, Regions, NEW t \in Threads, NEW i \in DOMAIN code[t],
         Access(t, i) \/ Synchronize(t, i)
  PROVE  Regions'
<1> DEFINE p == prog[t]
           c == code[t]
           d == done[t]
           r == relaxed
<1>1. Ready(t, i) /\ Perform(t, i) /\ UNCHANGED <<prog, relaxed, code>> /\ Threads' = Threads
  BY StepFacts DEF Threads
<1>2. /\ Program(p) /\ Shape(p, c) /\ Downward(r, c, d) /\ CanDo(r, c, d, i)
  BY <1>1, ProgramsAreLaid, ReadyCanDo DEF DoneInOrder
<1>3. /\ done'[t] = d \cup {i}
      /\ \A u \in Threads : u # t => done'[u] = done[u]
  BY <1>1, PerformFacts DEF DoneInOrder
<1>4. /\ IsBegin(c[i].do) => owner = None /\ owner' = t
      /\ IsEnd(c[i].do) => owner' = None
      /\ ~IsBegin(c[i].do) /\ ~IsEnd(c[i].do) => owner' = owner
  BY OnlyRegionsOwn
<1>5. None \notin Threads
  BY ProgramsAreLaid
<1>6. IsEnd(c[i].do) => Open(c, d, c[i].inst) /\ owner = t
  BY <1>2, EndClosesRegion DEF Regions
<1> HIDE DEF p, d, r
<1>7. ASSUME NEW u \in Threads, NEW n, Open(code[u], done'[u], n)
      PROVE  owner' = u
  <2>1. CASE u # t
    <3>1. owner = u
      BY <1>3, <1>7, <2>1 DEF Regions
    <3>2. ~IsBegin(c[i].do) /\ ~IsEnd(c[i].do)
      BY <1>4, <1>5, <1>6, <2>1, <3>1
    <3>3. QED
      BY <1>4, <3>1, <3>2
  <2>2. CASE u = t
    <3>1. \/ Open(c, d, n) /\ ~IsEnd(c[i].do)
          \/ Open(c, d, n) /\ IsEnd(c[i].do) /\ n # c[i].inst
          \/ IsBegin(c[i].do)
      BY <1>2, <1>3, <1>7, <2>2, OpenStep
    <3>2. CASE IsBegin(c[i].do)
      BY <1>4, <2>2, <3>2
    <3>3. CASE Open(c, d, n) /\ ~IsEnd(c[i].do) /\ ~IsBegin(c[i].do)
      BY <1>4, <2>2, <3>3 DEF Regions, d
    <3>4. CASE Open(c, d, n) /\ IsEnd(c[i].do) /\ n # c[i].inst
      BY <1>2, <1>6, <3>4, OpenIsUnique
    <3>5. QED
      BY <3>1, <3>2, <3>3, <3>4
  <2>3. QED
    BY <2>1, <2>2
<1>8. ASSUME owner' # None
      PROVE  /\ owner' \in Threads
             /\ \E e \in DOMAIN code[owner'] \ done'[owner'] : IsEnd(code[owner'][e].do)
  <2>1. CASE IsBegin(c[i].do)
    <3>1. \E e \in DOMAIN c \ (d \cup {i}) : IsEnd(c[e].do)
      BY <1>2, <2>1, BeginHasEnd
    <3>2. QED
      BY <1>3, <1>4, <2>1, <3>1
  <2>2. CASE ~IsBegin(c[i].do)
    <3>1. ~IsEnd(c[i].do) /\ owner' = owner
      BY <1>4, <1>8, <2>2
    <3>2. owner \in Threads
      BY <1>8, <3>1 DEF Regions
    <3>3. PICK e \in DOMAIN code[owner] \ done[owner] : IsEnd(code[owner][e].do)
      BY <1>8, <3>1 DEF Regions
    <3>4. e \notin done'[owner]
      BY <1>3, <3>1, <3>2, <3>3 DEF d
    <3>5. QED
      BY <3>1, <3>2, <3>3, <3>4
  <2>3. QED
    BY <2>1, <2>2
<1>9. QED
  BY <1>1, <1>7, <1>8 DEF Regions

-----------------------------------------------------------------------------
(***************************************************************************)
(* The source of a write that counts.                                      *)
(***************************************************************************)
LEMMA SourceExists ==
  ASSUME NEW p, Program(p), NEW c, Shape(p, c), Effects(p, c), NEW i \in DOMAIN c,
         Counts(c[i].do), c[i].do.kinds = {"W"}
  PROVE  \E j \in 1..i - 1 :
           /\ ReadsWord(c, j, c[i].do.loc)
           /\ \/ p[c[i].inst].op = "lock_add" /\ c[j].inst = c[i].inst
              \/ /\ p[c[i].inst].op = "stlxr"
                 /\ c[j].inst < c[i].inst /\ p[c[j].inst].op \in {"ldxr", "ldaxr"}
                 /\ \A q \in DOMAIN p : c[j].inst < q /\ q < c[i].inst => p[q].op # "stlxr"
<1> DEFINE n == c[i].inst
           l == c[i].do.loc
<1>1. /\ n \in DOMAIN p /\ l = p[n].loc /\ l \in Locations
      /\ DOMAIN c \subseteq Nat /\ DOMAIN c = 1..Len(c) /\ Len(c) \in Nat
      /\ Len(p) \in Nat /\ DOMAIN p = 1..Len(p)
  BY DEF Shape, Program
<1>2. \/ p[n].op = "stlxr" /\ Monitor(p)[n - 1] = p[n].loc
      \/ /\ p[n].op = "lock_add"
         /\ \E j \in DOMAIN c : j < i /\ c[j].inst = n /\ c[j].do = Read(p[n].loc)
  <2>1. \/ p[n].op = "xadd" /\ c[i].do.kinds = {"R", "W"}
        \/ p[n].op = "stlxr" /\ Monitor(p)[n - 1] = p[n].loc /\ c[i].do.kinds = {"W"}
        \/ /\ p[n].op = "lock_add" /\ c[i].do.kinds = {"W"}
           /\ \E j \in DOMAIN c : j < i /\ c[j].inst = n /\ c[j].do = Read(p[n].loc)
    BY Zenon DEF Effects
  <2>2. {"W"} # {"R", "W"}
    OBVIOUS
  <2>3. QED
    BY <2>1, <2>2
<1>3. CASE p[n].op = "lock_add"
  <2>1. PICK j \in DOMAIN c : j < i /\ c[j].inst = n /\ c[j].do = Read(p[n].loc)
    BY <1>2, <1>3
  <2>2. ReadsWord(c, j, l)
    BY <1>1, <2>1, ReadFields DEF ReadsWord
  <2>3. j \in 1..i - 1
    BY <1>1, <2>1
  <2>4. QED
    BY <1>3, <2>1, <2>2, <2>3
<1>4. CASE p[n].op = "stlxr"
  <2>1. Monitor(p)[n - 1] = l /\ l # None /\ n - 1 \in 0..Len(p)
    BY <1>1, <1>2, <1>4, NoneAssumption
  <2>2. PICK k : Loads(p, k, n - 1)
    BY <2>1, MonitorIsLoaded
  <2>3. /\ k \in 1..n - 1 /\ p[k].op \in {"ldxr", "ldaxr"} /\ p[k].loc = l
        /\ \A q \in k + 1..n - 1 : p[q].op # "stlxr"
    BY <2>1, <2>2, Zenon DEF Loads
  <2>4. k \in DOMAIN p /\ k < n
    BY <1>1, <2>3
  <2>5. Has(c, k, Read(l))
    BY <2>3, <2>4, Zenon DEF Effects
  <2>6. PICK j \in DOMAIN c : c[j].inst = k /\ c[j].do = Read(l)
    BY <2>5 DEF Has
  <2>7. ReadsWord(c, j, l)
    BY <2>6, ReadFields DEF ReadsWord
  <2>8. j < i
    BY <2>4, <2>6 DEF Shape
  <2>9. j \in 1..i - 1
    BY <1>1, <2>8
  <2>10. \A q \in DOMAIN p : k < q /\ q < n => q \in k + 1..n - 1
    BY <1>1, <2>4
  <2>11. QED
    BY <1>4, <2>3, <2>4, <2>6, <2>7, <2>9, <2>10
<1>5. QED
  BY <1>2, <1>3, <1>4

\* The last of them.
LEMMA SourceIsLast ==
  ASSUME NEW c, NEW i \in Nat, NEW j \in 1..i - 1, ReadsWord(c, j, c[i].do.loc)
  PROVE  /\ Source(c, i) \in 1..i - 1 /\ j <= Source(c, i)
         /\ ReadsWord(c, Source(c, i), c[i].do.loc)
         /\ \A k \in Source(c, i) + 1..i - 1 : ~ReadsWord(c, k, c[i].do.loc)
<1> DEFINE l == c[i].do.loc
           D == {x \in Nat : i - x \in 1..i - 1 /\ ReadsWord(c, i - x, l)}
<1> HIDE DEF l
<1>1. i - j \in D
  <2>1. i - (i - j) = j /\ i - j \in Nat
    OBVIOUS
  <2>2. QED
    BY <2>1 DEF l
<1>2. PICK x \in D : \A y \in D : x <= y
  <2>1. D \subseteq Nat /\ D # {}
    BY <1>1
  <2>2. QED
    BY <2>1, LeastElement
<1>3. i - x \in 1..i - 1 /\ ReadsWord(c, i - x, l)
  BY <1>2
<1>4. ASSUME NEW k \in i - x + 1..i - 1 PROVE ~ReadsWord(c, k, l)
  <2> SUFFICES ASSUME ReadsWord(c, k, l) PROVE FALSE
    OBVIOUS
  <2>1. i - (i - k) = k /\ i - k \in Nat /\ k \in 1..i - 1 /\ ~(x <= i - k)
    BY <1>2, <1>3
  <2>2. i - k \in D
    BY <2>1
  <2>3. QED
    BY <1>2, <2>1, <2>2
<1>5. \E s \in 1..i - 1 : ReadsWord(c, s, l) /\ \A k \in s + 1..i - 1 : ~ReadsWord(c, k, l)
  BY <1>3, <1>4
<1>6. /\ Source(c, i) \in 1..i - 1 /\ ReadsWord(c, Source(c, i), l)
      /\ \A k \in Source(c, i) + 1..i - 1 : ~ReadsWord(c, k, l)
  BY <1>5 DEF Source, l
<1>7. j <= Source(c, i)
  <2> SUFFICES ASSUME ~(j <= Source(c, i)) PROVE FALSE
    OBVIOUS
  <2>1. j \in Source(c, i) + 1..i - 1
    BY <1>6
  <2>2. QED
    BY <1>6, <2>1 DEF l
<1>8. QED
  BY <1>6, <1>7 DEF l

\* Where a write that counts gets its number.
Sourced(p, c, i) ==
  LET s == Source(c, i)
      n == c[i].inst IN
  /\ s \in DOMAIN c /\ s < i /\ ReadsWord(c, s, c[i].do.loc)
  /\ \/ p[n].op = "lock_add" /\ c[s].inst = n
     \/ /\ p[n].op = "stlxr"
        /\ \A k \in DOMAIN c : s < k /\ k < i /\ p[c[k].inst].op = "stlxr" => c[k].inst = n

LEMMA SourceFacts ==
  ASSUME NEW p, Program(p), NEW c, Shape(p, c), Effects(p, c), NEW i \in DOMAIN c,
         Counts(c[i].do), c[i].do.kinds = {"W"}
  PROVE  Sourced(p, c, i)
<1> DEFINE n == c[i].inst
           l == c[i].do.loc
           s == Source(c, i)
<1>1. /\ DOMAIN c \subseteq Nat /\ DOMAIN c = 1..Len(c) /\ Len(c) \in Nat
      /\ DOMAIN p \subseteq Nat /\ \A k \in DOMAIN c : c[k].inst \in DOMAIN p
  BY DEF Shape, Program
<1>2. PICK j \in 1..i - 1 :
        /\ ReadsWord(c, j, l)
        /\ \/ p[n].op = "lock_add" /\ c[j].inst = n
           \/ /\ p[n].op = "stlxr"
              /\ c[j].inst < n /\ p[c[j].inst].op \in {"ldxr", "ldaxr"}
              /\ \A q \in DOMAIN p : c[j].inst < q /\ q < n => p[q].op # "stlxr"
  BY SourceExists
<1>3. i \in Nat
  BY <1>1
<1>4. s \in 1..i - 1 /\ j <= s /\ ReadsWord(c, s, l)
  BY <1>2, <1>3, SourceIsLast
<1> HIDE DEF s
<1>5. s \in DOMAIN c /\ j \in DOMAIN c /\ s < i
  BY <1>1, <1>4
<1>6. \A k, h \in DOMAIN c : k <= h => c[k].inst <= c[h].inst
  <2> SUFFICES ASSUME NEW k \in DOMAIN c, NEW h \in DOMAIN c, k <= h
               PROVE  c[k].inst <= c[h].inst
    OBVIOUS
  <2>1. ~(c[h].inst < c[k].inst)
    <3> SUFFICES ASSUME c[h].inst < c[k].inst PROVE FALSE
      OBVIOUS
    <3>1. h < k
      BY DEF Shape
    <3>2. QED
      BY <1>1, <3>1
  <2>2. c[h].inst \in Nat /\ c[k].inst \in Nat
    BY <1>1
  <2>3. QED
    BY <2>1, <2>2
<1>7. c[j].inst <= c[s].inst /\ c[s].inst <= n
  <2>1. s <= i
    BY <1>3, <1>4
  <2>2. QED
    BY <1>4, <1>5, <1>6, <2>1
<1>8. n \in Nat /\ c[s].inst \in Nat /\ c[j].inst \in Nat
  BY <1>1, <1>5
<1>9. CASE p[n].op = "lock_add"
  <2>1. c[s].inst = n
    BY <1>2, <1>7, <1>8, <1>9
  <2>2. QED
    BY <1>4, <1>5, <1>9, <2>1 DEF Sourced, s
<1>10. CASE p[n].op = "stlxr"
  <2>1. ASSUME NEW k \in DOMAIN c, s < k, k < i, p[c[k].inst].op = "stlxr"
        PROVE  c[k].inst = n
    <3>1. j <= k /\ k <= i
      BY <1>1, <1>4, <1>5, <2>1
    <3>2. c[j].inst <= c[k].inst /\ c[k].inst <= n /\ c[k].inst \in DOMAIN p
      BY <1>1, <1>5, <1>6, <3>1
    <3>3. c[k].inst # c[j].inst
      BY <1>2, <1>10, <2>1
    <3>4. c[k].inst \in Nat
      BY <1>1
    <3>5. ~(c[j].inst < c[k].inst /\ c[k].inst < n)
      BY <1>2, <1>10, <2>1, <3>2
    <3>6. QED
      BY <1>8, <3>2, <3>3, <3>4, <3>5
  <2>2. QED
    BY <1>4, <1>5, <1>10, <2>1 DEF Sourced, s
<1>11. QED
  BY <1>2, <1>9, <1>10

-----------------------------------------------------------------------------
(***************************************************************************)
(* What a step does to memory.                                             *)
(***************************************************************************)
LEMMA WrittenIsNotZero ==
  ASSUME NEW h \in Hows, NEW v \in Nat
  PROVE  Written(h, v) \in Nat /\ Written(h, v) # 0
<1>1. CASE h = "one"
  BY <1>1 DEF Written
<1>2. CASE h = "inc"
  BY <1>2 DEF Written
<1>3. CASE h = "one_if_zero"
  BY <1>3 DEF Written
<1>4. QED
  BY <1>1, <1>2, <1>3 DEF Hows

LEMMA WrittenCounts ==
  ASSUME NEW v
  PROVE  Written("inc", v) = v + 1
  BY DEF Written

\* The value that intrinsic i of thread t starts from.
Old(t, i) ==
  LET c == code[t]
      a == c[i].do IN
  IF "R" \in a.kinds \/ a.how # "inc" THEN mem[a.loc] ELSE got[t][Source(c, i)]

\* What it changes.
Changes(t, i) ==
  LET a == code[t][i].do IN
  /\ "R" \in a.kinds => /\ got'[t][i] = mem[a.loc]
                        /\ \A j \in DOMAIN code[t] : j # i => got'[t][j] = got[t][j]
  /\ "R" \notin a.kinds => got'[t] = got[t]
  /\ \A u \in Threads : u # t => got'[u] = got[u]
  /\ \A l \in Locations : ~WritesWord(t, i, l) => mem'[l] = mem[l]
  /\ \A l \in Locations : WritesWord(t, i, l) => mem'[l] = Written(a.how, Old(t, i))
  /\ DOMAIN got' = DOMAIN got /\ \A u \in Threads : DOMAIN got'[u] = DOMAIN got[u]
  /\ DOMAIN mem' = DOMAIN mem

LEMMA StepChanges ==
  ASSUME Values, NEW t \in Threads, NEW i \in DOMAIN code[t],
         Access(t, i) \/ Synchronize(t, i)
  PROVE  Changes(t, i)
<1> DEFINE a == code[t][i].do
<1>1. /\ DOMAIN got = Threads /\ DOMAIN got[t] = DOMAIN code[t] /\ DOMAIN mem = Locations
  BY DEF Values
<1>2. CASE Synchronize(t, i)
  <2>1. a.kinds = {} /\ mem' = mem /\ got' = got
    BY <1>2 DEF Synchronize
  <2>2. QED
    BY <2>1 DEF Changes, WritesWord
<1>3. CASE Access(t, i)
  <2>1. /\ got' = IF "R" \in a.kinds THEN [got EXCEPT ![t][i] = mem[a.loc]] ELSE got
        /\ mem' = IF "W" \in a.kinds THEN [mem EXCEPT ![a.loc] = Written(a.how, Old(t, i))]
                  ELSE mem
    BY <1>3 DEF Access, Old
  <2>2. /\ \A l \in Locations : ~WritesWord(t, i, l) => mem'[l] = mem[l]
        /\ \A l \in Locations : WritesWord(t, i, l) => mem'[l] = Written(a.how, Old(t, i))
        /\ DOMAIN mem' = DOMAIN mem
    BY <1>1, <2>1 DEF WritesWord
  <2>3. /\ "R" \in a.kinds => /\ got'[t][i] = mem[a.loc]
                              /\ \A j \in DOMAIN code[t] : j # i => got'[t][j] = got[t][j]
        /\ "R" \notin a.kinds => got'[t] = got[t]
        /\ \A u \in Threads : u # t => got'[u] = got[u]
        /\ DOMAIN got' = DOMAIN got /\ \A u \in Threads : DOMAIN got'[u] = DOMAIN got[u]
    BY <1>1, <2>1
  <2>4. QED
    BY <2>2, <2>3, Zenon DEF Changes
<1>4. QED
  BY <1>2, <1>3

LEMMA OldIsNatural ==
  ASSUME Fixed, Values, NEW t \in Threads, NEW i \in DOMAIN code[t],
         "W" \in code[t][i].do.kinds
  PROVE  /\ Old(t, i) \in Nat /\ code[t][i].do.how \in Hows
         /\ code[t][i].do.loc \in Locations
<1> DEFINE p == prog[t]
           c == code[t]
           a == c[i].do
<1>1. Program(p) /\ Shape(p, c) /\ Effects(p, c)
  BY ProgramsAreLaid
<1> HIDE DEF p
<1>2. /\ a.loc \in Locations /\ a.how \in Hows /\ a.kinds \subseteq {"R", "W"}
  BY <1>1 DEF Shape, Program
<1>3. mem[a.loc] \in Nat
  BY <1>2 DEF Values
<1>4. CASE "R" \in a.kinds \/ a.how # "inc"
  BY <1>2, <1>3, <1>4 DEF Old
<1>5. CASE ~("R" \in a.kinds \/ a.how # "inc")
  <2>1. a.kinds = {"W"} /\ Counts(a)
    BY <1>2, <1>5 DEF Counts
  <2>2. Source(c, i) \in DOMAIN c
    <3>1. Sourced(p, c, i)
      BY <1>1, <2>1, SourceFacts
    <3>2. QED
      BY <3>1 DEF Sourced
  <2>3. got[t][Source(c, i)] \in Nat
    BY <2>2 DEF Values
  <2>4. QED
    BY <1>2, <1>5, <2>3 DEF Old
<1>6. QED
  BY <1>4, <1>5

LEMMA ValuesStep ==
  ASSUME Fixed, Values, NEW t \in Threads, NEW i \in DOMAIN code[t],
         Access(t, i) \/ Synchronize(t, i)
  PROVE  Values'
<1> DEFINE a == code[t][i].do
<1>1. Changes(t, i)
  BY StepChanges
<1>2. UNCHANGED <<prog, relaxed, code>> /\ Threads' = Threads
  BY StepFacts DEF Threads
<1>3. DOMAIN mem = Locations /\ \A l \in Locations : mem[l] \in Nat
  BY DEF Values
<1>4. \A l \in Locations : mem'[l] \in Nat
  <2> SUFFICES ASSUME NEW l \in Locations PROVE mem'[l] \in Nat
    OBVIOUS
  <2>1. CASE WritesWord(t, i, l)
    <3>1. Old(t, i) \in Nat /\ a.how \in Hows
      BY <2>1, OldIsNatural DEF WritesWord
    <3>2. mem'[l] = Written(a.how, Old(t, i))
      BY <1>1, <2>1 DEF Changes
    <3>3. QED
      BY <3>1, <3>2, WrittenIsNotZero
  <2>2. CASE ~WritesWord(t, i, l)
    BY <1>1, <1>3, <2>2 DEF Changes
  <2>3. QED
    BY <2>1, <2>2
<1>5. "R" \in a.kinds => mem[a.loc] \in Nat
  <2>1. Program(prog[t]) /\ Shape(prog[t], code[t])
    BY ProgramsAreLaid
  <2>2. "R" \in a.kinds => a.loc \in Locations
    BY <2>1 DEF Shape, Program
  <2>3. QED
    BY <1>3, <2>2
<1>6. ASSUME NEW u \in Threads, NEW j \in DOMAIN code[u]
      PROVE  got'[u][j] \in Nat
  <2>1. got[u][j] \in Nat
    BY DEF Values
  <2>2. CASE u = t /\ "R" \in a.kinds
    BY <1>1, <1>5, <2>1, <2>2 DEF Changes
  <2>3. CASE ~(u = t /\ "R" \in a.kinds)
    BY <1>1, <2>1, <2>3 DEF Changes
  <2>4. QED
    BY <2>2, <2>3
<1>7. DOMAIN mem' = Locations /\ DOMAIN got' = Threads
  BY <1>1, <1>3 DEF Changes, Values
<1>8. \A u \in Threads : DOMAIN got'[u] = DOMAIN code[u]
  BY <1>1 DEF Changes, Values
<1>9. mem' \in [Locations -> Nat]
  <2>1. mem' = [l \in Locations |-> mem'[l]]
    BY <1>1, <1>2, <1>7 DEF Access, Synchronize, Values
  <2>2. QED
    BY <1>4, <2>1
<1>10. \A u \in Threads : got'[u] \in [DOMAIN code[u] -> Nat]
  <2> SUFFICES ASSUME NEW u \in Threads PROVE got'[u] \in [DOMAIN code[u] -> Nat]
    OBVIOUS
  <2>1. got'[u] = [j \in DOMAIN code[u] |-> got'[u][j]]
    BY <1>7, <1>8 DEF Access, Synchronize, Values
  <2>2. QED
    BY <1>6, <2>1
<1>11. QED
  BY <1>2, <1>7, <1>9, <1>10 DEF Values

-----------------------------------------------------------------------------
(***************************************************************************)
(* One winner.  Who has read a 0 has written, or is about to in its region.*)
(***************************************************************************)
Attempt(t, i, l) ==
  /\ i \in DOMAIN code[t] /\ ReadsWord(code[t], i, l)
  /\ prog[t][code[t][i].inst].op \in {"xchg", "cmpxchg"}
Won(t, i, l) == Attempt(t, i, l) /\ i \in done[t] /\ got[t][i] = 0

\* Thread t has still to write the word for instruction n.
WillWrite(t, n, l) ==
  \E j \in DOMAIN code[t] \ done[t] : code[t][j].inst = n /\ WritesWord(t, j, l)

Winners ==
  \A l \in Locations, t \in Threads : \A i :
    Won(t, i, l) => mem[l] # 0 \/ WillWrite(t, code[t][i].inst, l)
One ==
  \A l \in Locations, t, u \in Threads : \A i, j :
    Won(t, i, l) /\ Won(u, j, l) => t = u /\ i = j

\* Intrinsics of an instruction that read, or write, are the same one.
LEMMA SameAccess ==
  ASSUME NEW p, NEW c, Shape(p, c), NEW i \in DOMAIN c, NEW j \in DOMAIN c,
         c[i].inst = c[j].inst, NEW x \in {"R", "W"},
         x \in c[i].do.kinds, x \in c[j].do.kinds
  PROVE  i = j
<1>1. ~Apart(c[i].do, c[j].do)
  BY DEF Apart
<1>2. QED
  BY <1>1 DEF Shape

\* A thread that has an access to perform for an atomic instruction owns the
\* region, and no other instruction is in one.
LEMMA AtomicAccessOwns ==
  ASSUME Fixed, DoneInOrder, Regions, NEW t \in Threads, NEW i, Ready(t, i),
         code[t][i].do.kinds # {}, Atomic(prog[t][code[t][i].inst].op)
  PROVE  /\ Open(code[t], done[t], code[t][i].inst)
         /\ \A u \in Threads : \A n : Open(code[u], done[u], n) =>
              u = t /\ n = code[t][i].inst
<1> DEFINE p == prog[t]
           c == code[t]
           d == done[t]
           r == relaxed
<1>1. Program(p) /\ Shape(p, c) /\ Downward(r, c, d) /\ CanDo(r, c, d, i)
  BY ProgramsAreLaid, ReadyCanDo DEF DoneInOrder
<1>2. Open(c, d, c[i].inst)
  BY <1>1, AccessIsInRegion
<1>3. ASSUME NEW u \in Threads, NEW n, Open(code[u], done[u], n)
      PROVE  u = t /\ n = c[i].inst
  <2>1. owner = t /\ owner = u
    BY <1>2, <1>3 DEF Regions
  <2>2. Open(c, d, n)
    BY <1>3, <2>1
  <2>3. QED
    BY <1>1, <1>2, <2>1, <2>2, OpenIsUnique
<1>4. QED
  BY <1>2, <1>3

LEMMA AttemptsAreAtomic ==
  ASSUME Fixed, NEW t \in Threads, NEW i, NEW l, Attempt(t, i, l)
  PROVE  /\ i \in DOMAIN code[t] /\ "R" \in code[t][i].do.kinds /\ code[t][i].do.loc = l
         /\ code[t][i].do.kinds # {} /\ Atomic(prog[t][code[t][i].inst].op)
         /\ prog[t][code[t][i].inst].loc = l
<1>1. Shape(prog[t], code[t])
  BY ProgramsAreLaid
<1>2. /\ i \in DOMAIN code[t] /\ "R" \in code[t][i].do.kinds /\ code[t][i].do.loc = l
      /\ Atomic(prog[t][code[t][i].inst].op)
  BY DEF Attempt, ReadsWord, Atomic
<1>3. QED
  BY <1>1, <1>2 DEF Shape

\* Whoever won and has still to write is in its region.
LEMMA WinnerIsInRegion ==
  ASSUME Fixed, DoneInOrder, NEW t \in Threads, NEW i, NEW l, Won(t, i, l),
         WillWrite(t, code[t][i].inst, l)
  PROVE  Open(code[t], done[t], code[t][i].inst)
<1> DEFINE p == prog[t]
           c == code[t]
           d == done[t]
           r == relaxed
<1>1. Shape(p, c) /\ Downward(r, c, d)
  BY ProgramsAreLaid DEF DoneInOrder
<1>2. i \in d /\ c[i].do.kinds # {} /\ Atomic(p[c[i].inst].op)
  BY AttemptsAreAtomic DEF Won
<1>3. PICK j \in DOMAIN c \ d : c[j].inst = c[i].inst /\ c[j].do.kinds # {}
  BY DEF WillWrite, WritesWord
<1>4. QED
  BY <1>1, <1>2, <1>3, PendingIsInRegion

\* An attempt writes at once, or later.
LEMMA AttemptWrites ==
  ASSUME Fixed, DoneInOrder, NEW t \in Threads, NEW l, NEW i, Attempt(t, i, l), Ready(t, i)
  PROVE  \/ WritesWord(t, i, l)
         \/ \E j \in DOMAIN code[t] \ done[t] :
              j # i /\ code[t][j].inst = code[t][i].inst /\ WritesWord(t, j, l)
<1> DEFINE p == prog[t]
           c == code[t]
           d == done[t]
           r == relaxed
           n == c[i].inst
<1>1. Shape(p, c) /\ Effects(p, c) /\ Downward(r, c, d) /\ CanDo(r, c, d, i)
  BY ProgramsAreLaid, ReadyCanDo DEF DoneInOrder
<1>2. /\ i \in DOMAIN c /\ "R" \in c[i].do.kinds /\ c[i].do.loc = l
      /\ p[n].loc = l /\ n \in DOMAIN p
  BY <1>1, AttemptsAreAtomic DEF Shape
<1>3. i \notin d
  BY <1>1 DEF CanDo
<1>4. p[n].op = "xchg" \/ p[n].op = "cmpxchg"
  BY DEF Attempt
<1>5. CASE p[n].op = "cmpxchg"
  <2>1. PICK k \in DOMAIN c : c[k].inst = n /\ c[k].do = Update(l, "one_if_zero")
    <3>1. Has(c, n, Update(l, "one_if_zero"))
      BY <1>1, <1>2, <1>5, Zenon DEF Effects
    <3>2. QED
      BY <3>1 DEF Has
  <2>2. c[k].do.kinds = {"R", "W"} /\ c[k].do.loc = l
    BY <2>1, AccessFields
  <2>3. k = i
    BY <1>1, <1>2, <2>1, <2>2, SameAccess
  <2>4. QED
    BY <2>2, <2>3 DEF WritesWord
<1>6. CASE p[n].op = "xchg"
  <2>1. PICK k, h \in DOMAIN c : /\ k < h /\ c[k].inst = n /\ c[h].inst = n
                                 /\ c[k].do = Read(l) /\ c[h].do = Write(l, "one")
    <3>1. \E k, h \in DOMAIN c : /\ k < h /\ c[k].inst = n /\ c[h].inst = n
                                /\ c[k].do = Read(p[n].loc)
                                /\ c[h].do = Write(p[n].loc, "one")
      <4>1. \A m \in DOMAIN p : p[m].op = "xchg" =>
              \E k, h \in DOMAIN c : /\ k < h /\ c[k].inst = m /\ c[h].inst = m
                                    /\ c[k].do = Read(p[m].loc)
                                    /\ c[h].do = Write(p[m].loc, "one")
        BY <1>1 DEF Effects
      <4>2. QED
        BY <1>2, <1>6, <4>1
    <3>2. QED
      BY <1>2, <3>1
  <2>2. /\ c[k].do.kinds = {"R"} /\ c[k].do.loc = l
        /\ c[h].do.kinds = {"W"} /\ c[h].do.loc = l
    BY <2>1, ReadFields, AccessFields
  <2>3. k = i
    BY <1>1, <1>2, <2>1, <2>2, SameAccess
  <2>4. OrderedIn(r, c, i, h)
    BY <2>2, <2>3, <1>1, RegionOrder
  <2>5. h \notin d
    <3> SUFFICES ASSUME h \in d PROVE FALSE
      OBVIOUS
    <3>1. i \in d
      BY <1>1, <1>2, <2>1, <2>3, <2>4, DoneFirst
    <3>2. QED
      BY <1>3, <3>1
  <2>6. h # i
    BY <2>2, <2>3
  <2>7. QED
    BY <2>1, <2>2, <2>5, <2>6 DEF WritesWord
<1>7. QED
  BY <1>4, <1>5, <1>6

\* What was won before a step, and what is won by it.
LEMMA WonStep ==
  ASSUME Fixed, Values, DoneInOrder, NEW t \in Threads, NEW i \in DOMAIN code[t],
         Access(t, i) \/ Synchronize(t, i), NEW u \in Threads, NEW j, NEW l,
         Won(u, j, l)'
  PROVE  \/ Won(u, j, l) /\ ~(u = t /\ j = i)
         \/ u = t /\ j = i /\ Attempt(t, i, l) /\ mem[l] = 0
<1>1. Changes(t, i)
  BY StepChanges
<1>2. Ready(t, i) /\ Perform(t, i) /\ UNCHANGED <<prog, relaxed, code>>
  BY StepFacts
<1>3. /\ done'[t] = done[t] \cup {i} /\ \A v \in Threads : v # t => done'[v] = done[v]
  BY <1>2, PerformFacts DEF DoneInOrder
<1>4. Attempt(u, j, l) /\ j \in done'[u] /\ got'[u][j] = 0
  BY <1>2 DEF Won, Attempt, ReadsWord
<1>5. i \notin done[t]
  BY <1>2 DEF Ready
<1>6. CASE u = t /\ j = i
  <2>1. "R" \in code[t][i].do.kinds /\ code[t][i].do.loc = l
    BY <1>4, <1>6 DEF Attempt, ReadsWord
  <2>2. got'[t][i] = mem[l]
    BY <1>1, <2>1 DEF Changes
  <2>3. QED
    BY <1>4, <1>6, <2>2
<1>7. CASE ~(u = t /\ j = i)
  <2>1. j \in done[u]
    BY <1>3, <1>4, <1>7
  <2>2. got'[u][j] = got[u][j]
    BY <1>1, <1>4, <1>7 DEF Changes, Attempt
  <2>3. QED
    BY <1>4, <1>7, <2>1, <2>2 DEF Won
<1>8. QED
  BY <1>6, <1>7

LEMMA WinnersStep ==
  ASSUME Fixed, Values, DoneInOrder, Winners, NEW t \in Threads, NEW i \in DOMAIN code[t],
         Access(t, i) \/ Synchronize(t, i)
  PROVE  Winners'
<1>1. Changes(t, i)
  BY StepChanges
<1>2. Ready(t, i) /\ Perform(t, i) /\ UNCHANGED <<prog, relaxed, code>> /\ Threads' = Threads
  BY StepFacts DEF Threads
<1>3. /\ done'[t] = done[t] \cup {i} /\ \A v \in Threads : v # t => done'[v] = done[v]
  BY <1>2, PerformFacts DEF DoneInOrder
<1>4. ASSUME NEW l \in Locations, WritesWord(t, i, l)
      PROVE  mem'[l] # 0
  <2>1. Old(t, i) \in Nat /\ code[t][i].do.how \in Hows
    BY <1>4, OldIsNatural DEF WritesWord
  <2>2. mem'[l] = Written(code[t][i].do.how, Old(t, i))
    BY <1>1, <1>4 DEF Changes
  <2>3. QED
    BY <2>1, <2>2, WrittenIsNotZero
<1>5. ASSUME NEW l \in Locations, NEW u \in Threads, NEW j, Won(u, j, l)'
      PROVE  mem'[l] # 0 \/ WillWrite(u, code[u][j].inst, l)'
  <2>1. \/ Won(u, j, l) /\ ~(u = t /\ j = i)
        \/ u = t /\ j = i /\ Attempt(t, i, l) /\ mem[l] = 0
    BY <1>5, WonStep
  <2>2. CASE WritesWord(t, i, l)
    BY <1>4, <2>2
  <2>3. CASE Won(u, j, l) /\ ~WritesWord(t, i, l)
    <3>1. mem'[l] = mem[l]
      BY <1>1, <2>3 DEF Changes
    <3>2. CASE WillWrite(u, code[u][j].inst, l)
      <4>1. PICK h \in DOMAIN code[u] \ done[u] :
               code[u][h].inst = code[u][j].inst /\ WritesWord(u, h, l)
        BY <3>2 DEF WillWrite
      <4>2. h \notin done'[u]
        BY <1>3, <2>3, <4>1
      <4>3. QED
        BY <1>2, <4>1, <4>2 DEF WillWrite, WritesWord
    <3>3. QED
      BY <2>3, <3>1, <3>2 DEF Winners
  <2>4. CASE u = t /\ j = i /\ Attempt(t, i, l) /\ ~WritesWord(t, i, l)
    <3>1. PICK h \in DOMAIN code[t] \ done[t] :
             h # i /\ code[t][h].inst = code[t][i].inst /\ WritesWord(t, h, l)
      BY <1>2, <2>4, AttemptWrites
    <3>2. h \notin done'[t]
      BY <1>3, <3>1
    <3>3. QED
      BY <1>2, <2>4, <3>1, <3>2 DEF WillWrite, WritesWord
  <2>5. QED
    BY <2>1, <2>2, <2>3, <2>4
<1>6. QED
  BY <1>2, <1>5 DEF Winners

LEMMA OneStep ==
  ASSUME Fixed, Values, DoneInOrder, Regions, Winners, One,
         NEW t \in Threads, NEW i \in DOMAIN code[t], Access(t, i) \/ Synchronize(t, i)
  PROVE  One'
<1>1. Ready(t, i) /\ Perform(t, i) /\ UNCHANGED <<prog, relaxed, code>> /\ Threads' = Threads
  BY StepFacts DEF Threads
<1>2. i \notin done[t]
  BY <1>1 DEF Ready
<1>3. ASSUME NEW l \in Locations, NEW u \in Threads, NEW j, Won(u, j, l),
             Attempt(t, i, l), mem[l] = 0
      PROVE  FALSE
  <2>1. WillWrite(u, code[u][j].inst, l)
    BY <1>3 DEF Winners
  <2>2. Open(code[u], done[u], code[u][j].inst)
    BY <1>3, <2>1, WinnerIsInRegion
  <2>3. /\ code[t][i].do.kinds # {} /\ Atomic(prog[t][code[t][i].inst].op)
        /\ "R" \in code[t][i].do.kinds
    BY <1>3, AttemptsAreAtomic
  <2>4. u = t /\ code[u][j].inst = code[t][i].inst
    <3>1. \A v \in Threads : \A n : Open(code[v], done[v], n) =>
            v = t /\ n = code[t][i].inst
      BY <1>1, <2>3, AtomicAccessOwns
    <3>2. QED
      BY <2>2, <3>1
  <2>5. j \in DOMAIN code[t] /\ "R" \in code[t][j].do.kinds /\ j \in done[t]
    BY <1>3, <2>4, AttemptsAreAtomic DEF Won
  <2>6. Shape(prog[t], code[t])
    BY ProgramsAreLaid
  <2>7. i = j
    BY <2>3, <2>4, <2>5, <2>6, SameAccess
  <2>8. QED
    BY <1>2, <2>5, <2>7
<1>4. ASSUME NEW l \in Locations, NEW u \in Threads, NEW v \in Threads, NEW j, NEW k,
             Won(u, j, l)', Won(v, k, l)'
      PROVE  u = v /\ j = k
  <2>1. \/ Won(u, j, l)
        \/ u = t /\ j = i /\ Attempt(t, i, l) /\ mem[l] = 0
    BY <1>4, WonStep
  <2>2. \/ Won(v, k, l)
        \/ v = t /\ k = i /\ Attempt(t, i, l) /\ mem[l] = 0
    BY <1>4, WonStep
  <2>3. CASE Won(u, j, l) /\ Won(v, k, l)
    BY <2>3 DEF One
  <2>4. QED
    BY <1>3, <2>1, <2>2, <2>3
<1>5. QED
  BY <1>1, <1>4 DEF One

LEMMA OneIsOneWinner ==
  One => OneWinner
<1> SUFFICES ASSUME One, NEW l \in Locations,
                    NEW a \in Attempts(l), a[2] \in done[a[1]], got[a[1]][a[2]] = 0,
                    NEW b \in Attempts(l), b[2] \in done[b[1]], got[b[1]][b[2]] = 0
             PROVE  a = b
  BY DEF OneWinner
<1>1. \A w \in Work : w[1] \in Threads /\ w[2] \in DOMAIN code[w[1]] /\ w = <<w[1], w[2]>>
  BY DEF Work
<1>2. a \in Work /\ b \in Work
  BY DEF Attempts
<1>3. Won(a[1], a[2], l) /\ Won(b[1], b[2], l)
  BY <1>1, <1>2 DEF Attempts, Won, Attempt
<1>4. a[1] = b[1] /\ a[2] = b[2]
  BY <1>1, <1>2, <1>3 DEF One
<1>5. QED
  BY <1>1, <1>2, <1>4

-----------------------------------------------------------------------------
(***************************************************************************)
(* Every increment counts.  A write that will store what was read, plus 1, *)
(* finds the word as it was read.                                          *)
(***************************************************************************)
Pending(t, i, l) ==
  /\ i \in DOMAIN code[t] \ done[t] /\ WritesWord(t, i, l)
  /\ code[t][i].do.kinds = {"W"} /\ Source(code[t], i) \in done[t]

Counted ==
  \A l \in Locations : Counter(l) /\ Undisturbed(l) =>
    /\ IsFiniteSet(Increments(l)) /\ mem[l] = Cardinality(Increments(l))
    /\ \A t \in Threads : \A i : Pending(t, i, l) => got[t][Source(code[t], i)] = mem[l]

LEMMA CountersAreAtomic ==
  ASSUME Fixed, NEW t \in Threads, NEW i \in DOMAIN code[t], Counts(code[t][i].do)
  PROVE  /\ Atomic(prog[t][code[t][i].inst].op) /\ code[t][i].do.kinds # {}
         /\ prog[t][code[t][i].inst].op \in {"xadd", "lock_add", "stlxr"}
         /\ "R" \in code[t][i].do.kinds => prog[t][code[t][i].inst].op = "xadd"
         /\ "R" \notin code[t][i].do.kinds =>
              code[t][i].do.kinds = {"W"} /\ Sourced(prog[t], code[t], i)
<1> DEFINE p == prog[t]
           c == code[t]
           n == c[i].inst
           a == c[i].do
<1>1. Program(p) /\ Shape(p, c) /\ Effects(p, c)
  BY ProgramsAreLaid
<1>2. \/ p[n].op = "xadd" /\ a.kinds = {"R", "W"}
      \/ p[n].op = "stlxr" /\ a.kinds = {"W"}
      \/ p[n].op = "lock_add" /\ a.kinds = {"W"}
  BY <1>1 DEF Effects
<1>3. a.kinds = {"W"} => Sourced(p, c, i)
  BY <1>1, SourceFacts
<1>4. Atomic(p[n].op)
  BY <1>2 DEF Atomic
<1> HIDE DEF p, c, n, a
<1>5. /\ Atomic(p[n].op) /\ a.kinds # {}
      /\ p[n].op \in {"xadd", "lock_add", "stlxr"}
      /\ "R" \in a.kinds => p[n].op = "xadd"
      /\ "R" \notin a.kinds => a.kinds = {"W"} /\ Sourced(p, c, i)
  BY <1>2, <1>3, <1>4
<1>6. QED
  BY <1>5 DEF p, c, n, a

LEMMA CountsIfCounter ==
  ASSUME NEW l, Counter(l), NEW t \in Threads, NEW i \in DOMAIN code[t], WritesWord(t, i, l)
  PROVE  Counts(code[t][i].do) /\ code[t][i].do.how = "inc" /\ code[t][i].do.loc = l
  BY DEF Counter, WritesWord, Counts

\* Exclusive accesses and locked instructions are of two architectures.
LEMMA OneArchitecture ==
  ASSUME Fixed, NEW t \in Threads, NEW m \in DOMAIN prog[t], prog[t][m].op = "stlxr",
         NEW u \in Threads, NEW n \in DOMAIN prog[u]
  PROVE  prog[u][n].op \notin {"xadd", "lock_add"}
<1>1. PICK s \in Systems : prog = s.prog /\ relaxed = s.relaxed
  BY DEF Fixed
<1>2. ASSUME NEW ops, RunsOn(s, ops), NEW v \in Threads, NEW k \in DOMAIN prog[v]
      PROVE  prog[v][k].op \in ops
  <2> DEFINE p == prog[v]
             S == [op : ops, loc : Locations]
  <2>1. p \in Seq(S) /\ k \in DOMAIN p
    BY <1>1, <1>2 DEF RunsOn, Threads
  <2> HIDE DEF p, S
  <2>2. p[k] \in S
    BY <2>1, LenProperties, ElementOfSeq
  <2>3. QED
    BY <2>2 DEF p, S
<1>3. ~RunsOn(s, X86Ops)
  <2> SUFFICES ASSUME RunsOn(s, X86Ops) PROVE FALSE
    OBVIOUS
  <2>1. prog[t][m].op \in X86Ops
    BY <1>2
  <2>2. QED
    BY <2>1 DEF X86Ops
<1>4. RunsOn(s, AArch64Ops)
  BY <1>3, SystemsAssumption
<1>5. prog[u][n].op \in AArch64Ops
  BY <1>2, <1>4
<1>6. QED
  BY <1>5 DEF AArch64Ops

LEMMA OneWriter ==
  ASSUME Fixed, NEW l, Undisturbed(l), Exclusive(l),
         NEW t \in Threads, NEW i \in DOMAIN code[t], WritesWord(t, i, l),
         NEW u \in Threads, NEW k \in DOMAIN code[u], WritesWord(u, k, l)
  PROVE  t = u
<1>1. IsFiniteSet(Threads)
  BY ProgramsAreLaid
<1>2. t \in Writers(l) /\ u \in Writers(l) /\ Writers(l) \subseteq Threads
  BY DEF Writers
<1>3. Cardinality(Writers(l)) <= 1
  BY DEF Undisturbed
<1> DEFINE W == Writers(l)
<1> HIDE DEF W
<1>4. IsFiniteSet(W) /\ {t, u} \subseteq W /\ Cardinality(W) <= 1
  BY <1>1, <1>2, <1>3, FS_Subset DEF W
<1>5. IsFiniteSet({t, u}) /\ Cardinality({t, u}) <= Cardinality(W)
  BY <1>4, FS_Subset
<1>6. Cardinality(W) \in Nat /\ Cardinality({t, u}) \in Nat
  BY <1>4, <1>5, FS_CardinalityType
<1>7. t # u => Cardinality({t, u}) = 2
  <2> SUFFICES ASSUME t # u PROVE Cardinality({t, u}) = 2
    OBVIOUS
  <2>1. IsFiniteSet({t}) /\ Cardinality({t}) = 1
    BY FS_Singleton
  <2>2. Cardinality({t} \cup {u}) = Cardinality({t}) + 1
    BY <2>1, FS_AddElement
  <2>3. {t} \cup {u} = {t, u}
    OBVIOUS
  <2>4. QED
    BY <2>1, <2>2, <2>3
<1>8. QED
  BY <1>4, <1>5, <1>6, <1>7

\* No other write can be performed before a pending one.
LEMMA NoRival ==
  ASSUME Fixed, DoneInOrder, Regions, NEW l, Counter(l), Undisturbed(l),
         NEW t \in Threads, NEW i, Pending(t, i, l),
         NEW u \in Threads, NEW k, Ready(u, k), WritesWord(u, k, l)
  PROVE  u = t /\ k = i
<1> DEFINE p == prog[t]
           c == code[t]
           d == done[t]
           r == relaxed
           s == Source(c, i)
<1>1. /\ i \in DOMAIN c /\ i \notin d /\ WritesWord(t, i, l) /\ c[i].do.kinds = {"W"}
      /\ s \in d
  BY DEF Pending
<1>2. Counts(c[i].do) /\ c[i].do.loc = l
  BY <1>1, CountsIfCounter
<1>3. k \in DOMAIN code[u] /\ k \notin done[u]
  BY DEF Ready
<1>4. Counts(code[u][k].do) /\ code[u][k].do.loc = l
  BY <1>3, CountsIfCounter
<1>5. /\ Atomic(prog[u][code[u][k].inst].op) /\ code[u][k].do.kinds # {}
      /\ prog[u][code[u][k].inst].op \in {"xadd", "lock_add", "stlxr"}
  BY <1>3, <1>4, CountersAreAtomic
<1>6. Program(p) /\ Shape(p, c) /\ Effects(p, c) /\ Downward(r, c, d)
  BY ProgramsAreLaid DEF DoneInOrder
<1>7. Sourced(p, c, i) /\ Atomic(p[c[i].inst].op)
  BY <1>1, <1>2, <1>6, SourceFacts, CountersAreAtomic
<1>8. s \in DOMAIN c /\ s < i /\ "R" \in c[s].do.kinds /\ c[s].do.loc = l
  BY <1>2, <1>7 DEF Sourced, ReadsWord
<1>9. "W" \in c[i].do.kinds /\ "W" \in code[u][k].do.kinds
  BY <1>1 DEF WritesWord
<1>10. CASE p[c[i].inst].op = "lock_add"
  <2>1. c[s].inst = c[i].inst
    BY <1>7, <1>10 DEF Sourced
  <2>2. c[s].do.kinds # {} /\ c[i].do.kinds # {} /\ Atomic(p[c[s].inst].op)
    BY <1>7, <1>8, <1>9, <2>1
  <2>3. Open(c, d, c[s].inst)
    BY <1>1, <1>6, <2>1, <2>2, PendingIsInRegion
  <2>4. \A v \in Threads : \A n : Open(code[v], done[v], n) =>
          v = u /\ n = code[u][k].inst
    BY <1>5, AtomicAccessOwns
  <2>5. t = u /\ c[i].inst = code[u][k].inst
    BY <2>1, <2>3, <2>4
  <2>6. QED
    BY <1>1, <1>3, <1>6, <1>9, <2>5, SameAccess
<1>11. CASE p[c[i].inst].op = "stlxr"
  <2>1. c[i].inst \in DOMAIN p /\ p[c[i].inst].loc = l
    BY <1>1, <1>2, <1>6 DEF Shape
  <2>2. Exclusive(l)
    <3>1. p[c[i].inst] \in [op : Ops, loc : Locations]
      BY <1>6, <2>1 DEF Program
    <3>2. p[c[i].inst] = [op |-> "stlxr", loc |-> l]
      BY <1>11, <2>1, <3>1
    <3>3. QED
      BY <2>1, <3>2 DEF Exclusive
  <2>3. u = t
    BY <1>1, <1>3, <2>2, OneWriter
  <2>4. k \in DOMAIN c /\ k \notin d /\ CanDo(r, c, d, k) /\ c[k].do.loc = l /\ c[k].do.kinds # {}
    BY <1>3, <1>4, <1>5, <2>3, ReadyCanDo
  <2>5. ~(i < k)
    <3> SUFFICES ASSUME i < k PROVE FALSE
      OBVIOUS
    <3>1. OrderedIn(r, c, i, k)
      BY <1>1, <1>2, <1>6, <2>4, RegionOrder
    <3>2. i \in d
      BY <1>1, <1>6, <2>4, <3>1, CanDoFirst
    <3>3. QED
      BY <1>1, <3>2
  <2>6. ~(k < s)
    <3> SUFFICES ASSUME k < s PROVE FALSE
      OBVIOUS
    <3>1. OrderedIn(r, c, k, s)
      BY <1>6, <1>8, <2>4, RegionOrder
    <3>2. k \in d
      BY <1>1, <1>6, <2>4, <3>1, DoneFirst
    <3>3. QED
      BY <2>4, <3>2
  <2>7. k # s
    BY <1>1, <2>4
  <2>8. p[c[k].inst].op = "stlxr"
    <3>1. c[k].inst \in DOMAIN p
      BY <1>6, <2>4 DEF Shape
    <3>2. p[c[k].inst].op \notin {"xadd", "lock_add"}
      BY <1>11, <2>1, <3>1, OneArchitecture
    <3>3. QED
      BY <1>5, <2>3, <3>2
  <2>9. i \in Nat /\ k \in Nat /\ s \in Nat
    BY <1>1, <1>6, <1>8, <2>4 DEF Shape
  <2>10. CASE s < k /\ k < i
    <3>1. c[k].inst = c[i].inst
      BY <1>7, <1>11, <2>4, <2>8, <2>10 DEF Sourced
    <3>2. k = i
      BY <1>1, <1>6, <1>9, <2>3, <2>4, <3>1, SameAccess
    <3>3. QED
      BY <2>3, <3>2
  <2>11. QED
    BY <2>3, <2>5, <2>6, <2>7, <2>9, <2>10
<1>12. QED
  BY <1>7, <1>10, <1>11 DEF Sourced

\* What a step adds to the increments.
LEMMA IncrementsStep ==
  ASSUME Fixed, DoneInOrder, NEW t \in Threads, NEW i \in DOMAIN code[t],
         Ready(t, i), Perform(t, i), UNCHANGED <<prog, relaxed, code>>,
         NEW l, Counter(l)
  PROVE  /\ WritesWord(t, i, l) => /\ Increments(l)' = Increments(l) \cup {<<t, i>>}
                                   /\ <<t, i>> \notin Increments(l)
         /\ ~WritesWord(t, i, l) => Increments(l)' = Increments(l)
<1>1. /\ done'[t] = done[t] \cup {i} /\ \A v \in Threads : v # t => done'[v] = done[v]
  BY PerformFacts DEF DoneInOrder
<1>2. i \notin done[t] /\ Work' = Work /\ Threads' = Threads
  BY DEF Ready, Work, Threads
<1> DEFINE Inc(w) == WritesWord(w[1], w[2], l) /\ code[w[1]][w[2]].do.how = "inc"
<1>3. Increments(l)' = {w \in Work : w[2] \in done'[w[1]] /\ Inc(w)}
  BY <1>2 DEF Increments, WritesWord
<1>4. Increments(l) = {w \in Work : w[2] \in done[w[1]] /\ Inc(w)}
  BY DEF Increments
<1>5. \A w \in Work : w[1] \in Threads /\ w[2] \in DOMAIN code[w[1]] /\ w = <<w[1], w[2]>>
  BY DEF Work
<1>6. <<t, i>> \in Work
  BY DEF Work
<1>7. WritesWord(t, i, l) <=> Inc(<<t, i>>)
  BY DEF Counter
<1> DEFINE x == <<t, i>>
<1>8. x[1] = t /\ x[2] = i
  OBVIOUS
<1> HIDE DEF Inc, x
<1>9. \A w \in Work : w[2] \in done'[w[1]] <=> w[2] \in done[w[1]] \/ w = x
  <2> SUFFICES ASSUME NEW w \in Work
               PROVE  w[2] \in done'[w[1]] <=> w[2] \in done[w[1]] \/ w = x
    OBVIOUS
  <2>1. w[1] \in Threads /\ (w = x <=> w[1] = t /\ w[2] = i)
    BY <1>5, <1>8 DEF x
  <2>2. QED
    BY <1>1, <2>1
<1>10. x \in Work /\ (WritesWord(t, i, l) <=> Inc(x)) /\ x[2] \notin done[x[1]]
  BY <1>2, <1>6, <1>7, <1>8 DEF x
<1> DEFINE new == Increments(l)'
           old == Increments(l)
<1>11. /\ new = {w \in Work : w[2] \in done'[w[1]] /\ Inc(w)}
       /\ old = {w \in Work : w[2] \in done[w[1]] /\ Inc(w)}
  BY <1>3, <1>4
<1> HIDE DEF new, old
<1>12. Inc(x) => new = old \cup {x} /\ x \notin old
  BY <1>9, <1>10, <1>11
<1>13. ~Inc(x) => new = old
  BY <1>9, <1>10, <1>11
<1>14. QED
  BY <1>10, <1>12, <1>13 DEF x, new, old

\* What is pending after a step, and what was read for it.
LEMMA PendingStep ==
  ASSUME Fixed, Values, DoneInOrder, NEW t \in Threads, NEW i \in DOMAIN code[t],
         Access(t, i) \/ Synchronize(t, i), NEW l, Counter(l),
         NEW u \in Threads, NEW j, Pending(u, j, l)'
  PROVE  \/ /\ Pending(u, j, l) /\ ~(u = t /\ j = i)
            /\ got'[u][Source(code[u], j)] = got[u][Source(code[u], j)]
         \/ /\ u = t /\ Source(code[u], j) = i /\ ~WritesWord(t, i, l)
            /\ got'[u][Source(code[u], j)] = mem[l]
<1> DEFINE s == Source(code[u], j)
<1>1. Changes(t, i)
  BY StepChanges
<1>2. Ready(t, i) /\ Perform(t, i) /\ UNCHANGED <<prog, relaxed, code>> /\ i \notin done[t]
  BY StepFacts DEF Ready
<1>3. /\ done'[t] = done[t] \cup {i} /\ \A v \in Threads : v # t => done'[v] = done[v]
  BY <1>2, PerformFacts DEF DoneInOrder
<1>4. /\ j \in DOMAIN code[u] /\ j \notin done'[u] /\ WritesWord(u, j, l)
      /\ code[u][j].do.kinds = {"W"} /\ s \in done'[u]
  BY <1>2 DEF Pending, WritesWord, Source, ReadsWord
<1>5. ~(u = t /\ j = i) /\ j \notin done[u]
  BY <1>3, <1>4
<1>6. Counts(code[u][j].do) /\ code[u][j].do.loc = l
  BY <1>4, CountsIfCounter
<1>7. Program(prog[u]) /\ Shape(prog[u], code[u]) /\ Effects(prog[u], code[u])
  BY ProgramsAreLaid
<1>8. Sourced(prog[u], code[u], j)
  BY <1>4, <1>6, <1>7, SourceFacts
<1>9. s \in DOMAIN code[u] /\ s < j /\ ReadsWord(code[u], s, l)
  BY <1>6, <1>8 DEF Sourced
<1> HIDE DEF s
<1>10. CASE u = t /\ s = i
  <2>1. "R" \in code[t][i].do.kinds /\ code[t][i].do.loc = l
    BY <1>9, <1>10 DEF ReadsWord
  <2>2. got'[u][s] = mem[l]
    BY <1>1, <1>10, <2>1 DEF Changes
  <2>3. ASSUME WritesWord(t, i, l) PROVE FALSE
    <3>1. Counts(code[t][i].do)
      BY <2>3, CountsIfCounter
    <3>2. prog[t][code[t][i].inst].op = "xadd"
      BY <2>1, <3>1, CountersAreAtomic
    <3>3. /\ code[u][j].inst \in DOMAIN prog[u] /\ code[t][i].inst \in DOMAIN prog[t]
      BY <1>4, <1>7, <1>10 DEF Shape
    <3>4. CASE prog[u][code[u][j].inst].op = "lock_add"
      <4>1. code[u][s].inst = code[u][j].inst
        BY <1>8, <3>4 DEF Sourced, s
      <4>2. QED
        BY <1>10, <3>2, <3>4, <4>1
    <3>5. CASE prog[u][code[u][j].inst].op = "stlxr"
      BY <3>2, <3>3, <3>5, OneArchitecture
    <3>6. QED
      BY <1>8, <3>4, <3>5 DEF Sourced
  <2>4. QED
    BY <1>10, <2>2, <2>3 DEF s
<1>11. CASE ~(u = t /\ s = i)
  <2>1. s \in done[u]
    BY <1>3, <1>4, <1>11
  <2>2. got'[u][s] = got[u][s]
    BY <1>1, <1>9, <1>11 DEF Changes
  <2>3. Pending(u, j, l)
    BY <1>4, <1>5, <2>1 DEF Pending, s
  <2>4. QED
    BY <1>5, <2>2, <2>3 DEF s
<1>12. QED
  BY <1>10, <1>11

\* An increment adds 1 to the word as it is.
LEMMA IncrementAdds ==
  ASSUME Fixed, Values, DoneInOrder, Counted, NEW l \in Locations,
         Counter(l), Undisturbed(l), NEW t \in Threads, NEW i \in DOMAIN code[t],
         Access(t, i) \/ Synchronize(t, i), WritesWord(t, i, l)
  PROVE  mem'[l] = mem[l] + 1
<1> DEFINE p == prog[t]
           c == code[t]
           d == done[t]
           r == relaxed
           s == Source(c, i)
<1>1. Counts(c[i].do) /\ c[i].do.how = "inc" /\ c[i].do.loc = l
  BY CountsIfCounter
<1>2. Changes(t, i) /\ Ready(t, i)
  BY StepChanges, StepFacts
<1>3. mem'[l] = Written("inc", Old(t, i))
  BY <1>1, <1>2 DEF Changes
<1>4. Old(t, i) = mem[l]
  <2>1. CASE "R" \in c[i].do.kinds
    BY <1>1, <2>1 DEF Old
  <2>2. CASE "R" \notin c[i].do.kinds
    <3>1. c[i].do.kinds = {"W"} /\ Sourced(p, c, i)
      BY <1>1, <2>2, CountersAreAtomic
    <3>2. Shape(p, c) /\ CanDo(r, c, d, i) /\ i \notin d
      BY <1>2, ProgramsAreLaid, ReadyCanDo DEF CanDo
    <3>3. s \in DOMAIN c /\ s < i /\ "R" \in c[s].do.kinds /\ c[s].do.loc = l
      BY <1>1, <3>1 DEF Sourced, ReadsWord
    <3>4. c[s].do.kinds # {} /\ c[i].do.kinds # {} /\ c[s].do.loc = c[i].do.loc
      BY <1>1, <3>1, <3>3
    <3>5. OrderedIn(r, c, s, i)
      BY <3>2, <3>3, <3>4, RegionOrder
    <3>6. s \in d
      BY <3>2, <3>3, <3>5, CanDoFirst
    <3>7. Pending(t, i, l)
      BY <3>1, <3>2, <3>6 DEF Pending
    <3>8. got[t][s] = mem[l]
      BY <3>7 DEF Counted
    <3>9. QED
      BY <1>1, <2>2, <3>8 DEF Old
  <2>3. QED
    BY <2>1, <2>2
<1>5. QED
  BY <1>3, <1>4, WrittenCounts

LEMMA CountedStep ==
  ASSUME Fixed, Values, DoneInOrder, Regions, Counted,
         NEW t \in Threads, NEW i \in DOMAIN code[t], Access(t, i) \/ Synchronize(t, i)
  PROVE  Counted'
<1>1. Ready(t, i) /\ Perform(t, i) /\ UNCHANGED <<prog, relaxed, code>> /\ Threads' = Threads
  BY StepFacts DEF Threads
<1>2. Changes(t, i)
  BY StepChanges
<1>3. \A l : (Counter(l)' <=> Counter(l)) /\ (Undisturbed(l)' <=> Undisturbed(l))
  <2> SUFFICES ASSUME NEW l
               PROVE  (Counter(l)' <=> Counter(l)) /\ (Undisturbed(l)' <=> Undisturbed(l))
    OBVIOUS
  <2>1. Counter(l)' <=> Counter(l)
    BY <1>1 DEF Counter, WritesWord
  <2>2. (Exclusive(l)' <=> Exclusive(l)) /\ Writers(l)' = Writers(l)
    BY <1>1 DEF Exclusive, Writers, WritesWord
  <2>3. Undisturbed(l)' <=> Undisturbed(l)
    BY <2>2 DEF Undisturbed
  <2>4. QED
    BY <2>1, <2>3
<1>4. ASSUME NEW l \in Locations, Counter(l), Undisturbed(l)
      PROVE  /\ IsFiniteSet(Increments(l)') /\ mem'[l] = Cardinality(Increments(l)')
             /\ \A u \in Threads : \A j : Pending(u, j, l)' =>
                  got'[u][Source(code[u], j)] = mem'[l]
  <2>1. IsFiniteSet(Increments(l)) /\ mem[l] = Cardinality(Increments(l))
    BY <1>4 DEF Counted
  <2>2. CASE ~WritesWord(t, i, l)
    <3>1. Increments(l)' = Increments(l) /\ mem'[l] = mem[l]
      BY <1>1, <1>2, <1>4, <2>2, IncrementsStep DEF Changes
    <3>2. ASSUME NEW u \in Threads, NEW j, Pending(u, j, l)'
          PROVE  got'[u][Source(code[u], j)] = mem'[l]
      <4>1. \/ /\ Pending(u, j, l) /\ ~(u = t /\ j = i)
               /\ got'[u][Source(code[u], j)] = got[u][Source(code[u], j)]
            \/ /\ u = t /\ Source(code[u], j) = i /\ ~WritesWord(t, i, l)
               /\ got'[u][Source(code[u], j)] = mem[l]
        BY <1>4, <3>2, PendingStep
      <4>2. Pending(u, j, l) => got[u][Source(code[u], j)] = mem[l]
        BY <1>4 DEF Counted
      <4>3. QED
        BY <3>1, <4>1, <4>2
    <3>3. QED
      BY <2>1, <3>1, <3>2
  <2>3. CASE WritesWord(t, i, l)
    <3>1. /\ Increments(l)' = Increments(l) \cup {<<t, i>>} /\ <<t, i>> \notin Increments(l)
      BY <1>1, <1>4, <2>3, IncrementsStep
    <3>2. mem'[l] = mem[l] + 1
      BY <1>4, <2>3, IncrementAdds
    <3>3. IsFiniteSet(Increments(l)') /\ Cardinality(Increments(l)') = Cardinality(Increments(l)) + 1
      BY <2>1, <3>1, FS_AddElement
    <3>4. ASSUME NEW u \in Threads, NEW j, Pending(u, j, l)' PROVE FALSE
      <4>1. Pending(u, j, l) /\ ~(u = t /\ j = i)
        BY <1>4, <2>3, <3>4, PendingStep
      <4>2. t = u /\ i = j
        BY <1>1, <1>4, <2>3, <4>1, NoRival
      <4>3. QED
        BY <4>1, <4>2
    <3>5. QED
      BY <2>1, <3>2, <3>3, <3>4
  <2>4. QED
    BY <2>2, <2>3
<1>5. ASSUME NEW l \in Locations, Counter(l)', Undisturbed(l)'
      PROVE  /\ IsFiniteSet(Increments(l)') /\ mem'[l] = Cardinality(Increments(l)')
             /\ \A u \in Threads' : \A j : Pending(u, j, l)' =>
                  got'[u][Source(code[u], j)'] = mem'[l]
  <2>1. \A u, j : Source(code[u], j)' = Source(code[u], j)
    BY <1>1
  <2>2. Counter(l) /\ Undisturbed(l)
    BY <1>3, <1>5
  <2>3. QED
    BY <1>1, <1>4, <2>1, <2>2
<1>6. QED
  BY <1>5 DEF Counted

-----------------------------------------------------------------------------
(***************************************************************************)
(* Every reachable state has all this.                                     *)
(***************************************************************************)
Atomicity ==
  /\ Fixed /\ Values /\ DoneInOrder /\ Regions
  /\ Winners /\ One /\ Counted

LEMMA InitAtomicity ==
  ThreadsInit => Atomicity
<1> SUFFICES ASSUME ThreadsInit PROVE Atomicity
  OBVIOUS
<1>1. Fixed /\ Values /\ DoneInOrder
  BY InitOrder
<1>2. \A t \in Threads : done[t] = {}
  BY DEF ThreadsInit
<1>3. Regions
  <2>1. owner = None
    BY DEF ThreadsInit
  <2>2. \A t \in Threads : \A n : ~Open(code[t], done[t], n)
    BY <1>2 DEF Open
  <2>3. QED
    BY <2>1, <2>2 DEF Regions
<1>4. Winners /\ One
  BY <1>2 DEF Winners, One, Won
<1>5. Counted
  <2>1. \A w \in Work : w[1] \in Threads
    BY DEF Work
  <2>2. \A l : Increments(l) = {}
    BY <1>2, <2>1 DEF Increments
  <2>3. \A l \in Locations : mem[l] = 0
    BY DEF ThreadsInit
  <2>4. \A t \in Threads : \A i, l : ~Pending(t, i, l)
    BY <1>2 DEF Pending
  <2>5. QED
    BY <2>2, <2>3, <2>4, FS_EmptySet DEF Counted
<1>6. QED
  BY <1>1, <1>3, <1>4, <1>5 DEF Atomicity

LEMMA AtomicityStutters ==
  ASSUME Atomicity, UNCHANGED threadVars
  PROVE  Atomicity'
<1>1. UNCHANGED <<prog, relaxed, code, mem, done, got, owner>> /\ Threads' = Threads
  BY DEF threadVars, Threads
<1>2. Fixed' /\ Values' /\ DoneInOrder' /\ Regions'
  BY <1>1 DEF Atomicity, Fixed, Values, DoneInOrder, Regions
<1>3. Winners' /\ One'
  BY <1>1 DEF Atomicity, Winners, One, Won, Attempt, WillWrite, WritesWord
<1>4. Counted'
  <2>1. \A l : /\ Counter(l)' <=> Counter(l)
               /\ Undisturbed(l)' <=> Undisturbed(l)
    <3>1. \A l : Counter(l)' <=> Counter(l)
      BY <1>1 DEF Counter, WritesWord
    <3>2. \A l : (Exclusive(l)' <=> Exclusive(l)) /\ Writers(l)' = Writers(l)
      BY <1>1 DEF Exclusive, Writers, WritesWord
    <3>3. \A l : Undisturbed(l)' <=> Undisturbed(l)
      BY <3>2 DEF Undisturbed
    <3>4. QED
      BY <3>1, <3>3
  <2>2. \A l : Increments(l)' = Increments(l)
    BY <1>1 DEF Increments, Work, WritesWord
  <2>3. \A t, i, l : Pending(t, i, l)' <=> Pending(t, i, l)
    BY <1>1 DEF Pending, WritesWord
  <2>4. QED
    BY <1>1, <2>1, <2>2, <2>3 DEF Atomicity, Counted
<1>5. QED
  BY <1>2, <1>3, <1>4 DEF Atomicity

LEMMA AtomicityStep ==
  Atomicity /\ [ThreadsNext]_threadVars => Atomicity'
<1>1. ASSUME Atomicity, ThreadsNext PROVE Atomicity'
  <2>1. PICK t \in Threads : \E i \in DOMAIN code[t] : Access(t, i) \/ Synchronize(t, i)
    BY <1>1 DEF ThreadsNext, Step
  <2>2. PICK i \in DOMAIN code[t] : Access(t, i) \/ Synchronize(t, i)
    BY <2>1
  <2>3. Fixed /\ Values /\ DoneInOrder /\ Regions /\ Winners /\ One /\ Counted
    BY <1>1 DEF Atomicity
  <2>4. Ready(t, i) /\ Perform(t, i) /\ UNCHANGED <<prog, relaxed, code>>
    BY <2>2, StepFacts
  <2>5. Fixed' /\ DoneInOrder'
    BY <2>3, <2>4, FixedStep, OrderStep
  <2>6. Values'
    BY <2>2, <2>3, ValuesStep
  <2>7. Regions'
    BY <2>2, <2>3, RegionsStep
  <2>8. Winners'
    BY <2>2, <2>3, WinnersStep
  <2>9. One'
    BY <2>2, <2>3, OneStep
  <2>10. Counted'
    BY <2>2, <2>3, CountedStep
  <2>11. QED
    BY <2>5, <2>6, <2>7, <2>8, <2>9, <2>10 DEF Atomicity
<1>2. ASSUME Atomicity, UNCHANGED threadVars PROVE Atomicity'
  BY <1>2, AtomicityStutters
<1>3. QED
  BY <1>1, <1>2

LEMMA AtomicityHolds == ThreadsSpec => []Atomicity
  BY InitAtomicity, AtomicityStep, PTL DEF ThreadsSpec

\* A word that is only counted up, by LOCKed instructions or by exclusive
\* pairs of one thread, counts every increment: what was read is still there
\* when its successor is written, because only the owner of the region can
\* write, and regions exclude each other.
THEOREM NoUpdateIsLost == ThreadsSpec => []NoLostUpdate
<1>1. Atomicity => NoLostUpdate
  BY DEF Atomicity, Counted, NoLostUpdate
<1>2. QED
  BY <1>1, AtomicityHolds, PTL

\* Of all the threads that try to take a lock with XCHG or CMPXCHG, one gets
\* the 0: it writes the word before its region ends.
THEOREM OneTakesTheLock == ThreadsSpec => []OneWinner
<1>1. Atomicity => OneWinner
  BY OneIsOneWinner DEF Atomicity
<1>2. QED
  BY <1>1, AtomicityHolds, PTL

\* The types of the threads' state, and that the owner of the region has
\* still to end it.
THEOREM ThreadsAreTyped == ThreadsSpec => []ThreadsTypeOK
<1>1. ASSUME Atomicity PROVE ThreadsTypeOK
  <2>1. \A t \in Threads : done[t] \subseteq DOMAIN code[t]
    BY <1>1 DEF Atomicity, DoneInOrder, Downward
  <2>2. (\E s \in Systems : prog = s.prog /\ relaxed = s.relaxed) /\ DOMAIN code = Threads
    BY <1>1 DEF Atomicity, Fixed
  <2>3. owner = None \/ \E i \in DOMAIN code[owner] \ done[owner] :
                          code[owner][i].do.kinds = {} /\ code[owner][i].do.region = "end"
    BY <1>1 DEF Atomicity, Regions, IsEnd
  <2>4. mem \in [Locations -> Nat]
    BY <1>1 DEF Atomicity, Values
  <2>5. QED
    BY <2>1, <2>2, <2>3, <2>4 DEF ThreadsTypeOK
<1>2. QED
  BY <1>1, AtomicityHolds, PTL

=============================================================================
