------------------------- MODULE RegisterForwarding -------------------------
(***************************************************************************)
(* ForwardingBlockVisitor (remill/BC/DeadStoreEliminator.cpp): loads of    *)
(* State whose value an earlier store or load of the block already has are *)
(* replaced by that value.                                                 *)
(*                                                                         *)
(* A block is a sequence of instructions, records with the fields          *)
(*   op     "load", "store", "call", or "addr" (computes an address)       *)
(*   at     load, store: the offset of the access into State               *)
(*   size, kind  load, store: the type of the value; kind is "int", "fp"   *)
(*          or "ptr"                                                       *)
(*   ptr    load: the "addr" that computed its pointer, 0 if that was done *)
(*          before the block                                               *)
(*   val    store: the load whose value is stored, 0 if the value comes    *)
(*          from elsewhere                                                 *)
(*   args   call: the offsets of the pointers into State it is given       *)
(*   direct call: the callee is known and is not a __mcsema function       *)
(* A load that is replaced becomes [op |-> "use", ...]: the value val,     *)
(* converted as how says.                                                  *)
(***************************************************************************)
EXTENDS Integers, Sequences

CONSTANTS Blocks,      \* the blocks a run considers
          SlotOf       \* state_slots: the slot of each byte of State

ValueKinds == {"int", "fp", "ptr"}
Instructions ==
  [op : {"load"}, at : Nat, size : Nat \ {0}, kind : ValueKinds, ptr : Nat]
  \cup [op : {"store"}, at : Nat, size : Nat \ {0}, kind : ValueKinds, val : Nat]
  \cup [op : {"call"}, direct : BOOLEAN, args : SUBSET DOMAIN SlotOf, size : {0},
        kind : ValueKinds]
  \cup [op : {"addr"}, size : {0}, kind : ValueKinds]

\* Accesses are within State, and what is stored was loaded before.
ASSUME BlocksAssumption ==
  \A b \in Blocks :
    /\ b \in Seq(Instructions)
    /\ \A i \in DOMAIN b :
         /\ b[i].op \in {"load", "store"} =>
              b[i].at .. b[i].at + b[i].size - 1 \subseteq DOMAIN SlotOf
         /\ b[i].op = "store" => b[i].val < i

VARIABLES block,         \* the block as it was
          code,          \* its instructions as they are now
          order,         \* and the order they stand in
          slot_to_load,  \* slot -> the next load of it, 0 if there is none
          cur            \* the next instruction to visit, counted down

forwardVars == <<block, code, order, slot_to_load, cur>>

Bytes == DOMAIN SlotOf
Slots == {SlotOf[o] : o \in Bytes}
BytesOf(i) == {o \in Bytes : block[i].at <= o /\ o < block[i].at + block[i].size}
SlotAt(i) == SlotOf[block[i].at]

\* Which slots a call may change.  Offset 0 may be all of State.
ChangedByCall(c) == IF ~c.direct \/ 0 \in c.args THEN Slots
                    ELSE {SlotOf[o] : o \in c.args}

-----------------------------------------------------------------------------
(* Conversions. *)

\* ConvertToSameSizedType returns nullptr between floats and pointers.
Convertible(from, to) == ~({from.kind, to.kind} = {"fp", "ptr"})

\* How a value can stand in for a load of a type that is not wider.
Conversion(from, to) ==
  CASE from.size = to.size /\ from.kind = to.kind -> "same"
    [] from.size = to.size /\ from.kind # to.kind ->
         IF Convertible(from, to) THEN "cast" ELSE "none"
    [] to.size < from.size ->
         IF from.kind = to.kind /\ from.kind = "int" THEN "trunc"
         ELSE IF from.kind = to.kind /\ from.kind = "fp" THEN "fptrunc" ELSE "none"
    [] OTHER -> "none"

\* The value a store writes.
StoredValue(i) == IF code[i].val = 0 THEN i ELSE code[i].val

Replaced(load, how, val) ==
  [code EXCEPT ![load] = [op |-> "use", how |-> how, val |-> val,
                          size |-> @.size, kind |-> @.kind]]

-----------------------------------------------------------------------------
(* VisitBlock, from the last instruction to the first. *)

ForwardInit ==
  /\ block \in Blocks
  /\ code = block
  /\ order = [i \in DOMAIN block |-> i]
  /\ slot_to_load = [s \in Slots |-> 0]
  /\ cur = Len(block)

Visiting(op) == cur # 0 /\ block[cur].op = op /\ cur' = cur - 1 /\ UNCHANGED block

\* The load that the current access may serve: the next one of its slot, if
\* that is of the same part of it; 0 if there is none.
NextLoad ==
  LET next == slot_to_load[SlotAt(cur)] IN
  IF next = 0 THEN 0 ELSE IF block[next].at = block[cur].at THEN next ELSE 0

SkipInstruction ==
  /\ Visiting("addr")
  /\ UNCHANGED <<code, order, slot_to_load>>

\* What a call leaves of slot_to_load.
ForgetAt(c) ==
  [s \in Slots |-> IF s \in ChangedByCall(c) THEN 0 ELSE slot_to_load[s]]

VisitCall ==
  /\ Visiting("call")
  /\ slot_to_load' = ForgetAt(block[cur])
  /\ UNCHANGED <<code, order>>

\* How the value of the store that is visited can serve the next load.
StoreServes == IF NextLoad = 0 THEN "none" ELSE Conversion(block[cur], block[NextLoad])

ForwardStore(kept) ==
  /\ Visiting("store")
  /\ code' = IF StoreServes = "none" THEN code
             ELSE Replaced(NextLoad, StoreServes, StoredValue(cur))
  /\ slot_to_load' = [slot_to_load EXCEPT ![SlotAt(cur)] = kept]
  /\ UNCHANGED order

\* Faulty variant: the entry is only erased when the load is replaced.
VisitStoreKeeping ==
  ForwardStore(IF StoreServes = "none" THEN slot_to_load[SlotAt(cur)] ELSE 0)

\* Store-to-load forwarding.
VisitStore == ForwardStore(0)

\* Faulty variant: a load of another part of the slot does not count.
VisitOnlyLoad ==
  /\ Visiting("load")
  /\ NextLoad = 0
  /\ slot_to_load' = [slot_to_load EXCEPT ![SlotAt(cur)] = IF @ = 0 THEN cur ELSE @]
  /\ UNCHANGED <<code, order>>

\* There is no later load to replace, or one of another part of the slot.
VisitFirstLoad ==
  /\ Visiting("load")
  /\ NextLoad = 0
  /\ slot_to_load' = [slot_to_load EXCEPT ![SlotAt(cur)] = cur]
  /\ UNCHANGED <<code, order>>

\* Load-to-load forwarding: the later load takes the value of this one.
ForwardLoad ==
  /\ Visiting("load")
  /\ NextLoad # 0 /\ block[NextLoad].size <= block[cur].size
  /\ LET how == Conversion(block[cur], block[NextLoad])
     IN /\ code' = IF how = "none" THEN code ELSE Replaced(NextLoad, how, cur)
        /\ slot_to_load' = [slot_to_load EXCEPT ![SlotAt(cur)] =
                              IF how = "none" THEN 0 ELSE cur]
  /\ UNCHANGED order

Position(i) == CHOOSE k \in DOMAIN order : order[k] = i

\* moveBefore: i, which stands behind j, moves in front of it.
MovedBefore(i, j) ==
  [k \in DOMAIN order |->
     IF k = Position(j) THEN i
     ELSE IF Position(j) < k /\ k <= Position(i) THEN order[k - 1] ELSE order[k]]

Reorder(ref) ==
  /\ Visiting("load")
  /\ NextLoad # 0 /\ block[NextLoad].size > block[cur].size
  /\ order' = MovedBefore(NextLoad, cur)
  /\ LET how == Conversion(block[NextLoad], block[cur])
     IN /\ code' = IF how = "none" THEN code ELSE Replaced(cur, how, NextLoad)
        /\ slot_to_load' = [slot_to_load EXCEPT ![SlotAt(cur)] =
                              IF how = "none" THEN 0 ELSE ref]

\* The later load is wider: it moves before this one, which is then
\* truncated from it.
ReorderLoads == Reorder(NextLoad)

ForwardNext == \/ SkipInstruction \/ VisitCall \/ VisitStore
        \/ VisitFirstLoad \/ ForwardLoad \/ ReorderLoads

ForwardSpec == ForwardInit /\ [][ForwardNext]_forwardVars

-----------------------------------------------------------------------------
(***************************************************************************)
(* Reference: what a block does.  A value is a sequence of bytes, lowest   *)
(* first; bytes are told apart by where they come from.                    *)
(***************************************************************************)
Poison == <<"poison">>
ByteOf(v, b) == IF b \in DOMAIN v THEN v[b] ELSE Poison

Converted(how, v, size) ==
  [b \in 1..size |-> IF how = "fptrunc" THEN <<"rounded", v, b>> ELSE ByteOf(v, b)]

\* One instruction c with the number i; s.mem is State, s.env the results.
ChangedBytes(c) == {o \in Bytes : SlotOf[o] \in ChangedByCall(c)}

Value(s, i, c) ==
  CASE c.op = "addr" -> <<"address">>
    [] c.op = "load" ->
         [b \in 1..c.size |-> IF c.ptr # 0 /\ s.env[c.ptr] = <<>> THEN Poison
                              ELSE s.mem[c.at + b - 1]]
    [] c.op = "store" -> IF c.val # 0 THEN s.env[c.val]
                         ELSE [b \in 1..c.size |-> <<"value", i, b>>]
    [] c.op = "call" -> [o \in ChangedBytes(c) |-> s.mem[o]]
    [] c.op = "use" -> Converted(c.how, s.env[c.val], c.size)

Memory(s, i, c) ==
  CASE c.op = "store" -> [o \in Bytes |-> IF c.at <= o /\ o < c.at + c.size
                                          THEN ByteOf(Value(s, i, c), o - c.at + 1)
                                          ELSE s.mem[o]]
    [] c.op = "call" -> [o \in Bytes |-> IF o \in ChangedBytes(c)
                                         THEN <<"call", i, o>> ELSE s.mem[o]]
    [] OTHER -> s.mem

Execute(s, i, c) ==
  [mem |-> Memory(s, i, c), env |-> [j \in DOMAIN s.env |-> IF j = i THEN Value(s, i, c) ELSE s.env[j]]]

Before(instructions) ==
  [mem |-> [b \in Bytes |-> <<"before", b>>],
   env |-> [i \in DOMAIN instructions |-> <<>>]]

Run(instructions, o) ==
  LET after[k \in 0..Len(o)] ==
        IF k = 0 THEN Before(instructions)
        ELSE Execute(after[k - 1], o[k], instructions[o[k]])
  IN after[Len(o)]

\* No access reaches into the next slot.
InSlots == \A i \in DOMAIN block : block[i].op \in {"load", "store"} =>
             \A o \in BytesOf(i) : SlotOf[o] = SlotAt(i)
\* Values of floating point are all of one size.
OneFloat == \A i, j \in DOMAIN block :
  (block[i].op \in {"load", "store"} /\ block[j].op \in {"load", "store"}
     /\ block[i].kind = "fp" /\ block[j].kind = "fp") => block[i].size = block[j].size
\* Pointers are computed before the block.
EarlyPointers == \A i \in DOMAIN block : block[i].op = "load" => block[i].ptr = 0

ForwardTypeOK ==
  /\ cur \in 0..Len(block)
  /\ Len(order) = Len(block) /\ {order[k] : k \in DOMAIN order} = DOMAIN block
  /\ \A s \in Slots : slot_to_load[s] # 0 =>
       cur < slot_to_load[s] /\ code[slot_to_load[s]].op = "load"
         /\ SlotAt(slot_to_load[s]) = s

(***************************************************************************)
(* Forwarding changes nothing that the block does: every value that it     *)
(* computes or hands to a callee, and State behind it, are as before, at   *)
(* every step of the scan.                                                 *)
(***************************************************************************)
SameMeaning ==
  (InSlots /\ OneFloat /\ EarlyPointers) =>
    Run(code, order) = Run(block, [i \in DOMAIN block |-> i])

(***************************************************************************)
(* A load that waits in slot_to_load would read the same if it stood where *)
(* the scan is: nothing in between writes to its bytes.                    *)
(***************************************************************************)
PendingLoadsAreCurrent ==
  InSlots =>
    \A s \in Slots : slot_to_load[s] # 0 =>
      \A i \in cur + 1..slot_to_load[s] - 1 :
        /\ block[i].op = "store" => BytesOf(i) \cap BytesOf(slot_to_load[s]) = {}
        /\ block[i].op = "call" => s \notin ChangedByCall(block[i])

(***************************************************************************)
(* Of two accesses of the same place with nothing of that slot in between  *)
(* only one is left: the second load goes, or the first if it is narrower, *)
(* unless a narrow store would have to serve a wider load.                 *)
(***************************************************************************)
Touches(i, s) == IF block[i].op = "call" THEN s \in ChangedByCall(block[i])
                 ELSE block[i].op # "addr" /\ SlotAt(i) = s
Adjacent(i, j) ==
  /\ i < j /\ block[i].op \in {"load", "store"} /\ block[j].op = "load"
  /\ block[i].at = block[j].at
  /\ \A k \in i + 1..j - 1 : ~Touches(k, SlotAt(j))
RedundantLoadsGo ==
  (cur = 0 /\ \A i \in DOMAIN block : block[i].op = "call" \/ block[i].kind = "int") =>
    \A i, j \in DOMAIN block : Adjacent(i, j) =>
      IF block[i].op = "store"
      THEN block[j].size <= block[i].size => code[j].op # "load"
      ELSE ~(code[i].op = "load" /\ code[j].op = "load")

(***************************************************************************)
(* "erase the entry because we don't want to accidentally forward around a *)
(* store": also where an access is wider than its slot, as SSE stores to a *)
(* part of a vector register and byte-wise copies of State are.            *)
(***************************************************************************)
NoForwardingAroundStores ==
  (OneFloat /\ EarlyPointers) =>
    Run(code, order) = Run(block, [i \in DOMAIN block |-> i])

(***************************************************************************)
(* A load that is replaced had the value that replaces it: also between    *)
(* floats of different size.                                               *)
(***************************************************************************)
ForwardsWhatWasStored ==
  (InSlots /\ EarlyPointers) =>
    Run(code, order).env = Run(block, [i \in DOMAIN block |-> i]).env

(***************************************************************************)
(* The module stays valid: no instruction stands before one it uses, which *)
(* VerifyModule would refuse.                                              *)
(***************************************************************************)
DefinedBeforeUse ==
  \A p, q \in DOMAIN order :
    (code[order[p]].op = "load" /\ code[order[p]].ptr = order[q]) => q < p
=============================================================================
