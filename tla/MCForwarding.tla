---------------------------- MODULE MCForwarding ----------------------------
(* Blocks of four instructions over a State with two slots of two bytes.    *)
EXTENDS RegisterForwarding

TwoSlots == [o \in 0..3 |-> o \div 2]

Load(at, size, kind) ==
  [op |-> "load", at |-> at, size |-> size, kind |-> kind, ptr |-> 0]
Store(at, size, kind) ==
  [op |-> "store", at |-> at, size |-> size, kind |-> kind, val |-> 0]
StoreOf(i, at, size, kind) == [Store(at, size, kind) EXCEPT !.val = i]
Call(direct, args) ==
  [op |-> "call", direct |-> direct, args |-> args, size |-> 0, kind |-> "int"]
Address == [op |-> "addr", size |-> 0, kind |-> "int"]

Types == {<<0, 2, "int">>, <<0, 1, "int">>, <<1, 1, "int">>,
          <<0, 2, "fp">>, <<0, 2, "ptr">>, <<2, 2, "int">>}
Loads == {Load(t[1], t[2], t[3]) : t \in Types}
Stores == {Store(t[1], t[2], t[3]) : t \in Types}
Calls == {Call(FALSE, {}), Call(TRUE, {}), Call(TRUE, {0}), Call(TRUE, {2})}

\* Registers copied to each other: a store takes the value of a load.
Copies == {<<Load(0, 2, "int"), StoreOf(1, 2, 2, "int"), x, y>> :
             x, y \in Loads \cup {StoreOf(1, 0, 2, "int"), Store(2, 1, "int")}}
          \cup {<<Load(0, 1, "int"), x, StoreOf(1, 2, 1, "int"), y>> :
                 x, y \in Loads \cup Stores}

FourInstructions ==
  {<<a, b, c, d>> : a, b \in Loads \cup Stores,
                    c \in Loads \cup Stores \cup Calls, d \in Loads}
  \cup Copies \cup {<<a, Address, b>> : a, b \in Loads \cup Stores}

\* A pointer that is computed inside of the block.
LatePointers ==
  {<<a, Address, [b EXCEPT !.ptr = 2]>> : a, b \in Loads}
WideStores ==
  {<<a, Store(1, 2, "int"), b>> : a, b \in Loads \cup Stores}
TwoFloats ==
  {<<Store(0, 2, "fp"), Load(0, s, "fp")>> : s \in 1..2}
=============================================================================
