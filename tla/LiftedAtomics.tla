---------------------------- MODULE LiftedAtomics ----------------------------
(***************************************************************************)
(* Threads that run lifted code.  An instruction becomes the intrinsics of *)
(* its semantics function, between __remill_atomic_begin and               *)
(* __remill_atomic_end if the decoder marked it.  What is left of the      *)
(* order and of the atomicity of the machine is what these intrinsics say: *)
(* the runtime may perform accesses of a thread in another order, if the   *)
(* architecture lets plain accesses be reordered (relaxed) and no barrier  *)
(* is between, and the accesses of other threads between any two.          *)
(*                                                                         *)
(* Programs are straight: each thread runs a few instructions once.        *)
(***************************************************************************)
EXTENDS Naturals, Sequences, FiniteSets, SequencesExt

CONSTANTS Systems,    \* what may run: [prog, relaxed], where prog is thread ->
                      \* instructions, [op |-> kind, loc |-> location], and
                      \* relaxed has <<a, b>>, each "R" or "W", if b may
                      \* overtake a
          Locations,  \* addresses of words, all initially 0; 0 is not one
          None

ASSUME NoneAssumption == None \notin Locations \cup {"begin", "end"}

X86Ops == {"store", "load", "lock_add", "xchg", "cmpxchg", "xadd",
           "mfence", "sfence", "lfence"}
AArch64Ops == {"store", "load", "ldxr", "ldaxr", "stlxr", "ldar", "stlr", "dmb",
               "new_trace"}
RunsOn(s, ops) == \A t \in DOMAIN s.prog : s.prog[t] \in Seq([op : ops, loc : Locations])

\* X86 lets only loads overtake stores.
ASSUME SystemsAssumption ==
  \A s \in Systems :
    /\ IsFiniteSet(DOMAIN s.prog) /\ None \notin DOMAIN s.prog
    /\ \/ RunsOn(s, X86Ops) /\ s.relaxed \subseteq {<<"W", "R">>}
       \/ RunsOn(s, AArch64Ops)

VARIABLES prog,    \* the program of each thread, fixed
          relaxed, \* the architecture's order, fixed
          code,    \* and what it is lifted to, fixed
          mem,     \* the memory that the threads share
          done,    \* of each thread, the intrinsics that were performed
          got,     \* what each of them has read
          owner    \* the thread in an atomic region, or None

threadVars == <<prog, relaxed, code, mem, done, got, owner>>
Threads == DOMAIN prog

-----------------------------------------------------------------------------
(* The lifter                                                              *)

Read(l) == [kinds |-> {"R"}, loc |-> l, how |-> "none"]
Write(l, how) == [kinds |-> {"W"}, loc |-> l, how |-> how]
Update(l, how) == [kinds |-> {"R", "W"}, loc |-> l, how |-> how]
Barrier(from, to) == [kinds |-> {}, from |-> from, to |-> to, region |-> None]

\* "The address/size are hints [...]. These have implicit StoreLoad
\* semantics."  Nothing leaves a region.
AtomicBegin == [Barrier({"W"}, {"R", "W"}) EXCEPT !.region = "begin"]
AtomicEnd == [Barrier({"R", "W"}, {"R"}) EXCEPT !.region = "end"]

\* Faulty variant: the store barrier for MFENCE.
WeakFence(op) ==
  IF op = "lfence" THEN Barrier({"R"}, {"R"}) ELSE Barrier({"W"}, {"W"})

\* DoMFENCE, DoSFENCE, DoLFENCE, DataMemoryBarrier
Fence(op) ==
  CASE op = "mfence" -> Barrier({"W"}, {"R"})
    [] op = "lfence" -> Barrier({"R"}, {"R"})
    [] op \in {"sfence", "dmb"} -> Barrier({"W"}, {"W"})

\* Faulty variant: XCHG has no LOCK prefix.
HasLockPrefix(op) == op \in {"lock_add", "cmpxchg", "xadd"}

\* is_atomic_read_modify_write
Atomic(op) ==
  op \in {"lock_add", "xchg", "cmpxchg", "xadd", "ldxr", "ldaxr", "stlxr"}

\* The semantics functions.  monitor is the address in MONITOR.
Semantics(i, monitor) ==
  CASE i.op = "store" -> <<Write(i.loc, "one")>>
    [] i.op = "load" -> <<Read(i.loc)>>
    [] i.op = "lock_add" -> <<Read(i.loc), Write(i.loc, "inc")>>
    [] i.op = "xchg" -> <<Read(i.loc), Write(i.loc, "one")>>
    [] i.op = "cmpxchg" -> <<Update(i.loc, "one_if_zero")>>
    [] i.op = "xadd" -> <<Update(i.loc, "inc")>>
    [] i.op \in {"mfence", "sfence", "lfence", "dmb"} -> <<Fence(i.op)>>
    [] i.op = "ldxr" -> <<Read(i.loc)>>
    [] i.op \in {"ldar", "ldaxr"} -> <<Barrier({"R"}, {"W"}), Read(i.loc)>>
    [] i.op = "stlr" -> <<Write(i.loc, "one"), Barrier({"W"}, {"W"})>>
    [] i.op = "stlxr" -> (IF monitor = i.loc THEN <<Write(i.loc, "inc")>> ELSE <<>>)
                         \o <<Barrier({"W"}, {"W"})>>
    [] i.op = "new_trace" -> <<>>

\* Faulty variants: no region; a region that is not closed.
LiftBare(i, monitor) == Semantics(i, monitor)
LiftOpen(i, monitor) ==
  IF Atomic(i.op) THEN <<AtomicBegin>> \o Semantics(i, monitor) ELSE Semantics(i, monitor)

LiftIntoBlock(i, monitor) ==
  IF Atomic(i.op) THEN <<AtomicBegin>> \o Semantics(i, monitor) \o <<AtomicEnd>>
  ELSE Semantics(i, monitor)

\* MONITOR after n instructions: a local variable of the function of a trace.
Monitor(p) ==
  LET m[n \in 0 .. Len(p)] ==
        IF n = 0 THEN None
        ELSE IF p[n].op \in {"ldxr", "ldaxr"} THEN p[n].loc
        ELSE IF p[n].op \in {"stlxr", "new_trace"} THEN None
        ELSE m[n - 1]
  IN m

\* Each intrinsic with the instruction it comes from.
Code(p) ==
  FlattenSeq([n \in DOMAIN p |->
    LET s == LiftIntoBlock(p[n], Monitor(p)[n - 1])
    IN [k \in DOMAIN s |-> [inst |-> n, do |-> s[k]]]])

-----------------------------------------------------------------------------
(* The runtime                                                             *)

\* The intrinsic whose result a store of "inc" counts up: the last one that
\* reads the word.
ReadsWord(c, k, l) == "R" \in c[k].do.kinds /\ c[k].do.loc = l
Source(c, i) ==
  LET l == c[i].do.loc IN
  CHOOSE j \in 1 .. i - 1 :
    ReadsWord(c, j, l) /\ \A k \in j + 1 .. i - 1 : ~ReadsWord(c, k, l)

\* j, which comes first, is performed first.
Ordered(c, j, i) ==
  LET a == c[j].do
      b == c[i].do IN
  IF a.kinds = {} /\ b.kinds = {} THEN a.region # None /\ b.region # None
  ELSE IF b.kinds = {} THEN a.kinds \cap b.from # {}
  ELSE IF a.kinds = {} THEN b.kinds \cap a.to # {}
  ELSE \/ a.loc = b.loc
       \/ \E x \in a.kinds, y \in b.kinds : <<x, y>> \notin relaxed

Written(how, old) ==
  CASE how = "one" -> 1
    [] how = "inc" -> old + 1
    [] how = "one_if_zero" -> IF old = 0 THEN 1 ELSE old

ThreadsInit ==
  /\ \E s \in Systems : prog = s.prog /\ relaxed = s.relaxed
  /\ code = [t \in Threads |-> Code(prog[t])]
  /\ mem = [l \in Locations |-> 0]
  /\ done = [t \in Threads |-> {}]
  /\ got = [t \in Threads |-> [i \in DOMAIN code[t] |-> 0]]
  /\ owner = None

Ready(t, i) ==
  LET c == code[t] IN
  /\ i \in DOMAIN c \ done[t]
  /\ \A j \in (1 .. i - 1) \ done[t] : ~Ordered(c, j, i)

Perform(t, i) == done' = [done EXCEPT ![t] = @ \cup {i}]

Access(t, i) ==
  LET c == code[t]
      a == c[i].do IN
  /\ Ready(t, i) /\ a.kinds # {}
  /\ LET old == IF "R" \in a.kinds \/ a.how # "inc" THEN mem[a.loc]
                ELSE got[t][Source(c, i)] IN
     /\ got' = IF "R" \in a.kinds THEN [got EXCEPT ![t][i] = mem[a.loc]] ELSE got
     /\ mem' = IF "W" \in a.kinds THEN [mem EXCEPT ![a.loc] = Written(a.how, old)] ELSE mem
  /\ Perform(t, i)
  /\ UNCHANGED <<prog, relaxed, code, owner>>

\* Regions exclude each other, not the accesses outside of them.
Synchronize(t, i) ==
  LET a == code[t][i].do IN
  /\ Ready(t, i) /\ a.kinds = {}
  /\ a.region = "begin" => owner = None
  /\ owner' = IF a.region = "begin" THEN t ELSE IF a.region = "end" THEN None ELSE owner
  /\ Perform(t, i)
  /\ UNCHANGED <<prog, relaxed, code, mem, got>>

Step(t) == \E i \in DOMAIN code[t] : Access(t, i) \/ Synchronize(t, i)
ThreadsNext == \E t \in Threads : Step(t)

\* Every thread is scheduled; programs end, so a region is taken finitely often.
Fairness == WF_threadVars(ThreadsNext)
ThreadsSpec == ThreadsInit /\ [][ThreadsNext]_threadVars /\ Fairness

-----------------------------------------------------------------------------
\* Accesses of thread t that were performed, or not, for instructions in ns.
Accesses(t, ns) ==
  {i \in DOMAIN code[t] : /\ code[t][i].inst \in ns
                                /\ code[t][i].do.kinds # {}}
Before(n) == 1 .. n - 1
After(t, n) == n + 1 .. Len(prog[t])
AllDone(t) == done[t] = DOMAIN code[t]

(***************************************************************************)
(* A thread that holds the region will end it.                             *)
(***************************************************************************)
ThreadsTypeOK ==
  /\ \E s \in Systems : prog = s.prog /\ relaxed = s.relaxed
  /\ DOMAIN code = Threads
  /\ mem \in [Locations -> Nat]
  /\ \A t \in Threads : done[t] \subseteq DOMAIN code[t]
  /\ owner = None \/ \E i \in DOMAIN code[owner] \ done[owner] :
                        LET a == code[owner][i].do
                        IN a.kinds = {} /\ a.region = "end"

(***************************************************************************)
(* A word that is only ever counted up, by LOCK ADD, XADD or a pair of     *)
(* exclusive accesses that says it has succeeded, counts them all.  A word *)
(* with exclusive accesses is written by one thread only: MONITOR does not *)
(* see what the others write.                                              *)
(***************************************************************************)
Work == UNION {{t} \X DOMAIN code[t] : t \in Threads}
WritesWord(t, i, l) == "W" \in code[t][i].do.kinds /\ code[t][i].do.loc = l
Increments(l) ==
  {w \in Work : /\ w[2] \in done[w[1]] /\ WritesWord(w[1], w[2], l)
                /\ code[w[1]][w[2]].do.how = "inc"}
Counter(l) ==
  \A t \in Threads : \A i \in DOMAIN code[t] :
    WritesWord(t, i, l) => code[t][i].do.how = "inc"
Writers(l) == {t \in Threads : \E i \in DOMAIN code[t] : WritesWord(t, i, l)}
Exclusive(l) ==
  \E t \in Threads : \E n \in DOMAIN prog[t] :
    prog[t][n] = [op |-> "stlxr", loc |-> l]
Undisturbed(l) == Exclusive(l) => Cardinality(Writers(l)) <= 1
NoLostUpdate ==
  \A l \in Locations : Counter(l) /\ Undisturbed(l) => mem[l] = Cardinality(Increments(l))

(***************************************************************************)
(* A lock that is taken with XCHG or CMPXCHG is taken by one thread: only  *)
(* one of them gets the 0.                                                 *)
(***************************************************************************)
Attempts(l) ==
  {w \in Work :
     LET c == code[w[1]] IN
     ReadsWord(c, w[2], l) /\ prog[w[1]][c[w[2]].inst].op \in {"xchg", "cmpxchg"}}
OneWinner ==
  \A l \in Locations :
    \A a, b \in {x \in Attempts(l) : x[2] \in done[x[1]] /\ got[x[1]][x[2]] = 0} : a = b

(***************************************************************************)
(* No access behind a full fence, or a LOCKed instruction, is performed    *)
(* before one in front of it.  Of the barriers of AArch64 only this much   *)
(* is left: DMB, and the store releases with what follows them, keep       *)
(* stores in order, a load acquire keeps later stores behind the loads     *)
(* before it.                                                              *)
(***************************************************************************)
FullFences == {"mfence", "lock_add", "xchg", "cmpxchg", "xadd"}
Weak == [sfence |-> <<"W", "W">>, dmb |-> <<"W", "W">>, stlr |-> <<"W", "W">>,
         ldar |-> <<"R", "W">>, lfence |-> <<"R", "R">>]
Doing(t, ns, kind) == {i \in Accesses(t, ns) : kind \in code[t][i].do.kinds}
InOrder(t, first, second) == first \subseteq done[t] \/ second \cap done[t] = {}
FencesOrder ==
  \A t \in Threads : \A n \in DOMAIN prog[t] :
    LET op == prog[t][n].op IN
    /\ op \in FullFences => InOrder(t, Accesses(t, Before(n)), Accesses(t, After(t, n)))
    /\ op \in DOMAIN Weak =>
         InOrder(t, Doing(t, Before(n), Weak[op][1]), Doing(t, After(t, n), Weak[op][2]))

(***************************************************************************)
(* A store release is performed after all that the thread did before, a    *)
(* load acquire before all that it does later; DMB is a "Full-system data  *)
(* memory barrier".  (Not so in the code, nor is StoreSucceeds if the pair  *)
(* is in two traces.)                                                      *)
(***************************************************************************)
BarrierIsFull ==
  \A t \in Threads : \A n \in {m \in DOMAIN prog[t] : prog[t][m].op = "dmb"} :
    InOrder(t, Accesses(t, Before(n)), Accesses(t, After(t, n)))
ReleaseIsLast ==
  \A t \in Threads : \A n \in {m \in DOMAIN prog[t] : prog[t][m].op \in {"stlr", "stlxr"}} :
    Accesses(t, Before(n)) \subseteq done[t] \/ Accesses(t, {n}) \cap done[t] = {}
AcquireIsFirst ==
  \A t \in Threads : \A n \in {m \in DOMAIN prog[t] : prog[t][m].op \in {"ldar", "ldaxr"}} :
    Accesses(t, {n}) \subseteq done[t] \/ Accesses(t, After(t, n)) \cap done[t] = {}

(***************************************************************************)
(* A store exclusive writes, if the last exclusive access before it was a  *)
(* load of the same word, in the same trace.                               *)
(***************************************************************************)
ExclusivePairs(t) ==
  {n \in 2 .. Len(prog[t]) :
     /\ prog[t][n].op = "stlxr"
     /\ \E m \in Before(n) :
          /\ prog[t][m] \in [op : {"ldxr", "ldaxr"}, loc : {prog[t][n].loc}]
          /\ \A k \in m + 1 .. n - 1 : prog[t][k].op \notin {"ldxr", "ldaxr", "stlxr", "new_trace"}}
StoreSucceeds ==
  \A t \in Threads : AllDone(t) =>
    \A n \in ExclusivePairs(t) : Accesses(t, {n}) # {}

(***************************************************************************)
(* Every thread ends: no region is held forever.                           *)
(***************************************************************************)
Finishes == <>(\A t \in Threads : AllDone(t))
=============================================================================
