---------------------------- MODULE MoveFunctions ----------------------------
(***************************************************************************)
(* MoveFunctionIntoModule and CloneFunctionInto (remill/BC/Util.cpp): the  *)
(* lifted functions leave the module of the semantics for a new one, the   *)
(* globals they use are declared there, or copied.                         *)
(*                                                                         *)
(* The objects of the source module are named by themselves; <<"dest", n>> *)
(* is the one that gets the name n when it is made in the new module,      *)
(* <<"copy", ...>> another one of local linkage, whose name is altered     *)
(* because n is taken, <<"clone", n>> a clone of function n.               *)
(* A reference [to |-> o, form |-> x] is one operand of an instruction:    *)
(* the object o ("plain"), a pointer cast of it ("cast"), or a constant    *)
(* expression that o cannot be stripped from, such as a ptrtoint of it     *)
(* ("nested").                                                             *)
(***************************************************************************)
EXTENDS FiniteSets

CONSTANTS Traces,        \* the lifted functions, manager.traces
          Helpers,       \* other functions of the source module
          Variables,     \* its global variables
          Others,        \* its other globals: aliases that cannot be stripped
          Local,         \* the objects of it with local linkage
          Uninitialized, \* the variables without an initializer
          Relocated,     \* those whose initializer needs relocation
          Scenarios      \* records: .bodies, a function from Traces to sets
                         \* of references; .clones, the traces that a client
                         \* clones into the new module as well

Source == Traces \cup Helpers \cup Variables \cup Others

ASSUME ObjectsAssumption ==
  /\ Traces \cap (Helpers \cup Variables \cup Others) = {}
  /\ Helpers \cap (Variables \cup Others) = {} /\ Variables \cap Others = {}
  /\ Local \subseteq Helpers \cup Variables
  /\ Uninitialized \subseteq Variables /\ Relocated \subseteq Variables

VARIABLES module,    \* object -> "source", "dest", or "none" if it is not
          refs,      \* function -> the references in its body
          defined,   \* the objects with a body or an initializer
          internal,  \* those with local linkage
          original,  \* refs as it was
          clones,    \* the traces that are cloned as well
          aborted    \* a CHECK or a LOG(FATAL) has stopped the program

vars == <<module, refs, defined, internal, original, clones, aborted>>

Dest(n) == <<"dest", n>>
Copy(n, f, form) == <<"copy", n, f, form>>
Clone(n) == <<"clone", n>>

Dests == {Dest(n) : n \in Source}
Copies == {Copy(n, f, form) : n \in Variables, f \in Traces, form \in {"plain", "cast"}}
Clones == {Clone(n) : n \in Traces}
Objects == Source \cup Dests \cup Copies \cup Clones

\* The references to objects of S.
References(S) == [to : S, form : {"plain", "cast", "nested"}]

ASSUME NewObjectsAssumption == (Dests \cup Copies \cup Clones) \cap Source = {}

ASSUME ScenariosAssumption ==
  \A s \in Scenarios : /\ s.bodies \in [Traces -> SUBSET References(Source)]
                       /\ s.clones \subseteq Traces

\* The object of the source module that o is, declares or copies.
OriginOf(o) ==
  IF o \in Source THEN o ELSE IF o[1] \in {"dest", "copy"} THEN o[2] ELSE o

Init ==
  /\ \E s \in Scenarios : original = s.bodies /\ clones = s.clones
  /\ module = [o \in Objects |-> IF o \in Source THEN "source" ELSE "none"]
  /\ refs = [f \in Traces \cup Clones |-> IF f \in Traces THEN original[f] ELSE {}]
  /\ defined = Source \ Uninitialized
  /\ internal = Local
  /\ aborted = FALSE

\* The operands that a loop changes: the move strips pointer casts, the clone
\* leaves all constants but the globals themselves.
InForm(body, forms) == {r \in body : r.form \in forms}

\* Faulty variant: pointer casts are not stripped.
WithoutCasts(body) == InForm(body, {"plain"})
MoveSees(body) == InForm(body, {"plain", "cast"})
CloneSees(body) == InForm(body, {"plain"})

\* Module::getFunction, getNamedValue: what has the name n in the new module.
Named(n) == {o \in {n, Dest(n)} : module[o] = "dest"}

\* What DeclareFunctionInModule and DeclareVarInModule find:
\* getGlobalVariable passes over a variable with local linkage.
Found(n) == IF n \in Variables THEN Named(n) \ internal ELSE Named(n)

\* What has the name, or is to have it.
ByName(n) == IF module[n] = "dest" THEN n ELSE Dest(n)

\* The name is not free for the operand r of a function with this body, by an
\* earlier function or by an earlier operand (plain ones come first).
NameTaken(r, body) ==
  \/ Named(r.to) # {}
  \/ r.form = "cast" /\ [to |-> r.to, form |-> "plain"] \in body

\* The operand r of f once f has moved: each of a variable with local linkage
\* makes one of its own, unless a declaration that is not local is there.
Target(f, r, body) ==
  IF r.to = f THEN f
  ELSE IF r.to \in Variables \cap Local /\ Found(r.to) = {} /\ NameTaken(r, body)
  THEN Copy(r.to, f, r.form)
  ELSE ByName(r.to)

\* What is made in the new module for the operands of f.
Declares(f, body) ==
  {o \in {Target(f, r, body) : r \in MoveSees(body)} : o # f /\ module[o] # "dest"}

Substituted(f, r, body) ==
  [to |-> IF r \in MoveSees(body) THEN Target(f, r, body) ELSE r.to, form |-> r.form]

WithLocalOrigin(os) == {o \in os : OriginOf(o) \in Local}

\* Faulty variant: a variable with local linkage is only declared.
DeclaredVariables(os) == {}

CopiedVariables(os) == {o \in WithLocalOrigin(os) : OriginOf(o) \in Variables}

\* "Cannot declare internal function", "Cannot declare internal variable",
\* "cannot be trivially copied", "Cannot move global value".
\* Faulty variant: no global with local linkage can be declared.
CannotDeclareLocal(body) ==
  \E r \in MoveSees(body) : r.to \in Local /\ Found(r.to) = {}
CannotDeclare(body) ==
  \E r \in MoveSees(body) :
    \/ r.to \in Others
    \/ /\ r.to \in Local /\ Found(r.to) = {}
       /\ r.to \in Variables => r.to \in Uninitialized \cup Relocated

Abort ==
  aborted' = TRUE /\ UNCHANGED <<module, refs, defined, internal, original, clones>>

\* existing->replaceAllUsesWith(f): in every function, in constants too.
UsesReplaced(existing, f) ==
  [g \in DOMAIN refs |->
     {[to |-> IF r.to \in existing THEN f ELSE r.to, form |-> r.form] : r \in refs[g]}]

\* f takes the place of what stood for it in the new module, then its operands
\* are replaced by what is there.  body is that of f in between.
MoveWith(f, existing) ==
  LET body == UsesReplaced(existing, f)[f]
      news == Declares(f, body) IN
  /\ module' = [o \in Objects |->
       CASE o \in existing -> "none"
         [] o = f \/ o \in news -> "dest"
         [] OTHER -> module[o]]
  /\ refs' = [UsesReplaced(existing, f) EXCEPT ![f] = {Substituted(f, r, body) : r \in body}]
  /\ defined' = (defined \ existing) \cup CopiedVariables(news)
  /\ internal' = (internal \ existing) \cup WithLocalOrigin(news)
  /\ UNCHANGED <<original, clones, aborted>>

\* "Function already exists in destination module".
Movable(f) ==
  /\ ~aborted /\ module[f] = "source"
  /\ Named(f) \cap defined = {} /\ ~CannotDeclare(refs[f])

\* Faulty variant: the declaration stays beside the function.
MoveBeside(f) == Movable(f) /\ MoveWith(f, {})

MoveFunctionIntoModule(f) == Movable(f) /\ MoveWith(f, Named(f))

MoveAborts(f) == ~aborted /\ module[f] = "source" /\ ~Movable(f) /\ Abort

\* CloneFunctionInto(f, a new function g).
Clonable(f) == ~aborted /\ f \in clones /\ module[Clone(f)] = "none"

\* g is in the module of f: the operands stay as they are.
CloneInModule(f) ==
  /\ Clonable(f) /\ module[f] = "dest"
  /\ module' = [module EXCEPT ![Clone(f)] = "dest"]
  /\ refs' = [refs EXCEPT ![Clone(f)] = refs[f]]
  /\ defined' = defined \cup {Clone(f)}
  /\ UNCHANGED <<internal, original, clones, aborted>>

\* "Cannot clone value ... into new module".
CloneAborts(f) ==
  /\ Clonable(f) /\ module[f] = "source"
  /\ \E r \in CloneSees(refs[f]) : r.to \in Others
  /\ Abort

\* g is in the other module: getOrInsertFunction and getOrInsertGlobal find what
\* has the name, whatever its linkage, and it gets external linkage.
CloneIntoOther(f) ==
  LET seen == CloneSees(refs[f])
      targets == {ByName(r.to) : r \in seen} IN
  /\ Clonable(f) /\ module[f] = "source"
  /\ \A r \in seen : r.to \notin Others
  /\ module' = [o \in Objects |->
                  IF o = Clone(f) \/ o \in targets THEN "dest" ELSE module[o]]
  /\ refs' = [refs EXCEPT ![Clone(f)] =
       {[to |-> IF r \in seen THEN ByName(r.to) ELSE r.to, form |-> r.form] :
          r \in refs[f]}]
  /\ defined' = defined \cup {Clone(f)}
  /\ internal' = internal \ targets
  /\ UNCHANGED <<original, clones, aborted>>

CloneFunctionInto(f) == CloneInModule(f) \/ CloneAborts(f) \/ CloneIntoOther(f)

\* main: for (auto &lifted_entry : manager.traces), in any order; a client of
\* the library may clone some in between.
Next == \E f \in Traces :
          MoveFunctionIntoModule(f) \/ MoveAborts(f) \/ CloneFunctionInto(f)

Spec == Init /\ [][Next]_vars /\ WF_vars(Next)

-----------------------------------------------------------------------------
InModule(m) == {o \in Objects : module[o] = m}
NothingNested == \A f \in Traces : \A r \in original[f] : r.form # "nested"

\* What can neither be declared in another module nor copied to it.
Undeclarable ==
  Others \cup (Local \ Variables) \cup (Local \cap (Uninitialized \cup Relocated))
NothingUndeclarable ==
  \A f \in Traces : \A r \in MoveSees(original[f]) : r.to \notin Undeclarable

\* The clones, if any, refer to no global with local linkage.
ClonesUseNoLocal == \A f \in clones : \A r \in CloneSees(original[f]) : r.to \notin Local

TypeOK ==
  /\ module \in [Objects -> {"source", "dest", "none"}]
  /\ defined \cup internal \subseteq {o \in Objects : module[o] # "none"}
  /\ \A f \in DOMAIN refs : \A r \in refs[f] : r.to \in Objects

(***************************************************************************)
(* Whatever is moved, declared, copied or cloned first: of the objects of  *)
(* the new module that others can link to, no two stand for the same       *)
(* object of the old one, so that none has had to be renamed.  Copies of a *)
(* variable with local linkage may be many.                                *)
(***************************************************************************)
OneObjectPerName ==
  \A o, p \in InModule("dest") \ internal : OriginOf(o) = OriginOf(p) => o = p

(***************************************************************************)
(* No operand is left, anywhere, that refers to a declaration that was     *)
(* erased; what has moved refers to the new module only, and operand by    *)
(* operand to what it referred to before, or a declaration or copy of it.  *)
(***************************************************************************)
SelfContained ==
  /\ \A f \in DOMAIN refs : \A r \in refs[f] : module[r.to] # "none"
  /\ NothingNested =>
    \A f \in Traces \cap InModule("dest") :
      /\ \A r \in refs[f] : module[r.to] = "dest"
      /\ {[to |-> OriginOf(r.to), form |-> r.form] : r \in refs[f]} = original[f]

(***************************************************************************)
(* What is only declared in the new module can be linked to a definition   *)
(* in the old one, or in the program (intrinsics, which are declared       *)
(* everywhere): it has no local linkage there.  CloneFunctionInto takes no *)
(* care of that.                                                           *)
(***************************************************************************)
LinksBack ==
  ClonesUseNoLocal =>
    \A d \in InModule("dest") \ defined : OriginOf(d) \notin Local

(***************************************************************************)
(* All traces arrive, and no CHECK stops the tool on the way, where every  *)
(* operand can be declared or copied.                                      *)
(***************************************************************************)
AllMoved == NothingUndeclarable => <>(Traces \subseteq InModule("dest"))

(***************************************************************************)
(* Three statements that do not hold.  "Substitute globals in the          *)
(* operands": in all of them.  "Mark the global as extern, so that it can  *)
(* link back to the old module": also after a clone.  Functions that share *)
(* a variable with local linkage share it after the move.                  *)
(***************************************************************************)
GlobalsSubstituted ==
  \A f \in Traces \cap InModule("dest") : \A r \in refs[f] : module[r.to] = "dest"
ClonesLinkBack ==
  \A d \in InModule("dest") \ defined : OriginOf(d) \notin Local
SharedStaysShared ==
  \A o, p \in InModule("dest") : OriginOf(o) = OriginOf(p) => o = p
=============================================================================
