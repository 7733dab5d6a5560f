------------------------- MODULE MoveFunctions_proofs -------------------------
(***************************************************************************)
(* Proofs about MoveFunctions: what can be linked to stays unique in the   *)
(* new module, no operand is left behind, what is declared there can be    *)
(* linked, and the program stops only where it meets an operand that can   *)
(* neither be declared nor copied.                                         *)
(***************************************************************************)
EXTENDS MoveFunctions, TLAPS

Functions == Traces \cup Clones

\* What can be referred to: nothing refers to a clone.
Referable == Source \cup Dests \cup Copies

\* The operands by what they were before.
Origins(body) == {[to |-> OriginOf(r.to), form |-> r.form] : r \in body}

Types ==
  /\ module \in [Objects -> {"source", "dest", "none"}]
  /\ refs \in [Functions -> SUBSET References(Referable)]
  /\ original \in [Traces -> SUBSET References(Source)]
  /\ clones \subseteq Traces
  /\ defined \cup internal \subseteq {o \in Objects : module[o] # "none"}

\* Only traces leave the old module, and the declaration that is made in the
\* new module for a trace does not outlive its arrival.
Places ==
  /\ \A o \in Source : /\ module[o] # "none"
                       /\ o \notin Traces => module[o] = "source"
  /\ \A o \in Objects \ Source : module[o] # "source"
  /\ \A n \in Traces : module[n] = "dest" => module[Dest(n)] = "none"

\* No clone finds a copy whose name was altered.
Linkages == \A c \in Copies : module[c] = "dest" => c \in internal

\* Bodies change only as they arrive and later, and never what they refer to.
Bodies ==
  \A f \in Traces : /\ module[f] = "source" => refs[f] = original[f]
                    /\ Origins(refs[f]) = original[f]

\* Nothing that is referred to is erased; what has arrived has no operands
\* from the old module that the move sees.
Closed ==
  /\ \A g \in Functions : \A r \in refs[g] : module[r.to] # "none"
  /\ \A f \in Traces : module[f] = "dest" =>
       \A r \in refs[f] : r.form # "nested" => module[r.to] = "dest"

Inv == Types /\ Places /\ Linkages /\ Bodies /\ Closed

-----------------------------------------------------------------------------
(***************************************************************************)
(* The kinds of objects.  From here on only these facts about the tuples   *)
(* are used.                                                               *)
(***************************************************************************)
LEMMA SourceAndDest ==
  ASSUME NEW n \in Source
  PROVE  /\ n \in Referable /\ n \in Objects /\ OriginOf(n) = n
         /\ Dest(n) \in Referable /\ Dest(n) \in Objects /\ Dest(n) \notin Source
         /\ Dest(n) \notin Copies /\ Dest(n) \notin Clones /\ OriginOf(Dest(n)) = n
<1>1. Dest(n) \in Dests /\ Dest(n) \notin Source
  BY NewObjectsAssumption DEF Dests
<1>2. Dest(n) \notin Copies /\ Dest(n) \notin Clones
  BY DEF Dest, Copies, Copy, Clones, Clone
<1>3. OriginOf(n) = n /\ OriginOf(Dest(n)) = n
  BY <1>1 DEF OriginOf, Dest
<1> QED BY <1>1, <1>2, <1>3 DEF Referable, Objects

LEMMA CopyFacts ==
  ASSUME NEW n \in Variables, NEW f \in Traces, NEW x \in {"plain", "cast"}
  PROVE  /\ Copy(n, f, x) \in Copies /\ Copy(n, f, x) \notin Source
         /\ OriginOf(Copy(n, f, x)) = n
<1>1. Copy(n, f, x) \in Copies BY DEF Copies
<1>2. Copy(n, f, x) \notin Source BY <1>1, NewObjectsAssumption
<1>3. OriginOf(Copy(n, f, x)) = n BY <1>2 DEF OriginOf, Copy
<1> QED BY <1>1, <1>2, <1>3

LEMMA CloneFacts ==
  ASSUME NEW n \in Traces
  PROVE  /\ Clone(n) \in Functions /\ Clone(n) \in Objects /\ Clone(n) \notin Referable
         /\ Clone(n) \notin Source /\ Clone(n) \notin Copies
         /\ OriginOf(Clone(n)) = Clone(n)
         /\ \A m \in Source : Clone(n) # Dest(m)
<1>1. Clone(n) \in Clones /\ Clone(n) \notin Source
  BY NewObjectsAssumption DEF Clones
<1>2. Clone(n) \notin Dests /\ Clone(n) \notin Copies
  BY DEF Dest, Dests, Copies, Copy, Clone
<1>3. OriginOf(Clone(n)) = Clone(n)
  BY <1>1 DEF OriginOf, Clone
<1> QED BY <1>1, <1>2, <1>3 DEF Referable, Functions, Objects, Dests

LEMMA ObjectKinds ==
  /\ Referable \subseteq Objects
  /\ Copies \subseteq Objects \ Source
  /\ Traces \subseteq Source /\ Traces \subseteq Functions
  /\ \A o \in Referable \ Copies :
       OriginOf(o) \in Source /\ o \in {OriginOf(o), Dest(OriginOf(o))}
  /\ \A o \in Objects \ Referable : o \in Clones
<1>1. \A o \in Referable \ Copies :
        OriginOf(o) \in Source /\ o \in {OriginOf(o), Dest(OriginOf(o))}
  BY SourceAndDest DEF Referable, Dests
<1>2. Copies \cap Source = {} BY NewObjectsAssumption
<1> QED BY <1>1, <1>2 DEF Referable, Objects, Source, Functions

\* What a name stands for.
LEMMA NameFacts ==
  ASSUME Types, Places, NEW n \in Source
  PROVE  /\ ByName(n) \in Referable /\ OriginOf(ByName(n)) = n
         /\ ByName(n) \notin Copies
         /\ module[ByName(n)] # "source"
         /\ Named(n) \subseteq {ByName(n)}
         /\ Named(n) = {} => module[ByName(n)] = "none" /\ ByName(n) = Dest(n)
         /\ Named(n) # {} => module[ByName(n)] = "dest"
         /\ ByName(n) \in {n, Dest(n)}
         /\ module[n] = "source" => ByName(n) = Dest(n)
<1>1. /\ n \in Objects /\ Dest(n) \in Objects \ Source /\ n \notin Copies
      /\ Dest(n) \notin Copies
  BY SourceAndDest, ObjectKinds
<1>2. /\ module[n] \in {"source", "dest"} /\ module[Dest(n)] \in {"dest", "none"}
      /\ module[n] = "dest" => module[Dest(n)] = "none"
  BY <1>1 DEF Types, Places
<1> QED BY <1>1, <1>2, SourceAndDest DEF ByName, Named

-----------------------------------------------------------------------------
(***************************************************************************)
(* Where the operands of a moved function go.                              *)
(***************************************************************************)
\* Operand r of f goes to t: f itself, an object of the new module or one that
\* is made there, which stands for what r was.
Goes(f, r, t) ==
  /\ t \in Referable /\ OriginOf(t) = r.to
  /\ r.to = f <=> t = f
  /\ r.to # f => module[t] \in {"dest", "none"}
  /\ module[t] = "none" /\ t \notin Copies => t = Dest(r.to) /\ Named(r.to) = {}
  /\ t \in Copies => r.to \in Local \cap Variables /\ Found(r.to) = {}

LEMMA TargetGoes ==
  ASSUME Types, Places, NEW f \in Traces, NEW body \in SUBSET References(Source),
         NEW r \in MoveSees(body)
  PROVE  Goes(f, r, Target(f, r, body))
<1>1. r.to \in Source /\ r.form \in {"plain", "cast"} /\ f \in Source
  BY ObjectKinds DEF MoveSees, InForm, References
<1>2. OriginOf(f) = f /\ f \in Referable /\ f \notin Copies
  BY <1>1, SourceAndDest, ObjectKinds
<1>3. /\ ByName(r.to) \in Referable /\ OriginOf(ByName(r.to)) = r.to
      /\ ByName(r.to) \notin Copies /\ module[ByName(r.to)] # "source"
      /\ module[ByName(r.to)] = "none" => Named(r.to) = {} /\ ByName(r.to) = Dest(r.to)
  BY <1>1, NameFacts DEF Types
<1>4. CASE r.to = f BY <1>1, <1>2, <1>4 DEF Target, Goes, Places
<1>5. CASE r.to # f /\ Target(f, r, body) = ByName(r.to)
  <2>1. module[ByName(r.to)] \in {"dest", "none"}
    BY <1>3, ObjectKinds DEF Types
  <2> QED BY <1>2, <1>3, <1>5, <2>1 DEF Goes
<1>6. CASE /\ r.to # f /\ Target(f, r, body) = Copy(r.to, f, r.form)
           /\ r.to \in Variables \cap Local /\ Found(r.to) = {}
  <2> DEFINE c == Copy(r.to, f, r.form)
  <2>1. c \in Copies /\ c \notin Source /\ OriginOf(c) = r.to
    BY <1>1, <1>6, CopyFacts
  <2>2. c \in Referable /\ module[c] \in {"dest", "none"}
    BY <2>1, ObjectKinds DEF Types, Places, Referable
  <2> QED BY <1>1, <1>2, <1>6, <2>1, <2>2 DEF Goes
<1> QED BY <1>4, <1>5, <1>6 DEF Target

\* What is made for them is new.
IsNew(f, d) ==
  /\ d \in Referable /\ d \in Objects /\ d \notin Source /\ module[d] = "none"
  /\ OriginOf(d) # f /\ d # Dest(f) /\ OriginOf(d) \in Source
  /\ d \notin Copies => d = Dest(OriginOf(d)) /\ Named(OriginOf(d)) = {}
  /\ d \in Copies => OriginOf(d) \in Local
  /\ Found(OriginOf(d)) = {}

LEMMA DeclaresNew ==
  ASSUME Types, Places, NEW f \in Traces, NEW body \in SUBSET References(Source),
         NEW d \in Declares(f, body)
  PROVE  /\ IsNew(f, d)
         /\ \E r \in MoveSees(body) : r.to = OriginOf(d) /\ d = Target(f, r, body)
<1>1. PICK r \in MoveSees(body) : d = Target(f, r, body) /\ d # f /\ module[d] # "dest"
  BY DEF Declares
<1>2. Goes(f, r, d) BY <1>1, TargetGoes
<1>3. r.to \in Source /\ f \in Source
  BY ObjectKinds DEF MoveSees, InForm, References
<1>4. d \in Referable /\ OriginOf(d) = r.to /\ r.to # f /\ module[d] = "none"
  BY <1>1, <1>2 DEF Goes
<1>5. d \in Objects /\ d \notin Source
  BY <1>4, ObjectKinds DEF Places
<1>6. d # Dest(f) BY <1>3, <1>4, SourceAndDest
<1>7. Named(r.to) = {} => Found(r.to) = {} BY DEF Found
<1> QED BY <1>1, <1>2, <1>3, <1>4, <1>5, <1>6, <1>7 DEF IsNew, Goes

-----------------------------------------------------------------------------
(***************************************************************************)
(* The move.                                                               *)
(***************************************************************************)
\* replaceAllUsesWith: a body of the old module does not change, and none
\* refers to what was erased.
UsesFollow(f, uses) ==
  /\ uses \in [Functions -> SUBSET References(Referable)]
  /\ uses[f] = original[f]
  /\ \A g \in Traces : module[g] = "source" => uses[g] = refs[g]
  /\ \A g \in Functions :
       /\ Origins(uses[g]) = Origins(refs[g])
       /\ \A r \in uses[g] : /\ r.to \in Objects /\ r.to # Dest(f)
                             /\ module[r.to] # "none"
                             /\ r.to = f \/ r \in refs[g]

LEMMA ReplacedUses ==
  ASSUME Inv, NEW f \in Traces, module[f] = "source"
  PROVE  UsesFollow(f, UsesReplaced(Named(f), f))
<1> DEFINE New(r) == [to |-> IF r.to \in Named(f) THEN f ELSE r.to, form |-> r.form]
           uses == UsesReplaced(Named(f), f)
<1>1. uses = [g \in Functions |-> {New(r) : r \in refs[g]}]
  BY DEF UsesReplaced, Inv, Types
<1>2. /\ f \in Source /\ OriginOf(f) = f /\ f \in Referable /\ f \in Objects
      /\ module[f] # "none" /\ f # Dest(f) /\ OriginOf(Dest(f)) = f
      /\ Dest(f) \in Objects
  BY ObjectKinds, SourceAndDest
<1>3. (Named(f) = {} /\ module[Dest(f)] = "none") \/ Named(f) = {Dest(f)}
  BY <1>2, NameFacts DEF Inv
<1>4. ASSUME NEW g \in Functions, NEW r \in refs[g]
      PROVE  /\ New(r) \in References(Referable)
             /\ OriginOf(New(r).to) = OriginOf(r.to) /\ New(r).form = r.form
             /\ New(r).to \in Objects /\ New(r).to # Dest(f)
             /\ module[New(r).to] # "none"
             /\ New(r).to = f \/ New(r) \in refs[g]
             /\ r.to \in Source => New(r) = r
  <2>1. r \in [to : Referable, form : {"plain", "cast", "nested"}]
    BY DEF Inv, Types, References
  <2>2. r.to \in Objects /\ module[r.to] # "none"
    BY <2>1, ObjectKinds DEF Inv, Closed
  <2>3. CASE r.to \in Named(f)
    <3>1. New(r) = [to |-> f, form |-> r.form] /\ r.to = Dest(f) /\ Dest(f) \notin Source
      BY <1>2, <1>3, <2>3, SourceAndDest
    <3> HIDE DEF New
    <3> QED BY <1>2, <2>1, <3>1 DEF References
  <2>4. CASE r.to \notin Named(f)
    <3>1. New(r) = r BY <2>1, <2>4
    <3>2. r.to # Dest(f) BY <1>3, <2>2, <2>4
    <3> HIDE DEF New
    <3> QED BY <2>1, <2>2, <3>1, <3>2 DEF References
  <2> QED BY <2>3, <2>4
<1> HIDE DEF New
<1>5. ASSUME NEW g \in Functions
      PROVE  /\ uses[g] = {New(r) : r \in refs[g]} /\ uses[g] \in SUBSET References(Referable)
             /\ Origins(uses[g]) = Origins(refs[g])
  BY <1>1, <1>4 DEF Origins
<1>6. ASSUME NEW g \in Traces, module[g] = "source" PROVE uses[g] = refs[g]
  <2>1. g \in Functions /\ refs[g] = original[g] BY <1>6, ObjectKinds DEF Inv, Bodies
  <2>2. \A r \in refs[g] : r.to \in Source
    BY <2>1 DEF Inv, Types, References
  <2>3. \A r \in refs[g] : New(r) = r BY <1>4, <2>1, <2>2
  <2> QED BY <1>5, <2>1, <2>3
<1>7. uses[f] = original[f]
  BY <1>6 DEF Inv, Bodies
<1>8. uses \in [Functions -> SUBSET References(Referable)]
  BY <1>1, <1>5
<1>9. \A g \in Functions : \A r \in uses[g] :
        /\ r.to \in Objects /\ r.to # Dest(f) /\ module[r.to] # "none"
        /\ r.to = f \/ r \in refs[g]
  BY <1>4, <1>5
<1> HIDE DEF uses
<1>10. UsesFollow(f, uses) BY <1>5, <1>6, <1>7, <1>8, <1>9 DEF UsesFollow
<1> QED BY <1>10 DEF uses

\* Where everything is after f has moved.
ModulesAfter(f, news) ==
  /\ module' \in [Objects -> {"source", "dest", "none"}]
  /\ module'[f] = "dest" /\ module'[Dest(f)] = "none"
  /\ \A o \in news : module'[o] = "dest"
  /\ \A o \in Objects : o \notin news /\ o # f /\ o # Dest(f) => module'[o] = module[o]

\* The bodies after f has moved.
BodiesAfter(f, uses) ==
  /\ refs' \in [Functions -> SUBSET References(Referable)]
  /\ \A g \in Functions : g # f => refs'[g] = uses[g]
  /\ Origins(refs'[f]) = original[f]
  /\ \A r \in refs'[f] : \/ r.form = "nested" /\ r \in original[f]
                         \/ module'[r.to] = "dest"

Moved(f, uses, news) ==
  /\ module[f] = "source" /\ Named(f) \cap defined = {} /\ ~CannotDeclare(original[f])
  /\ f \in Source /\ f \in Functions /\ f \in Objects /\ news \subseteq Objects
  /\ news = Declares(f, original[f]) /\ \A d \in news : IsNew(f, d)
  /\ UsesFollow(f, uses) /\ ModulesAfter(f, news) /\ BodiesAfter(f, uses)
  /\ defined' = (defined \ Named(f)) \cup CopiedVariables(news)
  /\ internal' = (internal \ Named(f)) \cup WithLocalOrigin(news)
  /\ UNCHANGED <<original, clones, aborted>>

LEMMA ModulesOfMove ==
  ASSUME Inv, NEW f \in Traces, module[f] = "source", NEW news,
         \A d \in news : IsNew(f, d),
         module' = [o \in Objects |->
           CASE o \in Named(f) -> "none"
             [] o = f \/ o \in news -> "dest"
             [] OTHER -> module[o]]
  PROVE  ModulesAfter(f, news)
<1>1. /\ f \in Source /\ f \in Objects /\ Dest(f) \in Objects /\ f # Dest(f)
  BY ObjectKinds, SourceAndDest
<1>2. (Named(f) = {} /\ module[Dest(f)] = "none") \/ Named(f) = {Dest(f)}
  BY <1>1, NameFacts DEF Inv
<1>3. \A d \in news : d \in Objects /\ d # Dest(f) BY DEF IsNew
<1>4. f \notin Named(f) /\ \A d \in news : d \notin Named(f) BY <1>1, <1>2, <1>3
<1>5. ASSUME NEW o \in Objects
      PROVE  /\ o \in Named(f) => module'[o] = "none"
             /\ o \notin Named(f) /\ (o = f \/ o \in news) => module'[o] = "dest"
             /\ o \notin Named(f) /\ o # f /\ o \notin news => module'[o] = module[o]
             /\ module'[o] \in {"source", "dest", "none"}
  <2>1. CASE o \in Named(f) BY <1>4, <2>1
  <2>2. CASE o \notin Named(f) /\ (o = f \/ o \in news) BY <2>2
  <2>3. CASE o \notin Named(f) /\ o # f /\ o \notin news BY <2>3 DEF Inv, Types
  <2> QED BY <2>1, <2>2, <2>3
<1>6. module' = [o \in Objects |-> module'[o]] OBVIOUS
<1>7. module' \in [Objects -> {"source", "dest", "none"}] BY <1>5, <1>6
<1> QED BY <1>1, <1>2, <1>3, <1>4, <1>5, <1>7 DEF ModulesAfter

LEMMA BodiesOfMove ==
  ASSUME Inv, NEW f \in Traces, module[f] = "source", NEW uses, UsesFollow(f, uses),
         NEW body, body = original[f],
         refs' = [uses EXCEPT ![f] = {Substituted(f, r, body) : r \in body}],
         ModulesAfter(f, Declares(f, body))
  PROVE  BodiesAfter(f, uses)
<1> DEFINE New(r) == Substituted(f, r, body)
<1>1. f \in Functions /\ f \in Source /\ body \in SUBSET References(Source)
  BY ObjectKinds DEF Inv, Types
<1>2. ASSUME NEW r \in body
      PROVE  /\ New(r) \in References(Referable)
             /\ OriginOf(New(r).to) = r.to /\ New(r).form = r.form
             /\ [to |-> OriginOf(New(r).to), form |-> New(r).form] = r
             /\ \/ New(r).form = "nested" /\ New(r) = r
                \/ module'[New(r).to] = "dest"
  <2>1. r \in [to : Source, form : {"plain", "cast", "nested"}]
    BY <1>1 DEF References
  <2>2. CASE r \in MoveSees(body)
    <3> DEFINE t == Target(f, r, body)
    <3>1. Goes(f, r, t) BY <1>1, <2>2, TargetGoes DEF Inv
    <3>2. New(r) = [to |-> t, form |-> r.form] BY <2>2 DEF Substituted
    <3>3. t \in Declares(f, body) \/ t = f \/ module[t] = "dest"
      BY <2>2 DEF Declares
    <3>4. t \in Referable /\ t \in Objects /\ OriginOf(t) = r.to /\ (t # f => r.to # f)
      BY <3>1, ObjectKinds DEF Goes
    <3>5. t # Dest(f) \/ t = f
      BY <1>1, <3>4, SourceAndDest
    <3> HIDE DEF t
    <3>6. module'[t] = "dest" BY <3>3, <3>4, <3>5 DEF ModulesAfter
    <3>7. New(r) \in [to : Referable, form : {"plain", "cast", "nested"}]
      BY <2>1, <3>2, <3>4
    <3>8. r = [to |-> r.to, form |-> r.form] BY <2>1
    <3> QED BY <3>2, <3>4, <3>6, <3>7, <3>8 DEF References
  <2>3. CASE r \notin MoveSees(body)
    <3>1. r.form = "nested" BY <2>1, <2>3 DEF MoveSees, InForm
    <3>2. New(r) = r BY <2>1, <2>3 DEF Substituted
    <3>3. OriginOf(r.to) = r.to /\ r.to \in Referable BY <2>1, SourceAndDest
    <3> QED BY <2>1, <3>1, <3>2, <3>3 DEF References
  <2> QED BY <2>2, <2>3
<1> HIDE DEF New
<1>3. {New(r) : r \in body} \in SUBSET References(Referable) BY <1>2
<1>4. refs' = [uses EXCEPT ![f] = {New(r) : r \in body}] BY DEF New
<1>5. /\ refs'[f] = {New(r) : r \in body}
      /\ refs' \in [Functions -> SUBSET References(Referable)]
      /\ \A g \in Functions : g # f => refs'[g] = uses[g]
  BY <1>1, <1>3, <1>4 DEF UsesFollow
<1>6. Origins(refs'[f]) = body
  <2> DEFINE O(n) == [to |-> OriginOf(n.to), form |-> n.form]
  <2>1. Origins(refs'[f]) = {O(n) : n \in refs'[f]} BY DEF Origins
  <2>2. \A r \in body : O(New(r)) = r BY <1>2
  <2> HIDE DEF O
  <2>3. \A x \in Origins(refs'[f]) : x \in body
    <3> SUFFICES ASSUME NEW n \in refs'[f] PROVE O(n) \in body BY <2>1
    <3>1. PICK r \in body : n = New(r) BY <1>5
    <3> QED BY <2>2, <3>1
  <2>4. \A x \in body : x \in Origins(refs'[f])
    <3> SUFFICES ASSUME NEW x \in body PROVE x \in {O(n) : n \in refs'[f]} BY <2>1
    <3>1. New(x) \in refs'[f] BY <1>5
    <3> QED BY <2>2, <3>1
  <2> QED BY <2>3, <2>4
<1> QED BY <1>2, <1>5, <1>6 DEF BodiesAfter

LEMMA MoveIsMoved ==
  ASSUME Inv, NEW f \in Traces, MoveFunctionIntoModule(f)
  PROVE  Moved(f, UsesReplaced(Named(f), f), Declares(f, original[f]))
<1> DEFINE uses == UsesReplaced(Named(f), f)
           body == original[f]
           news == Declares(f, body)
<1>1. module[f] = "source" /\ Named(f) \cap defined = {} /\ ~CannotDeclare(refs[f])
  BY DEF MoveFunctionIntoModule, Movable
<1>2. UsesFollow(f, uses) BY <1>1, ReplacedUses
<1>3. uses[f] = body /\ refs[f] = body BY <1>1, <1>2 DEF UsesFollow, Inv, Bodies
<1>4. body \in SUBSET References(Source) BY DEF Inv, Types
<1>5. \A d \in news : IsNew(f, d) BY <1>4, DeclaresNew DEF Inv
<1>6. /\ module' = [o \in Objects |->
           CASE o \in Named(f) -> "none"
             [] o = f \/ o \in news -> "dest"
             [] OTHER -> module[o]]
      /\ refs' = [uses EXCEPT ![f] = {Substituted(f, r, body) : r \in body}]
      /\ defined' = (defined \ Named(f)) \cup CopiedVariables(news)
      /\ internal' = (internal \ Named(f)) \cup WithLocalOrigin(news)
      /\ UNCHANGED <<original, clones, aborted>>
  BY <1>3 DEF MoveFunctionIntoModule, MoveWith
<1> HIDE DEF uses, news
<1>7. ModulesAfter(f, news) BY <1>1, <1>5, <1>6, ModulesOfMove
<1> HIDE DEF body
<1>8. body = original[f] /\ ModulesAfter(f, Declares(f, body)) BY <1>7 DEF body, news
<1>9. BodiesAfter(f, uses) BY <1>1, <1>2, <1>6, <1>8, BodiesOfMove
<1>10. f \in Source /\ f \in Functions /\ f \in Objects /\ news \subseteq Objects
  BY <1>5, ObjectKinds, SourceAndDest DEF IsNew
<1>11. Moved(f, uses, news)
  BY <1>1, <1>2, <1>3, <1>5, <1>6, <1>7, <1>8, <1>9, <1>10 DEF Moved, news
<1> QED BY <1>11 DEF uses, news, body

LEMMA MoveKeepsInv ==
  ASSUME Inv, NEW f \in Traces, MoveFunctionIntoModule(f)
  PROVE  Inv'
<1> DEFINE uses == UsesReplaced(Named(f), f)
           news == Declares(f, original[f])
<1>1. Moved(f, uses, news) BY MoveIsMoved
<1> HIDE DEF uses, news
<1>2. /\ f \in Source /\ f \in Functions /\ f \in Objects /\ f # Dest(f)
      /\ Dest(f) \in Objects /\ Dest(f) \notin Source /\ Dest(f) \notin Copies
      /\ OriginOf(f) = f /\ f \notin Copies /\ module[f] = "source"
  BY <1>1, SourceAndDest, ObjectKinds DEF Moved
<1>3. /\ module' \in [Objects -> {"source", "dest", "none"}]
      /\ module'[f] = "dest" /\ module'[Dest(f)] = "none"
      /\ \A o \in news : module'[o] = "dest"
      /\ \A o \in Objects : o \notin news /\ o # f /\ o # Dest(f) => module'[o] = module[o]
  BY <1>1 DEF Moved, ModulesAfter
<1>4. \A d \in news :
        /\ d \in Objects /\ d \notin Source /\ d # Dest(f) /\ d # f /\ module[d] = "none"
        /\ OriginOf(d) \in Source
        /\ d \notin Copies => d = Dest(OriginOf(d)) /\ Named(OriginOf(d)) = {}
        /\ d \in Copies => OriginOf(d) \in Local
  BY <1>1, <1>2 DEF Moved, IsNew
<1>5. /\ refs' \in [Functions -> SUBSET References(Referable)]
      /\ \A g \in Functions : g # f => refs'[g] = uses[g]
      /\ Origins(refs'[f]) = original[f]
      /\ \A r \in refs'[f] : \/ r.form = "nested" /\ r \in original[f]
                             \/ module'[r.to] = "dest"
  BY <1>1 DEF Moved, BodiesAfter
<1>6. /\ uses[f] = original[f]
      /\ \A g \in Traces : module[g] = "source" => uses[g] = refs[g]
      /\ \A g \in Functions : Origins(uses[g]) = Origins(refs[g])
      /\ \A g \in Functions : \A r \in uses[g] :
           /\ r.to \in Objects /\ r.to # Dest(f) /\ module[r.to] # "none"
           /\ r.to = f \/ r \in refs[g]
  BY <1>1 DEF Moved, UsesFollow
<1>7. /\ defined' = (defined \ Named(f)) \cup CopiedVariables(news)
      /\ internal' = (internal \ Named(f)) \cup WithLocalOrigin(news)
      /\ UNCHANGED <<original, clones>> /\ Named(f) \cap defined = {}
  BY <1>1 DEF Moved
<1>8. Types'
  <2>1. original' \in [Traces -> SUBSET References(Source)] /\ clones' \subseteq Traces
    BY <1>7 DEF Inv, Types
  <2>2. \A o \in Objects : module[o] # "none" /\ o \notin Named(f) => module'[o] # "none"
    <3>1. (Named(f) = {} /\ module[Dest(f)] = "none") \/ Named(f) = {Dest(f)}
      BY <1>2, NameFacts DEF Inv
    <3> QED BY <1>3, <3>1
  <2> QED BY <1>3, <1>4, <1>5, <1>7, <2>1, <2>2
          DEF Inv, Types, CopiedVariables, WithLocalOrigin
<1>9. Places'
  <2>1. ASSUME NEW o \in Source
        PROVE  module'[o] # "none" /\ (o \notin Traces => module'[o] = "source")
    <3>1. o \in Objects /\ o \notin news /\ o # Dest(f)
      BY <1>2, <1>4, SourceAndDest
    <3> QED BY <1>3, <3>1 DEF Inv, Places
  <2>2. ASSUME NEW o \in Objects \ Source PROVE module'[o] # "source"
    <3>1. o # f /\ module[o] # "source" BY <1>2 DEF Inv, Places
    <3> QED BY <1>3, <3>1
  <2>3. ASSUME NEW n \in Traces, module'[n] = "dest" PROVE module'[Dest(n)] = "none"
    <3>1. /\ n \in Source /\ n \in Objects /\ Dest(n) \in Objects
          /\ Dest(n) \notin Copies /\ OriginOf(Dest(n)) = n
          /\ n # Dest(f) /\ n \notin news /\ Dest(n) # f
      BY <1>2, <1>4, SourceAndDest, ObjectKinds
    <3>2. CASE n = f BY <1>3, <3>2
    <3>3. CASE n # f
      <4>1. module[n] = "dest" BY <1>3, <2>3, <3>1, <3>3
      <4>2. n \in Named(n) BY <4>1 DEF Named
      <4>3. Dest(n) \notin news BY <1>4, <3>1, <4>2
      <4>4. module[Dest(n)] = "none" BY <4>1 DEF Inv, Places
      <4> QED BY <1>3, <3>1, <4>3, <4>4
    <3> QED BY <3>2, <3>3
  <2> QED BY <2>1, <2>2, <2>3 DEF Places
<1>10. Linkages'
  <2> SUFFICES ASSUME NEW c \in Copies, module'[c] = "dest" PROVE c \in internal'
    BY DEF Linkages
  <2>1. c \in Objects /\ c # f /\ c # Dest(f) /\ c \notin Named(f)
    BY <1>2, ObjectKinds DEF Named
  <2>2. CASE c \in news BY <1>4, <1>7, <2>2 DEF WithLocalOrigin
  <2>3. CASE c \notin news BY <1>3, <1>7, <2>1, <2>3 DEF Inv, Linkages
  <2> QED BY <2>2, <2>3
<1>11. Bodies'
  <2> SUFFICES ASSUME NEW g \in Traces
               PROVE  /\ module'[g] = "source" => refs'[g] = original[g]
                      /\ Origins(refs'[g]) = original[g]
    BY <1>7 DEF Bodies
  <2>1. CASE g = f BY <1>3, <1>5, <2>1
  <2>2. CASE g # f
    <3>1. /\ g \in Functions /\ g \in Objects /\ g # Dest(f) /\ g \notin news
      BY <1>2, <1>4, ObjectKinds, SourceAndDest
    <3>2. refs'[g] = uses[g] /\ module'[g] = module[g] BY <1>3, <1>5, <2>2, <3>1
    <3> QED BY <1>6, <3>1, <3>2 DEF Inv, Bodies
  <2> QED BY <2>1, <2>2
<1>12. Closed'
  <2>0. ASSUME NEW o \in Objects, o # Dest(f)
        PROVE  /\ module[o] # "none" => module'[o] # "none"
               /\ module[o] = "dest" => module'[o] = "dest"
    BY <1>3, <2>0
  <2>1. ASSUME NEW g \in Functions, NEW r \in refs'[g] PROVE module'[r.to] # "none"
    <3>1. CASE g # f
      <4>1. r \in uses[g] BY <1>5, <3>1
      <4>2. r.to \in Objects /\ r.to # Dest(f) /\ module[r.to] # "none"
        BY <1>6, <4>1
      <4> QED BY <2>0, <4>2
    <3>2. CASE g = f /\ r.form = "nested" /\ r \in original[f]
      <4>1. r \in uses[f] BY <1>6, <3>2
      <4>2. r.to \in Objects /\ r.to # Dest(f) /\ module[r.to] # "none"
        BY <1>2, <1>6, <4>1
      <4> QED BY <2>0, <4>2
    <3>3. CASE module'[r.to] = "dest" BY <3>3
    <3> QED BY <1>5, <3>1, <3>2, <3>3
  <2>2. ASSUME NEW g \in Traces, module'[g] = "dest", NEW r \in refs'[g], r.form # "nested"
        PROVE  module'[r.to] = "dest"
    <3>1. CASE g = f BY <1>5, <2>2, <3>1
    <3>2. CASE g # f
      <4>1. g \in Functions /\ g \in Objects /\ g # Dest(f) /\ g \notin news
        BY <1>2, <1>4, ObjectKinds, SourceAndDest
      <4>2. module[g] = "dest" /\ r \in uses[g] BY <1>3, <1>5, <2>2, <3>2, <4>1
      <4>3. r.to \in Objects /\ r.to # Dest(f) /\ (r.to = f \/ r \in refs[g])
        BY <1>6, <4>1, <4>2
      <4>4. CASE r.to = f BY <1>3, <4>4
      <4>5. CASE r \in refs[g]
        <5>1. module[r.to] = "dest" BY <2>2, <4>2, <4>5 DEF Inv, Closed
        <5> QED BY <2>0, <4>3, <5>1
      <4> QED BY <4>3, <4>4, <4>5
    <3> QED BY <3>1, <3>2
  <2> QED BY <2>1, <2>2 DEF Closed
<1> QED BY <1>8, <1>9, <1>10, <1>11, <1>12 DEF Inv

-----------------------------------------------------------------------------
(***************************************************************************)
(* The clones.  Nothing refers to one, and no trace is declared for it.    *)
(***************************************************************************)
\* What a clone brings: the clone itself and the objects news, all new.
Cloned(f, news) ==
  LET g == Clone(f) IN
  /\ \A d \in news : /\ d \in Dests /\ module[d] = "none"
                     /\ Named(OriginOf(d)) = {}
                     /\ \E r \in CloneSees(original[f]) : r.to = OriginOf(d)
  /\ module' = [o \in Objects |-> IF o = g \/ o \in news THEN "dest" ELSE module[o]]
  /\ \E body \in SUBSET References(Referable) :
       /\ refs' = [refs EXCEPT ![g] = body]
       /\ \A r \in body : module'[r.to] # "none"
  /\ defined' = defined \cup {g}
  /\ UNCHANGED <<original, clones, aborted>>
  /\ internal' \subseteq internal /\ \A c \in Copies : c \in internal => c \in internal'
  /\ f \in clones

LEMMA CloneInModuleIsCloned ==
  ASSUME Inv, NEW f \in Traces, CloneInModule(f)
  PROVE  Cloned(f, {})
<1>1. Clone(f) \in Functions /\ Clone(f) \in Objects /\ f \in Functions
  BY CloneFacts, ObjectKinds
<1>2. /\ module' = [module EXCEPT ![Clone(f)] = "dest"]
      /\ refs' = [refs EXCEPT ![Clone(f)] = refs[f]]
      /\ defined' = defined \cup {Clone(f)} /\ f \in clones
      /\ UNCHANGED <<internal, original, clones, aborted>>
  BY DEF CloneInModule, Clonable
<1>3. module' = [o \in Objects |-> IF o = Clone(f) THEN "dest" ELSE module[o]]
  BY <1>1, <1>2 DEF Inv, Types
<1>4. refs[f] \in SUBSET References(Referable) BY <1>1 DEF Inv, Types
<1>5. \A r \in refs[f] : r.to \in Objects /\ module[r.to] # "none"
  BY <1>1, <1>4, ObjectKinds DEF Inv, Closed, References
<1>6. \A r \in refs[f] : module'[r.to] # "none" BY <1>3, <1>5
<1> QED BY <1>2, <1>3, <1>4, <1>6 DEF Cloned

LEMMA CloneIntoOtherIsCloned ==
  ASSUME Inv, NEW f \in Traces, CloneIntoOther(f)
  PROVE  Cloned(f, {d \in {ByName(r.to) : r \in CloneSees(refs[f])} : module[d] # "dest"})
<1> DEFINE seen == CloneSees(refs[f])
           targets == {ByName(r.to) : r \in seen}
           news == {d \in targets : module[d] # "dest"}
           Sub(r) == [to |-> IF r \in seen THEN ByName(r.to) ELSE r.to, form |-> r.form]
           body == {Sub(r) : r \in refs[f]}
<1>1. /\ module[f] = "source" /\ f \in clones
      /\ module' = [o \in Objects |->
                      IF o = Clone(f) \/ o \in targets THEN "dest" ELSE module[o]]
      /\ refs' = [refs EXCEPT ![Clone(f)] = body]
      /\ defined' = defined \cup {Clone(f)} /\ internal' = internal \ targets
      /\ UNCHANGED <<original, clones, aborted>>
  BY DEF CloneIntoOther, Clonable
<1>2. refs[f] = original[f] /\ refs[f] \in SUBSET References(Source)
  BY <1>1 DEF Inv, Bodies, Types
<1>3. \A r \in refs[f] : /\ r \in [to : Source, form : {"plain", "cast", "nested"}]
                         /\ r.to \in Source /\ r \in original[f]
  BY <1>2 DEF References
<1>4. \A r \in seen : r \in refs[f] /\ r \in CloneSees(original[f]) /\ r.to \in Source
  BY <1>2, <1>3 DEF CloneSees, InForm
<1>5. ASSUME NEW d \in targets
      PROVE  /\ d \in Referable /\ d \in Objects /\ d \notin Copies /\ d # Clone(f)
             /\ \E r \in CloneSees(original[f]) : r.to = OriginOf(d)
             /\ module[d] # "source"
             /\ module[d] # "dest" => d \in Dests /\ module[d] = "none"
                                      /\ Named(OriginOf(d)) = {}
  <2>1. PICK r \in seen : d = ByName(r.to) OBVIOUS
  <2>2. r.to \in Source BY <1>4
  <2>3. /\ d \in Referable /\ OriginOf(d) = r.to /\ d \notin Copies
        /\ module[d] # "source"
        /\ Named(r.to) = {} => module[d] = "none" /\ d = Dest(r.to)
        /\ Named(r.to) # {} => module[d] = "dest"
    BY <2>1, <2>2, NameFacts DEF Inv
  <2>4. d \in Objects /\ d # Clone(f) BY <2>3, ObjectKinds, CloneFacts
  <2>5. Dest(r.to) \in Dests BY <2>2 DEF Dests
  <2> QED BY <1>4, <2>1, <2>3, <2>4, <2>5
<1> HIDE DEF targets
<1>6. module' = [o \in Objects |-> IF o = Clone(f) \/ o \in news THEN "dest" ELSE module[o]]
  BY <1>1
<1>7. ASSUME NEW r \in refs[f]
      PROVE  Sub(r) \in References(Referable) /\ module'[Sub(r).to] # "none"
  <2>1. CASE r \in seen
    <3>1. Sub(r) = [to |-> ByName(r.to), form |-> r.form] BY <2>1
    <3>2. ByName(r.to) \in targets BY <2>1 DEF targets
    <3>3. ByName(r.to) \in Referable /\ module'[ByName(r.to)] = "dest"
      BY <1>1, <1>5, <3>2
    <3> HIDE DEF Sub
    <3> QED BY <1>3, <3>1, <3>3 DEF References
  <2>2. CASE r \notin seen
    <3>1. Sub(r) = r BY <1>3, <2>2
    <3>2. r.to \in Objects /\ module[r.to] # "none" /\ r.to \in Referable
      BY <1>3, SourceAndDest DEF Inv, Places
    <3>3. module'[r.to] # "none" BY <1>1, <3>2
    <3> HIDE DEF Sub
    <3> QED BY <1>3, <3>1, <3>2, <3>3 DEF References
  <2> QED BY <2>1, <2>2
<1> HIDE DEF Sub
<1>8. body \in SUBSET References(Referable) /\ \A r \in body : module'[r.to] # "none"
  BY <1>7
<1> HIDE DEF body
<1>9. \A d \in news : /\ d \in Dests /\ module[d] = "none"
                      /\ Named(OriginOf(d)) = {}
                      /\ \E r \in CloneSees(original[f]) : r.to = OriginOf(d)
  BY <1>5
<1>10. internal' \subseteq internal /\ \A c \in Copies : c \in internal => c \in internal'
  BY <1>1, <1>5
<1> HIDE DEF news
<1>11. Cloned(f, news) BY <1>1, <1>6, <1>8, <1>9, <1>10 DEF Cloned
<1> QED BY <1>11 DEF news, targets

LEMMA ClonedKeepsInv ==
  ASSUME Inv, NEW f \in Traces, NEW news, Cloned(f, news)
  PROVE  Inv'
<1> DEFINE g == Clone(f)
<1>1. /\ g \in Functions /\ g \in Objects /\ g \notin Source /\ g \notin Copies
      /\ \A m \in Source : g # Dest(m)
  BY CloneFacts
<1>2. PICK body \in SUBSET References(Referable) :
        refs' = [refs EXCEPT ![g] = body] /\ \A r \in body : module'[r.to] # "none"
  BY DEF Cloned
<1>3. \A d \in news : /\ d \in Dests /\ d \in Objects /\ d \notin Source /\ d \notin Copies
                      /\ module[d] = "none" /\ Named(OriginOf(d)) = {}
  <2>1. \A d \in Dests : d \in Objects /\ d \notin Source /\ d \notin Copies
    BY SourceAndDest DEF Dests
  <2> QED BY <2>1 DEF Cloned
<1>4. /\ module' = [o \in Objects |-> IF o = g \/ o \in news THEN "dest" ELSE module[o]]
      /\ defined' = defined \cup {g} /\ UNCHANGED <<original, clones>>
      /\ internal' \subseteq internal /\ \A c \in Copies : c \in internal => c \in internal'
  BY DEF Cloned
<1> HIDE DEF g
<1>5. ASSUME NEW o \in Objects
      PROVE  /\ o = g \/ o \in news => module'[o] = "dest"
             /\ o # g /\ o \notin news => module'[o] = module[o]
             /\ module[o] # "none" => module'[o] # "none"
             /\ module[o] = "dest" => module'[o] = "dest"
             /\ module'[o] \in {"source", "dest", "none"}
             /\ module'[o] = "source" => module[o] = "source"
             /\ o \in Source => module'[o] = module[o]
  <2>1. module[o] \in {"source", "dest", "none"} BY DEF Inv, Types
  <2>2. CASE o = g \/ o \in news BY <1>1, <1>3, <1>4, <2>2
  <2>3. CASE o # g /\ o \notin news BY <1>4, <2>1, <2>3
  <2>4. o \in Source => o # g /\ o \notin news BY <1>1, <1>3
  <2> QED BY <2>1, <2>2, <2>3, <2>4
<1>6. /\ refs'[g] = body /\ \A h \in Functions : h # g => refs'[h] = refs[h]
      /\ refs' \in [Functions -> SUBSET References(Referable)]
  BY <1>1, <1>2 DEF Inv, Types
<1>7. Types'
  <2>1. module' \in [Objects -> {"source", "dest", "none"}]
    <3>1. module' = [o \in Objects |-> module'[o]] BY <1>4
    <3> QED BY <1>5, <3>1
  <2>2. defined' \cup internal' \subseteq {o \in Objects : module'[o] # "none"}
    BY <1>1, <1>4, <1>5 DEF Inv, Types
  <2> QED BY <1>4, <1>6, <2>1, <2>2 DEF Inv, Types
<1>8. Places'
  <2>1. ASSUME NEW o \in Source
        PROVE  module'[o] # "none" /\ (o \notin Traces => module'[o] = "source")
    BY <1>5, SourceAndDest DEF Inv, Places
  <2>2. ASSUME NEW o \in Objects \ Source PROVE module'[o] # "source"
    BY <1>5 DEF Inv, Places
  <2>3. ASSUME NEW n \in Traces, module'[n] = "dest" PROVE module'[Dest(n)] = "none"
    <3>1. /\ n \in Source /\ n \in Objects /\ Dest(n) \in Objects
          /\ OriginOf(Dest(n)) = n /\ Dest(n) # g
      BY <1>1, SourceAndDest, ObjectKinds
    <3>2. module[n] = "dest" BY <1>5, <2>3, <3>1
    <3>3. n \in Named(n) BY <3>2 DEF Named
    <3>4. Dest(n) \notin news BY <1>3, <3>1, <3>3
    <3>5. module[Dest(n)] = "none" BY <3>2 DEF Inv, Places
    <3> QED BY <1>5, <3>1, <3>4, <3>5
  <2> QED BY <2>1, <2>2, <2>3 DEF Places
<1>9. Linkages'
  <2> SUFFICES ASSUME NEW c \in Copies, module'[c] = "dest" PROVE c \in internal'
    BY DEF Linkages
  <2>1. module[c] = "dest" BY <1>1, <1>3, <1>5, ObjectKinds
  <2> QED BY <1>4, <2>1 DEF Inv, Linkages
<1>10. \A h \in Traces : /\ h # g /\ h \in Functions /\ h \in Objects
                         /\ refs'[h] = refs[h] /\ module'[h] = module[h]
  BY <1>1, <1>5, <1>6, ObjectKinds, SourceAndDest
<1>11. Bodies' BY <1>4, <1>10 DEF Inv, Bodies
<1>12. \A h \in Functions : \A r \in refs[h] :
         r.to \in Objects /\ module[r.to] # "none"
  BY ObjectKinds DEF Inv, Types, Closed, References
<1>13. Closed'
  <2>1. ASSUME NEW h \in Functions, NEW r \in refs'[h] PROVE module'[r.to] # "none"
    BY <1>2, <1>5, <1>6, <1>12
  <2>2. ASSUME NEW h \in Traces, module'[h] = "dest", NEW r \in refs'[h], r.form # "nested"
        PROVE  module'[r.to] = "dest"
    BY <2>2, <1>5, <1>10, <1>12 DEF Inv, Closed
  <2> QED BY <2>1, <2>2 DEF Closed
<1> QED BY <1>7, <1>8, <1>9, <1>11, <1>13 DEF Inv

-----------------------------------------------------------------------------
LEMMA InitInv == Init => Inv
<1> SUFFICES ASSUME Init PROVE Inv OBVIOUS
<1>1. original \in [Traces -> SUBSET References(Source)] /\ clones \subseteq Traces
  BY ScenariosAssumption DEF Init
<1>2. \A o \in Objects : module[o] = IF o \in Source THEN "source" ELSE "none"
  BY DEF Init
<1>3. \A f \in Functions : refs[f] = IF f \in Traces THEN original[f] ELSE {}
  BY DEF Init, Functions
<1>4. /\ References(Source) \subseteq References(Referable)
      /\ \A r \in References(Source) : /\ r.to \in Source /\ OriginOf(r.to) = r.to
                                       /\ r = [to |-> r.to, form |-> r.form]
  BY SourceAndDest DEF References, Referable
<1>5. Types
  <2>1. refs \in [Functions -> SUBSET References(Referable)]
    <3>1. \A f \in Functions : refs[f] \in SUBSET References(Referable)
      BY <1>1, <1>3, <1>4
    <3>2. refs = [f \in Functions |-> refs[f]] BY DEF Init, Functions
    <3> QED BY <3>1, <3>2
  <2>2. \A o \in Source : o \in Objects /\ module[o] # "none"
    BY <1>2, SourceAndDest
  <2>3. Local \subseteq Source BY ObjectsAssumption DEF Source
  <2> QED BY <1>1, <2>1, <2>2, <2>3 DEF Init, Types
<1>6. Places BY <1>2, SourceAndDest, ObjectKinds DEF Places, Source
<1>7. Linkages BY <1>2, ObjectKinds DEF Linkages
<1>8. Bodies
  <2>1. ASSUME NEW f \in Traces PROVE Origins(original[f]) = original[f]
    <3>1. original[f] \in SUBSET References(Source) BY <1>1
    <3> QED BY <1>4, <3>1 DEF Origins
  <2> QED BY <1>3, <2>1, ObjectKinds DEF Bodies
<1>9. Closed
  <2>1. ASSUME NEW g \in Functions, NEW r \in refs[g] PROVE module[r.to] # "none"
    <3>1. r \in References(Source) BY <1>1, <1>3
    <3> QED BY <1>2, <1>4, <3>1, SourceAndDest
  <2>2. \A f \in Traces : module[f] # "dest" BY <1>2, ObjectKinds, SourceAndDest
  <2> QED BY <2>1, <2>2 DEF Closed
<1> QED BY <1>5, <1>6, <1>7, <1>8, <1>9 DEF Inv

\* What does not look at aborted is left alone by an abort.
LEMMA StutterKeepsInv ==
  ASSUME Inv, UNCHANGED <<module, refs, defined, internal, original, clones>>
  PROVE  Inv'
<1>1. Types' /\ Places' /\ Linkages'
  BY DEF Inv, Types, Places, Linkages
<1>2. Bodies' /\ Closed' BY DEF Inv, Bodies, Closed
<1> QED BY <1>1, <1>2 DEF Inv

LEMMA NextKeepsInv == Inv /\ [Next]_vars => Inv'
<1> SUFFICES ASSUME Inv, [Next]_vars PROVE Inv'
  OBVIOUS
<1>1. ASSUME NEW f \in Traces, MoveFunctionIntoModule(f) PROVE Inv'
  BY <1>1, MoveKeepsInv
<1>2. ASSUME NEW f \in Traces, MoveAborts(f) \/ CloneAborts(f) PROVE Inv'
  BY <1>2, StutterKeepsInv DEF MoveAborts, CloneAborts, Abort
<1>3. ASSUME NEW f \in Traces, CloneInModule(f) PROVE Inv'
  BY <1>3, CloneInModuleIsCloned, ClonedKeepsInv
<1>4. ASSUME NEW f \in Traces, CloneIntoOther(f) PROVE Inv'
  BY <1>4, CloneIntoOtherIsCloned, ClonedKeepsInv
<1>5. CASE UNCHANGED vars BY <1>5, StutterKeepsInv DEF vars
<1> QED BY <1>1, <1>2, <1>3, <1>4, <1>5 DEF Next, CloneFunctionInto

LEMMA InvAlways == Spec => []Inv
  BY InitInv, NextKeepsInv, PTL DEF Spec

LEMMA InvGivesTypeOK == Inv => TypeOK
<1>1. \A f \in Functions : refs[f] \in SUBSET References(Referable) =>
        \A r \in refs[f] : r.to \in Objects
  BY ObjectKinds DEF References
<1> QED BY <1>1 DEF Inv, Types, TypeOK

(***************************************************************************)
(* Every object is in one module or gone, nothing that is gone is defined  *)
(* or local, and every operand is a reference to an object.                *)
(***************************************************************************)
THEOREM MoveTypesCorrect == Spec => []TypeOK
  BY InvAlways, InvGivesTypeOK, PTL

-----------------------------------------------------------------------------
LEMMA InvGivesOneObject == Inv => OneObjectPerName
<1> SUFFICES ASSUME Inv, NEW o \in InModule("dest") \ internal,
                    NEW p \in InModule("dest") \ internal,
                    OriginOf(o) = OriginOf(p), o # p
             PROVE FALSE
  BY DEF OneObjectPerName
<1>1. /\ o \in Objects /\ p \in Objects /\ module[o] = "dest" /\ module[p] = "dest"
      /\ o \notin Copies /\ p \notin Copies
  BY DEF InModule, Inv, Linkages
<1>2. CASE o \in Referable /\ p \in Referable
  <2> DEFINE n == OriginOf(o)
  <2>1. n \in Source /\ o \in {n, Dest(n)} /\ p \in {n, Dest(n)}
    BY <1>1, <1>2, ObjectKinds
  <2>2. module[n] = "dest" /\ module[Dest(n)] = "dest" BY <1>1, <2>1
  <2>3. n \in Traces BY <2>1, <2>2 DEF Inv, Places
  <2> QED BY <2>2, <2>3 DEF Inv, Places
<1>3. CASE o \notin Referable /\ p \notin Referable
  BY <1>1, <1>3, ObjectKinds, CloneFacts DEF Clones
<1>4. \A a, b \in Objects \ Copies :
        a \in Referable /\ b \notin Referable => OriginOf(a) # OriginOf(b)
  BY ObjectKinds, CloneFacts DEF Clones
<1> QED BY <1>1, <1>2, <1>3, <1>4

(***************************************************************************)
(* Functions may arrive before or after those that call them, be cloned or *)
(* declared in between, and variables be copied, declared or given to the  *)
(* linker: nothing that can be linked to is there twice.                   *)
(***************************************************************************)
THEOREM NamesStayUnique == Spec => []OneObjectPerName
  BY InvAlways, InvGivesOneObject, PTL

-----------------------------------------------------------------------------
LEMMA InvGivesSelfContained == Inv => SelfContained
<1> SUFFICES ASSUME Inv PROVE SelfContained
  OBVIOUS
<1>1. DOMAIN refs = Functions
  BY DEF Inv, Types
<1>2. ASSUME NothingNested, NEW f \in Traces \cap InModule("dest")
      PROVE  /\ \A r \in refs[f] : module[r.to] = "dest"
             /\ Origins(refs[f]) = original[f]
  <2>1. Origins(refs[f]) = original[f] BY DEF Inv, Bodies
  <2>2. ASSUME NEW r \in refs[f] PROVE r.form # "nested"
    <3>1. [to |-> OriginOf(r.to), form |-> r.form] \in original[f]
      BY <2>1 DEF Origins
    <3> QED BY <1>2, <3>1 DEF NothingNested
  <2> QED BY <2>1, <2>2 DEF Inv, Closed, InModule
<1> QED BY <1>1, <1>2 DEF SelfContained, Inv, Closed, Origins

(***************************************************************************)
(* replaceAllUsesWith before eraseFromParent, and the substitution of the  *)
(* operands: nothing dangles, and a function that has moved refers to the  *)
(* new module, operand by operand to what it referred to before, to a      *)
(* declaration of it, or to a copy of a variable with local linkage.       *)
(***************************************************************************)
THEOREM MovedIsSelfContained == Spec => []SelfContained
  BY InvAlways, InvGivesSelfContained, PTL

-----------------------------------------------------------------------------
(***************************************************************************)
(* What is declared.  MoveFunctionIntoModule copies a variable with local  *)
(* linkage or stops; CloneFunctionInto only declares it.                   *)
(***************************************************************************)
LEMMA MoveLinksBack ==
  ASSUME Inv, ClonesLinkBack, NEW f \in Traces, MoveFunctionIntoModule(f)
  PROVE  ClonesLinkBack'
<1> DEFINE uses == UsesReplaced(Named(f), f)
           news == Declares(f, original[f])
<1>1. Moved(f, uses, news) BY MoveIsMoved
<1>2. \A d \in news : \E r \in MoveSees(original[f]) : r.to = OriginOf(d)
  <2>1. original[f] \in SUBSET References(Source) BY DEF Inv, Types
  <2> QED BY <2>1, DeclaresNew DEF Inv
<1> HIDE DEF uses, news
<1>3. /\ ~CannotDeclare(original[f]) /\ f \in Source /\ f \in Objects
      /\ \A d \in news : Found(OriginOf(d)) = {}
      /\ defined' = (defined \ Named(f)) \cup CopiedVariables(news)
  BY <1>1 DEF Moved, IsNew
<1>4. /\ module'[Dest(f)] = "none"
      /\ \A o \in Objects : o \notin news /\ o # f /\ o # Dest(f) => module'[o] = module[o]
  BY <1>1 DEF Moved, ModulesAfter
<1>5. OriginOf(f) \notin Local
  BY <1>3, SourceAndDest, ObjectsAssumption
<1>6. ASSUME NEW d \in news, OriginOf(d) \in Local PROVE d \in defined'
  <2>1. PICK r \in MoveSees(original[f]) : r.to = OriginOf(d) BY <1>2
  <2>2. OriginOf(d) \in Variables BY <1>3, <1>6, <2>1 DEF CannotDeclare
  <2> QED BY <1>3, <1>6, <2>2 DEF CopiedVariables, WithLocalOrigin
<1>7. ASSUME NEW d \in Objects, module'[d] = "dest", d \notin defined'
      PROVE  OriginOf(d) \notin Local
  <2>1. CASE d = f BY <1>5, <2>1
  <2>2. CASE d \in news BY <1>6, <1>7, <2>2
  <2>3. CASE d # f /\ d \notin news
    <3>1. d # Dest(f) BY <1>4, <1>7
    <3>2. module[d] = "dest" BY <1>4, <1>7, <2>3, <3>1
    <3>3. d \notin Named(f) BY <2>3, <3>1 DEF Named
    <3>4. d \notin defined BY <1>3, <1>7, <3>3
    <3> QED BY <3>2, <3>4 DEF ClonesLinkBack, InModule
  <2> QED BY <2>1, <2>2, <2>3
<1> QED BY <1>7 DEF ClonesLinkBack, InModule

LEMMA ClonedLinksBack ==
  ASSUME Inv, ClonesLinkBack, ClonesUseNoLocal, NEW f \in Traces, NEW news,
         Cloned(f, news)
  PROVE  ClonesLinkBack'
<1>1. \A d \in news : OriginOf(d) \notin Local BY DEF Cloned, ClonesUseNoLocal
<1>2. /\ module' = [o \in Objects |->
                      IF o = Clone(f) \/ o \in news THEN "dest" ELSE module[o]]
      /\ defined' = defined \cup {Clone(f)}
  BY DEF Cloned
<1> QED BY <1>1, <1>2 DEF ClonesLinkBack, InModule

LEMMA InitLinksBack == Init => LinksBack
  BY DEF Init, LinksBack, InModule

LEMMA NextKeepsLinksBack == Inv /\ LinksBack /\ [Next]_vars => LinksBack'
<1> SUFFICES ASSUME Inv, LinksBack, [Next]_vars, ClonesUseNoLocal' PROVE ClonesLinkBack'
  BY DEF LinksBack, ClonesLinkBack
<1>1. UNCHANGED <<original, clones>>
  BY DEF Next, vars, MoveFunctionIntoModule, MoveWith, MoveAborts, Abort,
         CloneFunctionInto, CloneInModule, CloneAborts, CloneIntoOther
<1>2. ClonesUseNoLocal BY <1>1 DEF ClonesUseNoLocal
<1>3. ClonesLinkBack BY <1>2 DEF LinksBack, ClonesLinkBack
<1>4. ASSUME NEW f \in Traces, MoveFunctionIntoModule(f) PROVE ClonesLinkBack'
  BY <1>3, <1>4, MoveLinksBack
<1>5. ASSUME NEW f \in Traces, CloneInModule(f) PROVE ClonesLinkBack'
  BY <1>2, <1>3, <1>5, CloneInModuleIsCloned, ClonedLinksBack
<1>6. ASSUME NEW f \in Traces, CloneIntoOther(f) PROVE ClonesLinkBack'
  BY <1>2, <1>3, <1>6, CloneIntoOtherIsCloned, ClonedLinksBack
<1>7. ASSUME NEW f \in Traces, MoveAborts(f) \/ CloneAborts(f) PROVE ClonesLinkBack'
  BY <1>3, <1>7 DEF MoveAborts, CloneAborts, Abort, ClonesLinkBack, InModule
<1>8. CASE UNCHANGED vars BY <1>3, <1>8 DEF vars, ClonesLinkBack, InModule
<1> QED BY <1>4, <1>5, <1>6, <1>7, <1>8 DEF Next, CloneFunctionInto

(***************************************************************************)
(* What MoveFunctionIntoModule declares has a definition that can be       *)
(* linked, as long as no client clones a function that uses a global with  *)
(* local linkage.                                                          *)
(***************************************************************************)
THEOREM DeclarationsLinkBack == Spec => []LinksBack
  BY InvAlways, InitLinksBack, NextKeepsLinksBack, PTL DEF Spec

-----------------------------------------------------------------------------
(***************************************************************************)
(* The CHECKs.                                                             *)
(***************************************************************************)
\* No function is defined in the new module before it arrives.
NoneDefined == \A n \in Traces : Dest(n) \notin defined
NoCheckFails == NothingUndeclarable => ~aborted

LEMMA NextKeepsNoneDefined == Inv /\ NoneDefined /\ [Next]_vars => NoneDefined'
<1> SUFFICES ASSUME Inv, NoneDefined, [Next]_vars, NEW n \in Traces
             PROVE Dest(n) \notin defined'
  BY DEF NoneDefined
<1>1. Dest(n) \notin defined BY DEF NoneDefined
<1>2. n \in Source /\ OriginOf(Dest(n)) = n /\ n \notin Variables
  BY ObjectKinds, SourceAndDest, ObjectsAssumption
<1>3. ASSUME NEW f \in Traces, MoveFunctionIntoModule(f) PROVE Dest(n) \notin defined'
  BY <1>1, <1>2, <1>3 DEF MoveFunctionIntoModule, MoveWith, CopiedVariables
<1>4. ASSUME NEW f \in Traces, CloneFunctionInto(f) PROVE Dest(n) \notin defined'
  BY <1>1, <1>2, <1>4, CloneFacts
     DEF CloneFunctionInto, CloneInModule, CloneAborts, Abort, CloneIntoOther
<1>5. ASSUME NEW f \in Traces, MoveAborts(f) PROVE Dest(n) \notin defined'
  BY <1>1, <1>5 DEF MoveAborts, Abort
<1>6. CASE UNCHANGED vars BY <1>1, <1>6 DEF vars
<1> QED BY <1>3, <1>4, <1>5, <1>6 DEF Next

LEMMA DeclarableNeverAborts ==
  ASSUME Inv, NoneDefined, NothingUndeclarable, NEW f \in Traces
  PROVE  ~MoveAborts(f) /\ ~CloneAborts(f)
<1>1. module[f] = "source" => refs[f] = original[f]
  BY DEF Inv, Bodies
<1>2. \A r \in MoveSees(original[f]) : r.to \notin Undeclarable
  BY DEF NothingUndeclarable
<1>3. ~CannotDeclare(original[f])
  BY <1>2 DEF CannotDeclare, Undeclarable
<1>4. \A r \in CloneSees(original[f]) : r.to \notin Others
  BY <1>2 DEF Undeclarable, CloneSees, MoveSees, InForm
<1>5. Named(f) \cap defined = {} \/ module[f] = "dest"
  <2>1. f \in Source /\ Dest(f) \notin defined BY ObjectKinds DEF NoneDefined
  <2> QED BY <2>1 DEF Named
<1>6. ~MoveAborts(f) BY <1>1, <1>3, <1>5 DEF MoveAborts, Movable
<1>7. ~CloneAborts(f) BY <1>1, <1>4 DEF CloneAborts
<1> QED BY <1>6, <1>7

LEMMA NextKeepsNoCheckFails ==
  Inv /\ NoneDefined /\ NoCheckFails /\ [Next]_vars => NoCheckFails'
<1> SUFFICES ASSUME Inv, NoneDefined, NoCheckFails, [Next]_vars, NothingUndeclarable'
             PROVE ~aborted'
  BY DEF NoCheckFails
<1>1. original' = original
  BY DEF Next, vars, MoveFunctionIntoModule, MoveWith, MoveAborts, Abort,
         CloneFunctionInto, CloneInModule, CloneAborts, CloneIntoOther
<1>2. NothingUndeclarable BY <1>1 DEF NothingUndeclarable
<1>3. ~aborted BY <1>2 DEF NoCheckFails
<1>4. aborted' = aborted
  BY <1>2, DeclarableNeverAborts
     DEF Next, vars, MoveFunctionIntoModule, MoveWith, CloneFunctionInto,
         CloneInModule, CloneIntoOther
<1> QED BY <1>3, <1>4

(***************************************************************************)
(* The CHECKs and LOG(FATAL)s of MoveFunctionIntoModule, of the functions  *)
(* that declare for it and of CloneFunctionInto only fail for an operand   *)
(* that can neither be declared nor copied: a function with local linkage, *)
(* such a variable whose initializer is missing or needs relocation, an    *)
(* alias.  No order of moves and clones fails another: the safety part of  *)
(* AllMoved.                                                               *)
(***************************************************************************)
THEOREM OnlyUndeclarableAborts == Spec => []NoCheckFails
<1>1. Init => NoneDefined
  BY SourceAndDest, ObjectKinds DEF Init, NoneDefined
<1>2. Init => NoCheckFails
  BY DEF Init, NoCheckFails
<1> QED
  BY <1>1, <1>2, InvAlways, NextKeepsNoneDefined, NextKeepsNoCheckFails, PTL DEF Spec
=============================================================================
