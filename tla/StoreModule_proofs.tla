-------------------------- MODULE StoreModule_proofs --------------------------
(***************************************************************************)
(* Proofs about StoreModule: what a run that succeeds has stored, that no  *)
(* temporary file is left, and that the file changes hands in one step and *)
(* never holds a mixture where renames work (ModuleFile).                  *)
(*                                                                         *)
(* The argument follows the temporary file: its name is the run's own, its *)
(* inode is known to nobody else until it is moved to its place, and what  *)
(* is in it is known from then on only if no other run may write there.    *)
(***************************************************************************)
EXTENDS StoreModule, TLAPS

\* Where a run has not made its temporary file, or has no more of it; where it
\* has it; where it copies it; and where it may have given it away.
WithoutTmp == {"start", "no_ir", "open", "failed", "discarded", "close", "ok",
               "aborted"}
Copying == {"unlink", "open_copy", "copy", "copied"}
WithTmp == {"write", "move", "discard"} \cup Copying
Written == {"move"} \cup Copying
Past == {"close", "ok", "aborted", "copy_failed", "crashed"}
PCs == WithoutTmp \cup WithTmp \cup Past

Chunk == ((Procs \cup {Old}) \X Nat) \cup {None}

Types ==
  /\ system \in Systems
  /\ dir \in [Names -> Inodes \cup {None}]
  /\ data \in [Inodes -> Seq(Chunk)]
  /\ pc \in [Procs -> PCs]
  /\ to_fd \in [Procs -> Inodes \cup {None}]
  /\ copied \in [Procs -> Nat]
  /\ errno \in [Procs -> {0, 1}] /\ errno_copy \in [Procs -> {0, 1}]

\* The name and the descriptor of the temporary file.
TmpNames ==
  \A p \in Procs :
    /\ dir[TmpName(p)] \in {None, TmpInode(p)}
    /\ pc[p] \in WithoutTmp => dir[TmpName(p)] = None
    /\ pc[p] \in WithTmp => dir[TmpName(p)] = TmpInode(p)
    /\ pc[p] \in WithTmp \ {"copy", "copied"} => to_fd[p] = TmpInode(p)

\* Nobody else has an inode that is still temporary.
TmpIsPrivate ==
  \A p \in Procs : pc[p] \notin Past =>
    /\ dir[Out] # TmpInode(p)
    /\ \A q \in Procs : pc[q] = "copy" => to_fd[q] # TmpInode(p)

\* A copy: where renames do not work, of the bitcode that was written, with
\* the error of the rename in errno.
Copies ==
  \A p \in Procs :
    /\ pc[p] \in Written => data[TmpInode(p)] = Upto(Flushed, p)
    /\ pc[p] \in Copying => ~system.renames
    /\ pc[p] \in Copying \ {"copied"} => errno[p] = 1
    /\ errno_copy[p] # 0 => pc[p] \in {"copied", "copy_failed", "crashed"}
    /\ pc[p] = "copy" => /\ copied[p] < Flushed \/ Flushed = 0
                        /\ to_fd[p] \in Inodes

\* What a run that is the only one to have begun has in the file.
Alone(p) == \A q \in Procs \ {p} : pc[q] = "start"
NothingIsLost == system.renames \/ Flushed = Chunks
CopiedSoFar(p, k) ==
  dir[Out] \in Inodes \ {TmpInode(p)} /\ data[dir[Out]] = Upto(k, p)
SoleRun ==
  NothingIsLost => \A p \in Procs : Alone(p) =>
    /\ pc[p] = "copy" => CopiedSoFar(p, copied[p]) /\ to_fd[p] = dir[Out]
    /\ pc[p] = "copied" /\ errno_copy[p] = 0 => CopiedSoFar(p, Chunks)
    /\ pc[p] = "close" =>
         \/ CopiedSoFar(p, Chunks)
         \/ dir[Out] = TmpInode(p) /\ data[dir[Out]] = Upto(Flushed, p)
    /\ pc[p] = "ok" => dir[Out] \in Inodes /\ data[dir[Out]] = Module(p)

\* The file where it is replaced: the old one, or what a run that has got past
\* its rename has flushed so far.
HasAtLeastFlushed(p) ==
  \E k \in Flushed..Chunks : data[TmpInode(p)] = Upto(k, p)
WholeModules ==
  Replaces =>
    /\ \/ dir[Out] = <<"out", Old>>
       \/ \E p \in Procs :
            dir[Out] = TmpInode(p) /\ pc[p] \in Past /\ HasAtLeastFlushed(p)
    /\ data[<<"out", Old>>] = Module(Old)
    /\ \A p \in Procs :
         /\ pc[p] = "close" => data[TmpInode(p)] = Upto(Flushed, p)
         /\ pc[p] = "ok" => data[TmpInode(p)] = Module(p)

IInv == TmpNames /\ TmpIsPrivate /\ Copies

-----------------------------------------------------------------------------
(* Names, inodes and chunks. *)

LEMMA SystemTypes ==
  ASSUME Types
  PROVE  /\ system.runs \subseteq Procs /\ Flushed \in 0..Chunks
         /\ Flushed \in Nat /\ Chunks \in Nat \ {0}
         /\ system.renames \in BOOLEAN
BY SystemsAssumption, ChunksAssumption DEF Types, Flushed

LEMMA NamesDiffer ==
  /\ Out \in Names /\ Out \in Inodes /\ None \notin Inodes
  /\ \A p \in Procs : /\ TmpName(p) \in Names /\ TmpName(p) # Out
                      /\ TmpInode(p) \in Inodes /\ TmpInode(p) # Out
                      /\ TmpInode(p) # None
                      /\ CopyInode(p) \in Inodes /\ CopyInode(p) # None
  /\ \A p, q \in Procs : /\ p # q => TmpName(p) # TmpName(q)
                         /\ p # q => TmpInode(p) # TmpInode(q)
                         /\ CopyInode(p) # TmpInode(q)
BY NoInodeAssumption
DEF Names, Inodes, Out, TmpName, TmpInode, CopyInode

LEMMA UptoIsSequence ==
  ASSUME NEW p \in Procs \cup {Old}, NEW k \in Nat
  PROVE  /\ Upto(k, p) \in Seq(Chunk) /\ Len(Upto(k, p)) = k
         /\ DOMAIN Upto(k, p) = 1..k
         /\ \A j \in 1..k : Upto(k, p)[j] = <<p, j>>
<1>1. \A j \in 1..k : <<p, j>> \in Chunk BY DEF Chunk
<1>2. Upto(k, p) \in Seq(Chunk) BY <1>1 DEF Upto
<1> QED BY <1>2 DEF Upto

LEMMA ModuleIsUpto == \A p : Module(p) = Upto(Chunks, p)
BY DEF Module, Upto

LEMMA PutIsSequence ==
  ASSUME NEW file \in Seq(Chunk), NEW k \in Nat \ {0}, NEW c \in Chunk
  PROVE  Put(file, k, c) \in Seq(Chunk)
<1> DEFINE n == IF k > Len(file) THEN k ELSE Len(file)
           g(j) == IF j = k THEN c ELSE IF j <= Len(file) THEN file[j] ELSE None
<1>1. n \in Nat OBVIOUS
<1>2. \A j \in 1..n : g(j) \in Chunk BY DEF Chunk
<1>3. Put(file, k, c) = [j \in 1..n |-> g(j)] BY DEF Put
<1> HIDE DEF n, g
<1> QED BY <1>1, <1>2, <1>3

\* Writing the next chunk behind the first k ones.
LEMMA PutNext ==
  ASSUME NEW p \in Procs, NEW k \in Nat
  PROVE  Put(Upto(k, p), k + 1, <<p, k + 1>>) = Upto(k + 1, p)
<1>1. Len(Upto(k, p)) = k /\ \A j \in 1..k : Upto(k, p)[j] = <<p, j>>
  BY UptoIsSequence
<1> HIDE DEF Upto
<1>2. Put(Upto(k, p), k + 1, <<p, k + 1>>)
        = [j \in 1..k + 1 |-> IF j = k + 1 THEN <<p, k + 1>>
                             ELSE IF j <= k THEN Upto(k, p)[j] ELSE None]
  BY <1>1 DEF Put
<1>3. \A j \in 1..k + 1 : (IF j = k + 1 THEN <<p, k + 1>>
                           ELSE IF j <= k THEN Upto(k, p)[j] ELSE None)
                          = <<p, j>>
  BY <1>1
<1> QED BY <1>2, <1>3 DEF Upto

\* What a flush makes of a file, and of one that has what was flushed.
LEMMA RestIsSequence ==
  ASSUME Types, NEW p \in Procs, NEW file \in Seq(Chunk),
         NEW k \in Flushed..Chunks
  PROVE  WithRest(file, p, k) \in Seq(Chunk)
<1> DEFINE n == IF k > Len(file) THEN k ELSE Len(file)
           g(j) == IF j \in Flushed + 1..k THEN <<p, j>>
                   ELSE IF j <= Len(file) THEN file[j] ELSE None
<1>1. Chunks \in Nat /\ Flushed \in Nat BY SystemTypes
<1>2. n \in Nat /\ \A j \in 1..n : g(j) \in Chunk BY <1>1 DEF Chunk
<1>3. k # Flushed => WithRest(file, p, k) = [j \in 1..n |-> g(j)]
  BY DEF WithRest
<1>4. k = Flushed => WithRest(file, p, k) = file BY DEF WithRest
<1> HIDE DEF g, n
<1> QED BY <1>2, <1>3, <1>4

LEMMA RestGoesBehind ==
  ASSUME Types, NEW p \in Procs, NEW k \in Flushed..Chunks
  PROVE  WithRest(Upto(Flushed, p), p, k) = Upto(k, p)
<1>1. Chunks \in Nat /\ Flushed \in Nat /\ k \in Nat BY SystemTypes
<1>2. /\ Len(Upto(Flushed, p)) = Flushed
      /\ \A j \in 1..Flushed : Upto(Flushed, p)[j] = <<p, j>>
  BY <1>1, UptoIsSequence
<1>3. CASE k = Flushed BY <1>3 DEF WithRest
<1>4. CASE k # Flushed
  <2> DEFINE file == Upto(Flushed, p)
             g(j) == IF j \in Flushed + 1..k THEN <<p, j>>
                     ELSE IF j <= Len(file) THEN file[j] ELSE None
  <2>1. \A j \in 1..k : g(j) = <<p, j>> BY <1>1, <1>2
  <2>2. WithRest(file, p, k) = [j \in 1..k |-> g(j)]
    BY <1>1, <1>2, <1>4 DEF WithRest
  <2> HIDE DEF g
  <2> QED BY <2>1, <2>2, Zenon DEF Upto
<1> QED BY <1>3, <1>4

LEMMA LastsAreChunks ==
  ASSUME Types PROVE Chunks \in Flushed..Chunks /\ Flushed \in Flushed..Chunks
BY SystemTypes

-----------------------------------------------------------------------------
(* Types. *)

\* The steps that only move a run on.
OnlyGoesOn(p) == \/ StoreIR(p) \/ VerifyFails(p) \/ OpenFails(p)
                 \/ OpenCopyFails(p) \/ Crash(p)

LEMMA GoesOnly ==
  ASSUME Types, NEW p \in Procs, OnlyGoesOn(p)
  PROVE  /\ UNCHANGED <<dir, data, to_fd, copied, errno, errno_copy>>
         /\ pc' = [pc EXCEPT ![p] = pc'[p]]
         /\ \A q \in Procs \ {p} : pc'[q] = pc[q]
         /\ pc'[p] \in {"open", "no_ir", "failed", "aborted", "copy_failed",
                       "crashed"}
         /\ pc[p] \in {"start", "open"} \/ pc'[p] \in {"copy_failed", "crashed"}
         /\ pc'[p] \in {"failed", "aborted"} => pc[p] = "open"
         /\ pc'[p] = "copy_failed" => pc[p] = "open_copy"
         /\ pc[p] # "ok"
BY DEF Types, OnlyGoesOn, StoreIR, VerifyFails, OpenFails, OpenCopyFails,
       Crash, Ended, Goto

\* The steps of the stream's destructor.
Destroys(p) == Close(p) \/ CloseFails(p)

LEMMA DestroyOnly ==
  ASSUME Types, NEW p \in Procs, Destroys(p)
  PROVE  /\ UNCHANGED <<dir, to_fd, copied, errno, errno_copy>>
         /\ pc[p] = "close" /\ pc'[p] \in {"ok", "aborted"}
         /\ pc' = [pc EXCEPT ![p] = pc'[p]]
         /\ \A q \in Procs \ {p} : pc'[q] = pc[q]
         /\ \E k \in Flushed..Chunks :
              /\ data' = [data EXCEPT ![TmpInode(p)] =
                             WithRest(data[TmpInode(p)], p, k)]
              /\ pc'[p] = "ok" => k = Chunks
BY LastsAreChunks DEF Types, Destroys, Close, CloseFails, Flush, Goto

LEMMA TypesInitially == Init => Types
<1> SUFFICES ASSUME Init PROVE Types OBVIOUS
<1>1. Module(Old) \in Seq(Chunk) /\ <<>> \in Seq(Chunk)
  BY ChunksAssumption, ModuleIsUpto, UptoIsSequence
<1> QED BY <1>1 DEF Init, Types, PCs, WithoutTmp, Inodes

LEMMA TypesInductive == Types /\ IInv /\ [Next]_vars => Types'
<1> SUFFICES ASSUME Types, IInv, Next PROVE Types'
  BY DEF Types, vars
<1>1. PICK p \in system.runs : (Step(p) \/ Crash(p)) /\ UNCHANGED system
  BY DEF Next
<1>2. p \in Procs BY SystemTypes
<1> USE DEF Types, Goto, Linked, PCs, WithoutTmp, WithTmp, Copying, Past
<1>3. CASE OnlyGoesOn(p)
  <2>1. PICK to \in PCs : pc' = [pc EXCEPT ![p] = to]
    BY <1>2, <1>3, GoesOnly
  <2>2. UNCHANGED <<dir, data, to_fd, copied, errno, errno_copy>>
    BY <1>2, <1>3, GoesOnly
  <2> QED BY <1>1, <1>2, <2>1, <2>2
<1>4. CASE Open(p)
  <2>1. to_fd'[p] \in Inodes /\ to_fd' \in [Procs -> Inodes \cup {None}]
    BY <1>2, <1>4, NamesDiffer DEF Open
  <2>2. dir' \in [Names -> Inodes \cup {None}]
    BY <1>2, <1>4, NamesDiffer DEF Open
  <2> QED BY <1>1, <1>2, <1>4, <2>1, <2>2 DEF Open
<1>5. CASE WriteBitcode(p)
  <2>1. Upto(Flushed, p) \in Seq(Chunk) BY <1>2, SystemTypes, UptoIsSequence
  <2> QED BY <1>1, <1>2, <1>5, <2>1 DEF WriteBitcode
<1>6. CASE WriteError(p)
  <2>1. \A k \in 0..Flushed - 1 : Upto(k, p) \in Seq(Chunk)
    BY <1>2, SystemTypes, UptoIsSequence
  <2> QED BY <1>1, <1>2, <1>6, <2>1 DEF WriteError
<1>7. CASE Discard(p) BY <1>1, <1>2, <1>7 DEF Discard
<1>8. CASE Rename(p) BY <1>1, <1>2, <1>8, NamesDiffer DEF Rename
<1>9. CASE RenameFails(p) BY <1>1, <1>2, <1>9 DEF RenameFails
<1>10. CASE Unlink(p) BY <1>1, <1>2, <1>10 DEF Unlink
<1>11. CASE OpenCopy(p)
  <2>1. dir' \in [Names -> Inodes \cup {None}] /\ dir'[Out] \in Inodes
    BY <1>2, <1>11, NamesDiffer DEF OpenCopy
  <2> QED BY <1>1, <1>2, <1>11, <2>1 DEF OpenCopy
<1>12. CASE CopyChunk(p)
  <2>1. copied[p] + 1 \in Nat \ {0} /\ to_fd[p] \in Inodes
        /\ dir[TmpName(p)] = TmpInode(p)
        /\ data[TmpInode(p)] = Upto(Flushed, p)
        /\ (copied[p] < Flushed \/ Flushed = 0)
    BY <1>2, <1>12 DEF CopyChunk, CopyTo, IInv, TmpNames, Copies, Written
  <2>2. /\ Upto(Flushed, p) \in Seq(Chunk) /\ Len(Upto(Flushed, p)) = Flushed
        /\ Flushed \in Nat
    BY <1>2, SystemTypes, UptoIsSequence
  <2>3. data' \in [Inodes -> Seq(Chunk)]
    <3>1. CASE data[TmpInode(p)] = <<>>
      BY <1>12, <2>1, <3>1 DEF CopyChunk, CopyTo
    <3>2. CASE data[TmpInode(p)] # <<>>
      <4>1. copied[p] + 1 \in 1..Flushed
        BY <1>2, <2>1, <2>2, <3>2
      <4>2. Upto(Flushed, p)[copied[p] + 1] \in Chunk BY <2>2, <4>1
      <4>3. data[to_fd[p]] \in Seq(Chunk) BY <2>1
      <4>4. Put(data[to_fd[p]], copied[p] + 1, Upto(Flushed, p)[copied[p] + 1])
              \in Seq(Chunk)
        BY <2>1, <4>2, <4>3, PutIsSequence
      <4>5. data' = [data EXCEPT ![to_fd[p]] =
                       Put(data[to_fd[p]], copied[p] + 1,
                           Upto(Flushed, p)[copied[p] + 1])]
        BY <1>12, <2>1, <3>2 DEF CopyChunk, CopyTo
      <4> QED BY <4>4, <4>5
    <3> QED BY <3>1, <3>2
  <2> QED BY <1>1, <1>2, <1>12, <2>1, <2>3 DEF CopyChunk, CopyTo
<1>13. CASE ShortWrite(p) BY <1>1, <1>2, <1>13 DEF ShortWrite
<1>14. CASE CopyFails(p) BY <1>1, <1>2, <1>14 DEF CopyFails
<1>15. CASE RemoveTmp(p) BY <1>1, <1>2, <1>15 DEF RemoveTmp
<1>16. CASE Destroys(p)
  <2>1. PICK k \in Flushed..Chunks :
          data' = [data EXCEPT ![TmpInode(p)] =
                     WithRest(data[TmpInode(p)], p, k)]
    BY <1>2, <1>16, DestroyOnly
  <2>2. WithRest(data[TmpInode(p)], p, k) \in Seq(Chunk)
    BY <1>2, NamesDiffer, RestIsSequence
  <2>3. data' \in [Inodes -> Seq(Chunk)] BY <1>2, <2>1, <2>2, NamesDiffer
  <2>4. pc' \in [Procs -> PCs] BY <1>2, <1>16, DestroyOnly
  <2> QED BY <1>1, <1>2, <1>16, <2>3, <2>4, DestroyOnly
<1> QED
  BY <1>1, <1>3, <1>4, <1>5, <1>6, <1>7, <1>8, <1>9, <1>10, <1>11, <1>12,
     <1>13, <1>14, <1>15, <1>16 DEF Step, OnlyGoesOn, Destroys

-----------------------------------------------------------------------------
(* The temporary file. *)

LEMMA InvInitially == Init => IInv
<1> SUFFICES ASSUME Init PROVE IInv OBVIOUS
<1>1. TmpNames BY NamesDiffer DEF Init, TmpNames, WithTmp, Copying
<1>2. TmpIsPrivate BY NamesDiffer DEF Init, TmpIsPrivate, Out
<1>3. Copies BY DEF Init, Copies, Written, Copying
<1> QED BY <1>1, <1>2, <1>3 DEF IInv

\* A name belongs to one run, which knows whether it has it.
LEMMA TmpNamesInductive ==
  ASSUME Types, IInv, NEW p \in Procs, Step(p) \/ Crash(p)
  PROVE  TmpNames'
<1> SUFFICES ASSUME NEW q \in Procs PROVE
      /\ dir'[TmpName(q)] \in {None, TmpInode(q)}
      /\ pc'[q] \in WithoutTmp => dir'[TmpName(q)] = None
      /\ pc'[q] \in WithTmp => dir'[TmpName(q)] = TmpInode(q)
      /\ pc'[q] \in WithTmp \ {"copy", "copied"} => to_fd'[q] = TmpInode(q)
  BY DEF TmpNames, TmpName, TmpInode
<1> USE NamesDiffer
    DEF Types, IInv, TmpNames, WithoutTmp, WithTmp, Copying, Goto, Linked
<1>1. CASE OnlyGoesOn(p) BY <1>1, GoesOnly
<1>2. CASE Open(p) BY <1>2 DEF Open
<1>3. CASE WriteBitcode(p) BY <1>3 DEF WriteBitcode
<1>4. CASE WriteError(p) BY <1>4 DEF WriteError
<1>5. CASE Discard(p) BY <1>5 DEF Discard
<1>6. CASE Rename(p) BY <1>6 DEF Rename
<1>7. CASE RenameFails(p) BY <1>7 DEF RenameFails
<1>8. CASE Unlink(p) BY <1>8 DEF Unlink
<1>9. CASE OpenCopy(p) BY <1>9 DEF OpenCopy
<1>10. CASE CopyChunk(p) BY <1>10 DEF CopyChunk, CopyTo
<1>11. CASE ShortWrite(p) BY <1>11 DEF ShortWrite
<1>12. CASE CopyFails(p) BY <1>12 DEF CopyFails
<1>13. CASE RemoveTmp(p) BY <1>13 DEF RemoveTmp
<1>14. CASE Destroys(p) BY <1>14, DestroyOnly
<1> QED
  BY <1>1, <1>2, <1>3, <1>4, <1>5, <1>6, <1>7, <1>8, <1>9, <1>10, <1>11,
     <1>12, <1>13, <1>14 DEF Step, OnlyGoesOn, Destroys

\* An inode is moved to the file when its run has nothing more to write but
\* the rest; another run that opens the file gets no inode before that.
LEMMA TmpIsPrivateInductive ==
  ASSUME Types, IInv, NEW p \in Procs, Step(p) \/ Crash(p)
  PROVE  TmpIsPrivate'
<1> SUFFICES ASSUME NEW q \in Procs, pc'[q] \notin Past PROVE
      /\ dir'[Out] # TmpInode(q)
      /\ \A r \in Procs : pc'[r] = "copy" => to_fd'[r] # TmpInode(q)
  BY DEF TmpIsPrivate, Out, TmpInode
<1>0. pc[q] \notin Past
  BY DEF Step, Crash, Types, Past, Ended, Goto, StoreIR, VerifyFails, OpenFails,
         Open, WriteBitcode, WriteError, Discard, Rename, RenameFails, Unlink,
         OpenCopy, OpenCopyFails, CopyChunk, CopyTo, ShortWrite, CopyFails,
         RemoveTmp, Close, CloseFails
<1> USE NamesDiffer DEF Types, IInv, TmpIsPrivate, Past, Goto, Linked
<1>1. CASE OnlyGoesOn(p)
  <2>1. pc'[p] # "copy" /\ UNCHANGED <<dir, to_fd>> BY <1>1, GoesOnly
  <2>2. \A r \in Procs : pc'[r] = "copy" => pc[r] = "copy"
    BY <1>1, <2>1, GoesOnly
  <2> QED BY <1>0, <2>1, <2>2
<1>2. CASE Open(p) BY <1>0, <1>2 DEF Open
<1>3. CASE WriteBitcode(p) BY <1>0, <1>3 DEF WriteBitcode
<1>4. CASE WriteError(p) BY <1>0, <1>4 DEF WriteError
<1>5. CASE Discard(p) BY <1>0, <1>5 DEF Discard
<1>6. CASE Rename(p)
  <2>1. dir[TmpName(p)] = TmpInode(p) /\ pc'[p] = "close"
    BY <1>6 DEF Rename, TmpNames, WithTmp
  <2> QED BY <1>0, <1>6, <2>1 DEF Rename
<1>7. CASE RenameFails(p) BY <1>0, <1>7 DEF RenameFails
<1>8. CASE Unlink(p) BY <1>0, <1>8 DEF Unlink
<1>9. CASE OpenCopy(p)
  <2>1. dir'[Out] = CopyInode(p) \/ dir'[Out] = dir[Out]
    BY <1>9 DEF OpenCopy
  <2> QED BY <1>0, <1>9, <2>1 DEF OpenCopy
<1>10. CASE CopyChunk(p) BY <1>0, <1>10 DEF CopyChunk, CopyTo
<1>11. CASE ShortWrite(p) BY <1>0, <1>11 DEF ShortWrite
<1>12. CASE CopyFails(p) BY <1>0, <1>12 DEF CopyFails
<1>13. CASE RemoveTmp(p) BY <1>0, <1>13 DEF RemoveTmp
<1>14. CASE Destroys(p)
  <2>1. dir' = dir /\ to_fd' = to_fd /\ pc'[p] # "copy"
    BY <1>14, DestroyOnly
  <2>2. \A r \in Procs : pc'[r] = "copy" => pc[r] = "copy"
    BY <1>14, <2>1, DestroyOnly
  <2> QED BY <1>0, <2>1, <2>2
<1> QED
  BY <1>1, <1>2, <1>3, <1>4, <1>5, <1>6, <1>7, <1>8, <1>9, <1>10, <1>11,
     <1>12, <1>13, <1>14 DEF Step, OnlyGoesOn, Destroys

\* An inode that is still temporary has what its run wrote, until it is copied.
LEMMA CopiesInductive ==
  ASSUME Types, IInv, NEW p \in Procs, Step(p) \/ Crash(p), UNCHANGED system
  PROVE  Copies'
<1> DEFINE CopiesOf(q) ==
      /\ pc[q] \in Written => data[TmpInode(q)] = Upto(Flushed, q)
      /\ pc[q] \in Copying => ~system.renames
      /\ pc[q] \in Copying \ {"copied"} => errno[q] = 1
      /\ errno_copy[q] # 0 => pc[q] \in {"copied", "copy_failed", "crashed"}
      /\ pc[q] = "copy" => /\ copied[q] < Flushed \/ Flushed = 0
                          /\ to_fd[q] \in Inodes
<1> SUFFICES ASSUME NEW q \in Procs PROVE CopiesOf(q)'
  BY DEF Copies, Upto, Flushed, TmpInode
<1>0. /\ CopiesOf(q) /\ Flushed' = Flushed
      /\ \A k : Upto(k, q)' = Upto(k, q)
      /\ TmpInode(q)' = TmpInode(q) /\ system' = system
  BY DEF IInv, Copies, Upto, Flushed, TmpInode
<1> USE NamesDiffer
    DEF Types, IInv, Written, Copying, Goto, Linked
<1>1. CASE OnlyGoesOn(p) BY <1>0, <1>1, GoesOnly
<1>2. CASE Open(p)
  <2>1. pc[p] = "open" /\ to_fd'[p] = TmpInode(p)
    BY <1>2 DEF Open, TmpNames, WithoutTmp
  <2> QED BY <1>0, <1>2, <2>1 DEF Open
<1>3. CASE WriteBitcode(p)
  <2>1. to_fd[p] = TmpInode(p) BY <1>3 DEF WriteBitcode, TmpNames, WithTmp
  <2> QED BY <1>0, <1>3, <2>1 DEF WriteBitcode
<1>4. CASE WriteError(p)
  <2>1. to_fd[p] = TmpInode(p) BY <1>4 DEF WriteError, TmpNames, WithTmp
  <2> QED BY <1>0, <1>4, <2>1 DEF WriteError
<1>5. CASE Discard(p) BY <1>0, <1>5 DEF Discard
<1>6. CASE Rename(p) BY <1>0, <1>6 DEF Rename
<1>7. CASE RenameFails(p)
  <2>1. dir[TmpName(p)] = TmpInode(p)
    BY <1>7 DEF RenameFails, TmpNames, WithTmp
  <2> QED BY <1>0, <1>7, <2>1 DEF RenameFails
<1>8. CASE Unlink(p) BY <1>0, <1>8 DEF Unlink
<1>9. CASE OpenCopy(p)
  <2>1. dir'[Out] = CopyInode(p) \/ (dir'[Out] = dir[Out] /\ dir[Out] # None)
    BY <1>9 DEF OpenCopy
  <2>2. pc[q] \in Written => dir'[Out] # TmpInode(q)
    BY <2>1 DEF TmpIsPrivate, Past
  <2>3. dir'[Out] \in Inodes BY <2>1
  <2>4. Flushed \in Nat BY SystemTypes
  <2> QED BY <1>0, <1>9, <2>2, <2>3, <2>4 DEF OpenCopy
<1>10. CASE CopyChunk(p)
  <2>1. pc[q] \in Written => to_fd[p] # TmpInode(q)
    BY <1>10 DEF CopyChunk, CopyTo, TmpIsPrivate, Past
  <2>2. dir[TmpName(p)] = TmpInode(p) /\ data[TmpInode(p)] = Upto(Flushed, p)
    BY <1>10 DEF CopyChunk, CopyTo, TmpNames, WithTmp, Copies
  <2>3. SourceSize(p) = Flushed /\ Flushed \in Nat
    BY <2>2, SystemTypes, UptoIsSequence DEF SourceSize
  <2>4. CopiesOf(q)!1' BY <1>0, <1>10, <2>1 DEF CopyChunk, CopyTo
  <2>5. pc'[q] = "copy" => copied'[q] < Flushed' \/ Flushed' = 0
    BY <1>0, <1>10, <2>3 DEF CopyChunk, CopyTo
  <2> QED BY <1>0, <1>10, <2>4, <2>5 DEF CopyChunk, CopyTo
<1>11. CASE ShortWrite(p) BY <1>0, <1>11 DEF ShortWrite
<1>12. CASE CopyFails(p) BY <1>0, <1>12 DEF CopyFails
<1>13. CASE RemoveTmp(p) BY <1>0, <1>13 DEF RemoveTmp
<1>14. CASE Destroys(p) BY <1>0, <1>14, DestroyOnly
<1> QED
  BY <1>1, <1>2, <1>3, <1>4, <1>5, <1>6, <1>7, <1>8, <1>9, <1>10, <1>11,
     <1>12, <1>13, <1>14 DEF Step, OnlyGoesOn, Destroys

LEMMA Invariant == Spec => [](Types /\ IInv)
<1>1. Types /\ IInv /\ [Next]_vars => IInv'
  <2> SUFFICES ASSUME Types, IInv, [Next]_vars PROVE IInv' OBVIOUS
  <2>1. CASE UNCHANGED vars
    BY <2>1 DEF vars, IInv, TmpNames, TmpIsPrivate, Copies, Flushed, Upto,
       TmpName, TmpInode, Out
  <2>2. CASE Next
    <3>1. PICK p \in system.runs : (Step(p) \/ Crash(p)) /\ UNCHANGED system
      BY <2>2 DEF Next
    <3> QED BY <3>1, SystemTypes, TmpNamesInductive, TmpIsPrivateInductive,
               CopiesInductive DEF IInv
  <2> QED BY <2>1, <2>2
<1> QED BY <1>1, TypesInitially, TypesInductive, InvInitially, PTL DEF Spec

(***************************************************************************)
(* However it ends and whatever else runs, a run has no temporary file     *)
(* left, unless it crashed or its CopyFile failed: a rename or RemoveFile  *)
(* was the last thing it did to its name.                                  *)
(***************************************************************************)
THEOREM NoTmpIsLeft == Spec => []NoTmpLeft
<1>1. IInv => NoTmpLeft BY DEF IInv, TmpNames, WithoutTmp, NoTmpLeft, Ended
<1> QED BY <1>1, Invariant, PTL

-----------------------------------------------------------------------------
(* A run that nobody disturbs. *)

LEMMA RunMoves ==
  ASSUME Types, NEW p \in Procs, Step(p) \/ Crash(p)
  PROVE  /\ pc'[p] # "start"
         /\ \A q \in Procs \ {p} : pc'[q] = pc[q]
BY DEF Types, Step, Crash, Ended, Goto, StoreIR, VerifyFails, OpenFails, Open,
       WriteBitcode, WriteError, Discard, Rename, RenameFails, Unlink, OpenCopy,
       OpenCopyFails, CopyChunk, CopyTo, ShortWrite, CopyFails, RemoveTmp,
       Close, CloseFails

LEMMA SoleRunInitially == Init => SoleRun
BY DEF Init, SoleRun

LEMMA SoleRunInductive ==
  ASSUME Types, IInv, SoleRun, NEW p \in Procs, Step(p) \/ Crash(p),
         UNCHANGED system
  PROVE  SoleRun'
<1> DEFINE Sole(q) ==
      /\ pc[q] = "copy" => CopiedSoFar(q, copied[q]) /\ to_fd[q] = dir[Out]
      /\ pc[q] = "copied" /\ errno_copy[q] = 0 => CopiedSoFar(q, Chunks)
      /\ pc[q] = "close" =>
           \/ CopiedSoFar(q, Chunks)
           \/ dir[Out] = TmpInode(q) /\ data[dir[Out]] = Upto(Flushed, q)
      /\ pc[q] = "ok" => dir[Out] \in Inodes /\ data[dir[Out]] = Module(q)
<1> SUFFICES ASSUME NothingIsLost, Alone(p)' PROVE Sole(p)'
  <2>1. \A q \in Procs : Alone(q)' => q = p BY RunMoves DEF Alone
  <2>2. NothingIsLost' => NothingIsLost BY DEF NothingIsLost, Flushed
  <2> QED BY <2>1, <2>2 DEF SoleRun
<1>0. Sole(p)
  <2>1. Alone(p) BY RunMoves DEF Alone
  <2> QED BY <2>1 DEF SoleRun
<1>1. /\ Flushed' = Flushed /\ Out' = Out /\ TmpInode(p)' = TmpInode(p)
      /\ Module(p)' = Module(p) /\ \A k : Upto(k, p)' = Upto(k, p)
      /\ Inodes' = Inodes
  BY DEF Flushed, Out, TmpInode, Module, Upto, Inodes, CopyInode
<1>2. /\ Flushed \in Nat /\ Chunks \in Nat \ {0}
      /\ ~system.renames => Flushed = Chunks
  BY SystemTypes DEF NothingIsLost
<1> USE NamesDiffer DEF Types, Goto, Linked
<1>3. CASE pc'[p] \notin {"copy", "copied", "close", "ok"} BY <1>3
<1>4. CASE Rename(p)
  <2>1. dir[TmpName(p)] = TmpInode(p) /\ data[TmpInode(p)] = Upto(Flushed, p)
    BY <1>4 DEF Rename, IInv, TmpNames, WithTmp, Copies, Written
  <2> QED BY <1>1, <1>4, <2>1 DEF Rename
<1>5. CASE OpenCopy(p)
  <2>1. dir'[Out] = CopyInode(p) \/ (dir'[Out] = dir[Out] /\ dir[Out] # None)
    BY <1>5 DEF OpenCopy
  <2>2. dir'[Out] \in Inodes \ {TmpInode(p)}
    BY <1>5, <2>1 DEF OpenCopy, IInv, TmpIsPrivate, Past
  <2>3. Upto(0, p) = <<>> BY UptoIsSequence
  <2> QED BY <1>1, <1>5, <2>2, <2>3 DEF OpenCopy, CopiedSoFar
\* Each chunk is put behind those that are there.
<1>6. CASE CopyChunk(p)
  <2>1. /\ dir[TmpName(p)] = TmpInode(p)
        /\ data[TmpInode(p)] = Upto(Flushed, p) /\ ~system.renames
        /\ copied[p] \in Nat /\ copied[p] < Flushed
    BY <1>2, <1>6 DEF CopyChunk, CopyTo, IInv, TmpNames, WithTmp, Copies,
       Written, Copying
  <2>2. /\ Len(Upto(Flushed, p)) = Flushed
        /\ Upto(Flushed, p)[copied[p] + 1] = <<p, copied[p] + 1>>
        /\ Upto(Flushed, p) # <<>>
    <3>1. copied[p] + 1 \in 1..Flushed /\ Len(<<>>) # Flushed BY <1>2, <2>1
    <3> QED BY <1>2, <3>1, UptoIsSequence
  <2>3. /\ to_fd[p] = dir[Out] /\ dir[Out] \in Inodes \ {TmpInode(p)}
        /\ data[dir[Out]] = Upto(copied[p], p) /\ pc[p] = "copy"
    BY <1>0, <1>6 DEF CopyChunk, CopyTo, CopiedSoFar
  <2>4. data'[dir[Out]] = Put(Upto(copied[p], p), copied[p] + 1,
                              <<p, copied[p] + 1>>)
    BY <1>6, <2>1, <2>2, <2>3 DEF CopyChunk, CopyTo
  <2>5. data'[dir[Out]] = Upto(copied[p] + 1, p) BY <2>1, <2>4, PutNext
  <2>6. /\ dir' = dir /\ to_fd' = to_fd /\ copied'[p] = copied[p] + 1
        /\ \/ pc'[p] = "copy"
           \/ pc'[p] = "copied" /\ copied[p] + 1 = Chunks
    <3>1. SourceSize(p) = Flushed BY <2>1, <2>2 DEF SourceSize
    <3>2. /\ dir' = dir /\ to_fd' = to_fd /\ copied'[p] = copied[p] + 1
          /\ pc'[p] = IF copied[p] + 1 >= Flushed THEN "copied" ELSE "copy"
      BY <1>6, <3>1 DEF CopyChunk, CopyTo
    <3> QED BY <1>2, <2>1, <3>2
  <2> QED BY <1>1, <2>3, <2>5, <2>6 DEF CopiedSoFar
<1>7. CASE ShortWrite(p)
  <2>1. errno[p] = 1
    BY <1>7 DEF ShortWrite, IInv, Copies, Copying
  <2> QED BY <1>7, <2>1 DEF ShortWrite
<1>8. CASE RemoveTmp(p)
  <2>1. CopiedSoFar(p, Chunks) BY <1>0, <1>8 DEF RemoveTmp
  <2>2. dir'[Out] = dir[Out] /\ data' = data /\ pc'[p] = "close"
    BY <1>8 DEF RemoveTmp
  <2> QED BY <1>1, <2>1, <2>2 DEF CopiedSoFar
<1>9. CASE Close(p)
  <2>1. data' = [data EXCEPT ![TmpInode(p)] =
                   WithRest(data[TmpInode(p)], p, Chunks)]
    BY <1>9 DEF Close, Flush
  <2>2. dir' = dir /\ pc[p] = "close" /\ pc'[p] = "ok" BY <1>9 DEF Close
  <2>3. CASE CopiedSoFar(p, Chunks)
    BY <1>1, <2>1, <2>2, <2>3, ModuleIsUpto DEF CopiedSoFar
  <2>4. CASE dir[Out] = TmpInode(p) /\ data[dir[Out]] = Upto(Flushed, p)
    <3>1. WithRest(data[TmpInode(p)], p, Chunks) = Module(p)
      BY <2>4, RestGoesBehind, LastsAreChunks, ModuleIsUpto
    <3> QED BY <1>1, <2>1, <2>2, <2>4, <3>1
  <2> QED BY <1>0, <2>2, <2>3, <2>4
<1>10. \/ pc'[p] \notin {"copy", "copied", "close", "ok"}
       \/ Rename(p) \/ OpenCopy(p) \/ CopyChunk(p) \/ ShortWrite(p)
       \/ RemoveTmp(p) \/ Close(p)
  BY DEF Step, Crash, StoreIR, VerifyFails, OpenFails, Open, WriteBitcode,
     WriteError, Discard, RenameFails, Unlink, OpenCopyFails, CopyFails,
     CloseFails
<1> QED BY <1>3, <1>4, <1>5, <1>6, <1>7, <1>8, <1>9, <1>10

(***************************************************************************)
(* A run that returns true, while no other has begun, has stored all of    *)
(* its module, by the rename or by the copy that replaces it, for modules  *)
(* of every length: no chunk is left out, and the rest that is flushed     *)
(* last goes to the file that is in place by then.                         *)
(***************************************************************************)
THEOREM SuccessIsStored == Spec => []SuccessMeansStored
<1>1. Types /\ IInv /\ SoleRun /\ [Next]_vars => SoleRun'
  <2> SUFFICES ASSUME Types, IInv, SoleRun, [Next]_vars PROVE SoleRun' OBVIOUS
  <2>1. CASE UNCHANGED vars
    BY <2>1 DEF vars, SoleRun, NothingIsLost, Alone, CopiedSoFar, Flushed,
       Upto, Module, TmpInode, Out, Inodes, CopyInode
  <2>2. CASE Next
    <3>1. PICK p \in system.runs : (Step(p) \/ Crash(p)) /\ UNCHANGED system
      BY <2>2 DEF Next
    <3> QED BY <3>1, SystemTypes, SoleRunInductive
  <2> QED BY <2>1, <2>2
<1>2. SoleRun => SuccessMeansStored
  BY NamesDiffer DEF SoleRun, SuccessMeansStored, NothingIsLost, Alone
<1> QED BY <1>1, <1>2, SoleRunInitially, Invariant, PTL DEF Spec

-----------------------------------------------------------------------------
(* Where renames work, the file is replaced in one step. *)

LEMMA WholeModulesInitially == Init => WholeModules
BY DEF Init, WholeModules, Out, Names, Inodes

\* The steps that readers of the file see nothing of.
Elsewhere(p) ==
  /\ dir'[Out] = dir[Out] /\ data'[Out] = data[Out]
  /\ \A q \in Procs : pc[q] \in Past => data'[TmpInode(q)] = data[TmpInode(q)]
  /\ ~Ended(p) /\ pc'[p] \notin {"close", "ok"}
  /\ pc[p] = "close" => pc'[p] = "crashed"
  /\ \A q \in Procs \ {p} : pc'[q] = pc[q]

LEMMA StepKinds ==
  ASSUME Types, IInv, Replaces, NEW p \in Procs, Step(p) \/ Crash(p)
  PROVE  Rename(p) \/ Destroys(p) \/ Elsewhere(p)
<1>1. system.renames /\ pc[p] \notin Copying
  BY DEF Replaces, IInv, Copies
<1> USE NamesDiffer DEF Types, Goto, Linked, Elsewhere, Ended, Past
<1>2. CASE OnlyGoesOn(p)
  <2>1. ~Ended(p)
    BY <1>2 DEF OnlyGoesOn, StoreIR, VerifyFails, OpenFails, OpenCopyFails, Crash
  <2> QED BY <1>1, <1>2, <2>1, GoesOnly
<1>3. CASE Open(p)
  <2>1. to_fd'[p] = TmpInode(p) /\ dir'[Out] = dir[Out]
    BY <1>3 DEF Open, IInv, TmpNames, WithoutTmp
  <2> QED BY <1>3, <2>1 DEF Open
<1>4. CASE WriteBitcode(p)
  <2>1. to_fd[p] = TmpInode(p)
    BY <1>4 DEF WriteBitcode, IInv, TmpNames, WithTmp
  <2> QED BY <1>4, <2>1 DEF WriteBitcode
<1>5. CASE WriteError(p)
  <2>1. to_fd[p] = TmpInode(p)
    BY <1>5 DEF WriteError, IInv, TmpNames, WithTmp
  <2> QED BY <1>5, <2>1 DEF WriteError
<1>6. CASE Discard(p) BY <1>6 DEF Discard
\* The rename does not fail, so nothing is copied.
<1>7. CASE RenameFails(p)
  BY <1>1, <1>7 DEF RenameFails, IInv, TmpNames, WithTmp
<1>8. CASE \/ Unlink(p) \/ OpenCopy(p) \/ CopyChunk(p) \/ ShortWrite(p)
           \/ CopyFails(p) \/ RemoveTmp(p)
  BY <1>1, <1>8 DEF Unlink, OpenCopy, CopyChunk, CopyTo, ShortWrite,
     CopyFails, RemoveTmp, Copying
<1> QED
  BY <1>2, <1>3, <1>4, <1>5, <1>6, <1>7, <1>8
  DEF Step, OnlyGoesOn, Destroys

LEMMA WholeModulesInductive ==
  ASSUME Types, IInv, WholeModules, NEW p \in Procs, Step(p) \/ Crash(p),
         UNCHANGED system
  PROVE  WholeModules'
<1> SUFFICES ASSUME Replaces PROVE WholeModules'
  BY DEF WholeModules, Replaces
<1> DEFINE Seen(q) == /\ dir[Out] = TmpInode(q) /\ pc[q] \in Past
                      /\ \E k \in Flushed..Chunks : data[TmpInode(q)] = Upto(k, q)
<1>1. /\ Flushed' = Flushed /\ Out' = Out /\ Module(Old)' = Module(Old)
      /\ \A q : TmpInode(q)' = TmpInode(q) /\ Module(q)' = Module(q)
      /\ \A k, q : Upto(k, q)' = Upto(k, q)
  BY DEF Flushed, Out, TmpInode, Module, Upto
<1>2. /\ dir[Out] = Out \/ \E q \in Procs : Seen(q)
      /\ data[Out] = Module(Old)
      /\ \A q \in Procs :
           /\ pc[q] = "close" => data[TmpInode(q)] = Upto(Flushed, q)
           /\ pc[q] = "ok" => data[TmpInode(q)] = Module(q)
  BY DEF WholeModules, HasAtLeastFlushed, Out
<1> SUFFICES
      /\ dir'[Out] = Out \/ \E q \in Procs : Seen(q)'
      /\ data'[Out] = Module(Old)
      /\ \A q \in Procs :
           /\ pc'[q] = "close" => data'[TmpInode(q)] = Upto(Flushed, q)
           /\ pc'[q] = "ok" => data'[TmpInode(q)] = Module(q)
  BY <1>1 DEF WholeModules, HasAtLeastFlushed, Out
<1> USE NamesDiffer DEF Types
<1>3. CASE Elsewhere(p)
  <2>1. ASSUME NEW q \in Procs, Seen(q) PROVE Seen(q)'
    <3>1. pc'[q] \in Past /\ data'[TmpInode(q)] = data[TmpInode(q)]
      BY <1>3, <2>1 DEF Elsewhere, Ended, Past
    <3> QED BY <1>1, <1>3, <2>1, <3>1 DEF Elsewhere
  <2>2. ASSUME NEW q \in Procs, pc'[q] \in {"close", "ok"}
        PROVE  pc'[q] = pc[q] /\ data'[TmpInode(q)] = data[TmpInode(q)]
    BY <1>3, <2>2 DEF Elsewhere, Past
  <2> HIDE DEF Seen
  <2> QED BY <1>2, <1>3, <2>1, <2>2 DEF Elsewhere
<1>4. CASE Rename(p)
  <2>1. dir[TmpName(p)] = TmpInode(p) /\ data[TmpInode(p)] = Upto(Flushed, p)
    BY <1>4 DEF Rename, Goto, IInv, TmpNames, WithTmp, Copies, Written
  <2>2. /\ dir'[Out] = TmpInode(p) /\ pc'[p] = "close" /\ data' = data
        /\ \A q \in Procs \ {p} : pc'[q] = pc[q]
    BY <1>4, <2>1 DEF Rename, Goto
  <2>3. Seen(p)' BY <1>1, <2>1, <2>2, LastsAreChunks DEF Past
  <2> HIDE DEF Seen
  <2> QED BY <1>2, <2>1, <2>2, <2>3
<1>5. CASE Destroys(p)
  <2>1. PICK k \in Flushed..Chunks :
          /\ data' = [data EXCEPT ![TmpInode(p)] =
                        WithRest(data[TmpInode(p)], p, k)]
          /\ pc'[p] = "ok" => k = Chunks
    BY <1>5, DestroyOnly
  <2>2. /\ dir' = dir /\ pc[p] = "close" /\ pc'[p] \in {"ok", "aborted"}
        /\ \A q \in Procs \ {p} : pc'[q] = pc[q]
    BY <1>5, DestroyOnly
  <2>3. data'[TmpInode(p)] = Upto(k, p)
    BY <1>2, <2>1, <2>2, RestGoesBehind
  <2>4. data'[Out] = data[Out] /\ \A q \in Procs \ {p} :
                                    data'[TmpInode(q)] = data[TmpInode(q)]
    BY <2>1
  <2>5. ASSUME NEW q \in Procs, Seen(q) PROVE Seen(q)'
    <3>1. CASE q = p BY <1>1, <2>2, <2>3, <2>5, <3>1 DEF Past
    <3>2. CASE q # p BY <1>1, <2>2, <2>4, <2>5, <3>2 DEF Past
    <3> QED BY <3>1, <3>2
  <2>6. pc'[p] = "ok" => data'[TmpInode(p)] = Module(p)
    BY <2>1, <2>3, ModuleIsUpto
  <2> HIDE DEF Seen
  <2> QED BY <1>2, <2>2, <2>4, <2>5, <2>6
<1> QED BY <1>3, <1>4, <1>5, StepKinds

LEMMA WholeModulesAlways == Spec => []WholeModules
<1>1. Types /\ IInv /\ WholeModules /\ [Next]_vars => WholeModules'
  <2> SUFFICES ASSUME Types, IInv, WholeModules, [Next]_vars
               PROVE  WholeModules'
    OBVIOUS
  <2>1. CASE UNCHANGED vars
    BY <2>1 DEF vars, WholeModules, HasAtLeastFlushed, Replaces, Flushed, Upto,
       Module, TmpInode, Out
  <2>2. CASE Next
    <3>1. PICK p \in system.runs : (Step(p) \/ Crash(p)) /\ UNCHANGED system
      BY <2>2 DEF Next
    <3> QED BY <3>1, SystemTypes, WholeModulesInductive
  <2> QED BY <2>1, <2>2
<1> QED BY <1>1, WholeModulesInitially, Invariant, PTL DEF Spec

\* What readers of the file see.
Beginning(p, k) == [of |-> p, upto |-> k]
SeenOf(p) ==
  /\ Contents = Beginning(p, Len(data[TmpInode(p)]))
  /\ Len(data[TmpInode(p)]) \in 0..Chunks
  /\ pc[p] \in Past
  /\ pc[p] = "ok" => Len(data[TmpInode(p)]) = Chunks
ReadersSee ==
  Replaces =>
    /\ dir[Out] = Out => Contents = Beginning(Old, Chunks)
    /\ \A p \in Procs : dir[Out] = TmpInode(p) => SeenOf(p)
    /\ dir[Out] = Out \/ \E p \in Procs : dir[Out] = TmpInode(p)

LEMMA ContentsOfFile == Types /\ WholeModules => ReadersSee
<1> SUFFICES ASSUME Types, WholeModules, Replaces
             PROVE  /\ dir[Out] = Out => Contents = Beginning(Old, Chunks)
                    /\ \A p \in Procs : dir[Out] = TmpInode(p) => SeenOf(p)
                    /\ dir[Out] = Out \/ \E p \in Procs : dir[Out] = TmpInode(p)
  BY DEF ReadersSee
<1>0. Flushed \in Nat /\ Chunks \in Nat BY SystemTypes
<1>1. ASSUME dir[Out] = Out PROVE Contents = Beginning(Old, Chunks)
  <2>1. dir[Out] # None /\ dir[Out][2] = Old BY <1>1, NamesDiffer DEF Out
  <2>2. data[dir[Out]] = Upto(Chunks, Old) /\ Len(Upto(Chunks, Old)) = Chunks
    BY <1>0, <1>1, ModuleIsUpto, UptoIsSequence DEF WholeModules, Out
  <2> QED BY <2>1, <2>2 DEF Contents, Beginning
<1>2. ASSUME NEW p \in Procs, dir[Out] = TmpInode(p) PROVE SeenOf(p)
  <2>1. dir[Out] # None /\ dir[Out][2] = p BY <1>2, NamesDiffer DEF TmpInode
  <2>2. pc[p] \in Past /\ HasAtLeastFlushed(p)
    BY <1>2, NamesDiffer DEF WholeModules, Out
  <2>3. PICK k \in Flushed..Chunks : data[TmpInode(p)] = Upto(k, p)
    BY <2>2 DEF HasAtLeastFlushed
  <2>4. Len(Upto(k, p)) = k /\ k \in 0..Chunks BY <1>0, UptoIsSequence
  <2>5. Contents = Beginning(p, k)
    BY <1>2, <2>1, <2>3, <2>4 DEF Contents, Beginning
  <2>6. pc[p] = "ok" => Len(data[TmpInode(p)]) = Chunks
    <3>1. pc[p] = "ok" => data[TmpInode(p)] = Upto(Chunks, p)
      BY ModuleIsUpto DEF WholeModules
    <3> QED BY <1>0, <3>1, UptoIsSequence
  <2> QED BY <2>2, <2>3, <2>4, <2>5, <2>6 DEF SeenOf
<1>3. dir[Out] = Out \/ \E p \in Procs : dir[Out] = TmpInode(p)
  BY DEF WholeModules, Out
<1> QED BY <1>1, <1>2, <1>3

\* The refinement mapping of StoreModule.
FileBar == IF Replaces THEN Contents ELSE Beginning(Old, Chunks)
OutcomeOf(p) == IF ~Replaces THEN "running"
                ELSE IF pc[p] = "ok" THEN "stored"
                ELSE IF pc[p] = "close" THEN "replaced"
                ELSE IF Ended(p) THEN "failed" ELSE "running"
OutcomeBar == [p \in Procs |-> OutcomeOf(p)]

LEMMA FileInitially == Init => File!Init
<1> SUFFICES ASSUME Init PROVE File!Init OBVIOUS
<1>1. FileBar = Beginning(Old, Chunks)
  <2>1. Types /\ WholeModules BY TypesInitially, WholeModulesInitially
  <2>2. dir[Out] = Out BY DEF Init, Names, Out
  <2> QED BY <2>1, <2>2, ContentsOfFile DEF FileBar, ReadersSee
<1>2. OutcomeBar = [p \in Procs |-> "running"]
  BY DEF Init, OutcomeBar, OutcomeOf, Ended
<1> QED BY <1>1, <1>2 DEF File!Init, FileBar, OutcomeBar, OutcomeOf, Beginning

\* The kinds of abstract steps.
Moved(p, from, to) ==
  OutcomeOf(p) = from /\ OutcomeBar' = [OutcomeBar EXCEPT ![p] = to]
Replaced(p) ==
  /\ Moved(p, "running", "replaced")
  /\ \E k \in 0..Chunks : FileBar' = Beginning(p, k)
Completed(p) ==
  /\ Moved(p, "replaced", "stored")
  /\ FileBar' = IF FileBar.of = p THEN Beginning(p, Chunks) ELSE FileBar
Failed(p) == Moved(p, "running", "failed") /\ FileBar' = FileBar
FailedLate(p) ==
  /\ Moved(p, "replaced", "failed")
  /\ \/ FileBar' = FileBar
     \/ /\ FileBar.of = p
        /\ \E k \in FileBar.upto..Chunks : FileBar' = Beginning(p, k)

LEMMA FileSteps ==
  ASSUME Types, IInv, WholeModules, ReadersSee, ReadersSee',
         NEW p \in Procs, Step(p) \/ Crash(p), UNCHANGED system
  PROVE  \/ UNCHANGED <<FileBar, OutcomeBar>>
         \/ Replaced(p) \/ Completed(p) \/ Failed(p) \/ FailedLate(p)
<1>0. Replaces' = Replaces /\ Out' = Out /\ \A q : TmpInode(q)' = TmpInode(q)
  BY DEF Replaces, Out, TmpInode
<1>1. CASE ~Replaces BY <1>0, <1>1 DEF FileBar, OutcomeBar, OutcomeOf
<1>2. CASE Replaces
  <2>1. \A q \in Procs \ {p} : OutcomeOf(q)' = OutcomeOf(q)
    BY <1>0, RunMoves DEF OutcomeOf, Ended
  <2>2. OutcomeBar' = [OutcomeBar EXCEPT ![p] = OutcomeOf(p)']
    BY <2>1 DEF OutcomeBar
  <2>3. FileBar = Contents /\ FileBar' = Contents'
    BY <1>0, <1>2 DEF FileBar
  <2>4. /\ dir[Out] = Out => Contents = Beginning(Old, Chunks)
        /\ \A q \in Procs : dir[Out] = TmpInode(q) => SeenOf(q)
        /\ dir[Out] = Out \/ \E q \in Procs : dir[Out] = TmpInode(q)
    BY <1>2 DEF ReadersSee
  <2>5. /\ dir'[Out] = Out => Contents' = Beginning(Old, Chunks)
        /\ \A q \in Procs : dir'[Out] = TmpInode(q) => SeenOf(q)'
    BY <1>0, <1>2 DEF ReadersSee, Beginning
  <2>6. \A q \in Procs : SeenOf(q)' =>
          /\ Contents' = Beginning(q, Len(data'[TmpInode(q)]))
          /\ Len(data'[TmpInode(q)]) \in 0..Chunks
          /\ pc'[q] = "ok" => Len(data'[TmpInode(q)]) = Chunks
    BY <1>0 DEF SeenOf, Beginning
  <2>7. CASE Elsewhere(p)
    <3>1. Contents' = Contents
      <4>1. CASE dir[Out] = Out
        BY <2>4, <2>5, <2>7, <4>1 DEF Elsewhere
      <4>2. ASSUME NEW q \in Procs, dir[Out] = TmpInode(q)
            PROVE  Contents' = Contents
        <5>1. SeenOf(q) /\ SeenOf(q)' /\ pc[q] \in Past
          BY <2>4, <2>5, <2>7, <4>2 DEF Elsewhere, SeenOf
        <5>2. data'[TmpInode(q)] = data[TmpInode(q)]
          BY <2>7, <5>1 DEF Elsewhere
        <5> QED BY <2>6, <5>1, <5>2 DEF SeenOf
      <4> QED BY <2>4, <4>1, <4>2
    <3>2. CASE pc[p] = "close"
      <4>1. OutcomeOf(p) = "replaced" /\ OutcomeOf(p)' = "failed"
        BY <1>0, <1>2, <2>7, <3>2 DEF Elsewhere, OutcomeOf, Ended
      <4> QED BY <2>2, <2>3, <3>1, <4>1 DEF FailedLate, Moved
    <3>3. CASE pc[p] # "close"
      <4>1. OutcomeOf(p) = "running"
        BY <1>2, <2>7, <3>3 DEF Elsewhere, OutcomeOf, Ended
      <4>2. OutcomeOf(p)' \in {"running", "failed"}
        BY <1>0, <1>2, <2>7 DEF Elsewhere, OutcomeOf
      <4>3. CASE OutcomeOf(p)' = "failed"
        BY <2>2, <2>3, <3>1, <4>1, <4>3 DEF Failed, Moved
      <4>4. CASE OutcomeOf(p)' = "running"
        <5>1. OutcomeBar' = OutcomeBar
          BY <2>1, <4>1, <4>4 DEF OutcomeBar
        <5> QED BY <2>3, <3>1, <5>1
      <4> QED BY <4>2, <4>3, <4>4
    <3> QED BY <3>2, <3>3
  <2>8. CASE Rename(p)
    <3>1. pc[p] = "move" /\ pc'[p] = "close" /\ dir'[Out] = TmpInode(p)
      BY <2>8, NamesDiffer DEF Rename, Goto, Types, IInv, TmpNames, WithTmp
    <3>2. \E k \in 0..Chunks : Contents' = Beginning(p, k)
      BY <2>5, <2>6, <3>1
    <3>3. OutcomeOf(p) = "running" /\ OutcomeOf(p)' = "replaced"
      BY <1>0, <1>2, <3>1 DEF OutcomeOf, Ended
    <3> QED BY <2>2, <2>3, <3>2, <3>3 DEF Replaced, Moved
  <2>9. CASE Destroys(p)
    <3>1. /\ dir' = dir /\ pc[p] = "close" /\ pc'[p] \in {"ok", "aborted"}
          /\ OutcomeOf(p) = "replaced"
      BY <1>2, <2>9, DestroyOnly DEF OutcomeOf
    <3>2. /\ pc'[p] = "ok" => OutcomeOf(p)' = "stored"
          /\ pc'[p] = "aborted" => OutcomeOf(p)' = "failed"
      BY <1>0, <1>2 DEF OutcomeOf, Ended
    <3>3. PICK k \in Flushed..Chunks :
            /\ data' = [data EXCEPT ![TmpInode(p)] =
                          WithRest(data[TmpInode(p)], p, k)]
            /\ pc'[p] = "ok" => k = Chunks
      BY <2>9, DestroyOnly
    <3>4. CASE dir[Out] = TmpInode(p)
      <4>1. SeenOf(p) /\ SeenOf(p)' BY <2>4, <2>5, <3>1, <3>4
      <4>2. data[TmpInode(p)] = Upto(Flushed, p)
        BY <1>2, <3>1 DEF WholeModules
      <4>3. Flushed \in Nat /\ Chunks \in Nat /\ k \in Nat BY SystemTypes
      <4>4. data'[TmpInode(p)] = Upto(k, p)
        BY <3>3, <4>2, RestGoesBehind, NamesDiffer DEF Types
      <4>5. Contents = Beginning(p, Flushed) /\ Contents' = Beginning(p, k)
        BY <2>6, <4>1, <4>2, <4>3, <4>4, UptoIsSequence DEF SeenOf
      <4>6. Contents.of = p /\ Contents.upto = Flushed
        BY <4>5 DEF Beginning
      <4> QED
        BY <2>2, <2>3, <3>1, <3>2, <3>3, <4>5, <4>6
        DEF Completed, FailedLate, Moved
    <3>5. CASE dir[Out] # TmpInode(p)
      <4>1. Contents' = Contents
        <5>1. CASE dir[Out] = Out BY <2>4, <2>5, <3>1, <5>1
        <5>2. ASSUME NEW q \in Procs \ {p}, dir[Out] = TmpInode(q)
              PROVE  Contents' = Contents
          <6>1. SeenOf(q) /\ SeenOf(q)' BY <2>4, <2>5, <3>1, <5>2
          <6>2. data'[TmpInode(q)] = data[TmpInode(q)]
            BY <3>3, NamesDiffer DEF Types
          <6> QED BY <2>6, <6>1, <6>2 DEF SeenOf
        <5> QED BY <2>4, <3>5, <5>1, <5>2
      <4>2. Contents.of # p
        <5>1. CASE dir[Out] = Out
          BY <2>4, <5>1, ChunksAssumption DEF Beginning
        <5>2. ASSUME NEW q \in Procs \ {p}, dir[Out] = TmpInode(q)
              PROVE  Contents.of # p
          BY <2>4, <5>2 DEF SeenOf, Beginning
        <5> QED BY <2>4, <3>5, <5>1, <5>2
      <4> QED
        BY <2>2, <2>3, <3>1, <3>2, <4>1, <4>2
        DEF Completed, FailedLate, Moved
    <3> QED BY <3>4, <3>5
  <2> QED BY <1>2, <2>7, <2>8, <2>9, StepKinds
<1> QED BY <1>1, <1>2

(***************************************************************************)
(* Whatever runs at the same time, fails or crashes, between the rename    *)
(* and the end of the stream as well: on a system where renames work       *)
(* readers of the file see the beginning of one module, the file changes   *)
(* hands in one step, and the last run to succeed has all of it there.     *)
(***************************************************************************)
THEOREM StoringImplementsModuleFile == Spec => ImplementsModuleFile
<1>1. Types /\ IInv /\ WholeModules /\ ReadersSee /\ ReadersSee' /\ [Next]_vars
        => [File!Next]_<<FileBar, OutcomeBar>>
  <2> SUFFICES ASSUME Types, IInv, WholeModules, ReadersSee, ReadersSee',
                      [Next]_vars
               PROVE  [File!Next]_<<FileBar, OutcomeBar>>
    OBVIOUS
  <2>1. CASE UNCHANGED vars
    BY <2>1 DEF vars, FileBar, OutcomeBar, OutcomeOf, Replaces, Contents,
       Ended, Upto, Out, Beginning
  <2>2. CASE Next
    <3>1. PICK p \in system.runs : (Step(p) \/ Crash(p)) /\ UNCHANGED system
      BY <2>2 DEF Next
    <3>2. p \in Procs BY <3>1, SystemTypes
    <3>3. OutcomeBar[p] = OutcomeOf(p) BY <3>2 DEF OutcomeBar
    <3>4. Replaced(p) => File!Replace(p)
      BY <3>3 DEF Replaced, Moved, File!Replace, File!Moves, FileBar, OutcomeBar,
         OutcomeOf, Beginning
    <3>5. Completed(p) => File!Complete(p)
      BY <3>3 DEF Completed, Moved, File!Complete, File!Moves, FileBar, OutcomeBar,
         OutcomeOf, Beginning
    <3>6. Failed(p) => File!Fail(p)
      BY <3>3 DEF Failed, Moved, File!Fail, File!Moves, FileBar, OutcomeBar,
         OutcomeOf, Beginning
    <3>7. FailedLate(p) => File!FailLate(p)
      BY <3>3 DEF FailedLate, Moved, File!FailLate, File!Moves, FileBar,
         OutcomeBar, OutcomeOf, Beginning
    <3> QED BY <3>1, <3>2, <3>4, <3>5, <3>6, <3>7, FileSteps DEF File!Next
  <2> QED BY <2>1, <2>2
<1>2. [File!Next]_<<FileBar, OutcomeBar>> =>
        [File!Next]_<<IF Replaces THEN Contents
                      ELSE [of |-> Old, upto |-> Chunks],
                      [p \in Procs |->
                         IF ~Replaces THEN "running"
                         ELSE IF pc[p] = "ok" THEN "stored"
                         ELSE IF pc[p] = "close" THEN "replaced"
                         ELSE IF Ended(p) THEN "failed" ELSE "running"]>>
  BY DEF FileBar, OutcomeBar, OutcomeOf, Beginning
<1> QED BY <1>1, <1>2, FileInitially, Invariant, WholeModulesAlways,
           ContentsOfFile, PTL
        DEF Spec, ImplementsModuleFile, File!Spec
=============================================================================
