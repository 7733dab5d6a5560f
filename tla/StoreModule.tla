----------------------------- MODULE StoreModule -----------------------------
(***************************************************************************)
(* How runs of remill-lift save their output: StoreModuleIRToFile, then    *)
(* StoreModuleToFile (remill/BC/Util.cpp), which writes a temporary file   *)
(* and moves it to its place with MoveFile, RenameFile and CopyFile        *)
(* (remill/OS/FileSystem.cpp).                                             *)
(*                                                                         *)
(* A file is a sequence of chunks <<p, k>>: chunk k of the module of run   *)
(* p.  The stream has handed the first `flushed` ones to the system when    *)
(* WriteBitcodeToFile returns and keeps the others in its buffer until     *)
(* ToolOutputFile is destroyed.  Each run has a process number of its own. *)
(* IR goes straight to its file and is not followed further.               *)
(***************************************************************************)
EXTENDS Integers, Sequences

CONSTANTS Procs, Old, None,
          Chunks,     \* chunks of a module
          Systems     \* the systems the runs may find themselves on

ASSUME ChunksAssumption ==
  /\ Chunks \in Nat \ {0}
  /\ Old \notin Procs /\ None \notin Procs \cup {Old}

ASSUME SystemsAssumption ==
  \A s \in Systems :
    s.runs \subseteq Procs /\ s.flushed \in 0..Chunks /\ s.renames \in BOOLEAN

VARIABLES system, \* .runs: the runs that happen; .flushed: chunks written
                  \* at once; .renames: rename() of the temporary file works
          dir,    \* name -> inode: "out" and the temporary names
          data,   \* inode -> the chunks in it
          pc, to_fd, copied,
          errno, errno_copy

vars == <<system, dir, data, pc, to_fd, copied, errno, errno_copy>>

Out == <<"out", Old>>
\* Faulty variant: no temporary file.
InPlace(p) == Out
TmpName(p) == <<"tmp", p>>
Names == {Out} \cup {<<"tmp", p>> : p \in Procs}

\* The inode that run p creates for its temporary file, and for its copy.
TmpInode(p) == <<"tmp", p>>
CopyInode(p) == <<"copy", p>>
Inodes == {<<"out", Old>>} \cup {TmpInode(p) : p \in Procs}
          \cup {CopyInode(p) : p \in Procs}

ASSUME NoInodeAssumption == None \notin Inodes

Module(p) == [k \in 1..Chunks |-> <<p, k>>]
Upto(k, p) == [j \in 1..k |-> <<p, j>>]

Flushed == system.flushed

Init ==
  /\ system \in Systems
  /\ dir = [n \in Names |-> IF n = Out THEN <<"out", Old>> ELSE None]
  /\ data = [i \in Inodes |-> IF i = <<"out", Old>> THEN Module(Old) ELSE <<>>]
  /\ pc = [p \in Procs |-> "start"]
  /\ to_fd = [p \in Procs |-> None]
  /\ copied = [p \in Procs |-> 0]
  /\ errno = [p \in Procs |-> 0]
  /\ errno_copy = [p \in Procs |-> 0]

\* write() at the run's own position in a file that others may write too.
Put(file, k, chunk) ==
  [j \in 1..(IF k > Len(file) THEN k ELSE Len(file)) |->
     IF j = k THEN chunk ELSE IF j <= Len(file) THEN file[j] ELSE None]

Goto(p, from, to) == pc[p] = from /\ pc' = [pc EXCEPT ![p] = to]
Linked(name, inode) == dir' = [dir EXCEPT ![name] = inode]

-----------------------------------------------------------------------------
(* main, StoreModuleIRToFile: LOG_IF(FATAL, allow_failure), and main allows *)
(* failure. *)

StoreIR(p) ==
  /\ Goto(p, "start", "open") \/ Goto(p, "start", "no_ir")
  /\ UNCHANGED <<dir, data, to_fd, copied, errno, errno_copy>>

-----------------------------------------------------------------------------
(* StoreModuleToFile *)

VerifyFails(p) ==
  /\ Goto(p, "open", "failed")
  /\ UNCHANGED <<dir, data, to_fd, copied, errno, errno_copy>>

\* The CHECK of the stream fails.
OpenFails(p) ==
  /\ Goto(p, "open", "aborted")
  /\ UNCHANGED <<dir, data, to_fd, copied, errno, errno_copy>>

Open(p) ==
  /\ Goto(p, "open", "write")
  /\ IF dir[TmpName(p)] = None
     THEN Linked(TmpName(p), TmpInode(p)) /\ to_fd' = [to_fd EXCEPT ![p] = TmpInode(p)]
     ELSE UNCHANGED dir /\ to_fd' = [to_fd EXCEPT ![p] = dir[TmpName(p)]]
  /\ data' = [data EXCEPT ![to_fd'[p]] = <<>>]
  /\ UNCHANGED <<copied, errno, errno_copy>>

WriteBitcode(p) ==
  /\ Goto(p, "write", "move")
  /\ data' = [data EXCEPT ![to_fd[p]] = Upto(Flushed, p)]
  /\ UNCHANGED <<dir, to_fd, copied, errno, errno_copy>>

WriteError(p) ==
  /\ Goto(p, "write", "discard")
  /\ \E k \in 0..Flushed - 1 : data' = [data EXCEPT ![to_fd[p]] = Upto(k, p)]
  /\ UNCHANGED <<dir, to_fd, copied, errno, errno_copy>>

\* Faulty variant of Discard: without RemoveFile.
DiscardQuietly(p) ==
  /\ Goto(p, "discard", "discarded")
  /\ UNCHANGED <<dir, data, to_fd, copied, errno, errno_copy>>

\* RemoveFile, and an error that the stream still has when it is destroyed:
\* report_fatal_error, before StoreModuleToFile returns.
Discard(p) ==
  /\ Goto(p, "discard", "discarded")
  /\ Linked(TmpName(p), None)
  /\ UNCHANGED <<data, to_fd, copied, errno, errno_copy>>

Rename(p) ==
  /\ Goto(p, "move", "close")
  /\ dir[TmpName(p)] # None
  /\ dir' = [dir EXCEPT ![Out] = dir[TmpName(p)], ![TmpName(p)] = None]
  /\ UNCHANGED <<data, to_fd, copied, errno, errno_copy>>

\* Faulty variant: errno is cleared before the copy.
RenameFailsQuietly(p) ==
  /\ Goto(p, "move", "unlink")
  /\ ~system.renames \/ dir[TmpName(p)] = None
  /\ UNCHANGED <<dir, data, to_fd, copied, errno, errno_copy>>

RenameFails(p) ==
  /\ Goto(p, "move", "unlink")
  /\ ~system.renames \/ dir[TmpName(p)] = None
  /\ errno' = [errno EXCEPT ![p] = 1]
  /\ UNCHANGED <<dir, data, to_fd, copied, errno_copy>>

\* CopyFile.  The file it replaces may refuse to go (a mount point).
Unlink(p) ==
  /\ Goto(p, "unlink", "open_copy")
  /\ \/ Linked(Out, None) /\ UNCHANGED errno
     \/ UNCHANGED dir /\ errno' = [errno EXCEPT ![p] = 1]
  /\ UNCHANGED <<data, to_fd, copied, errno_copy>>

OpenCopy(p) ==
  /\ dir[TmpName(p)] # None
  /\ Goto(p, "open_copy", "copy")
  /\ dir' = [dir EXCEPT ![Out] = IF @ = None THEN CopyInode(p) ELSE @]
  /\ data' = [data EXCEPT ![dir'[Out]] = <<>>]
  /\ copied' = [copied EXCEPT ![p] = 0]
  /\ to_fd' = [to_fd EXCEPT ![p] = dir'[Out]]
  /\ UNCHANGED <<errno, errno_copy>>

OpenCopyFails(p) ==
  /\ Goto(p, "open_copy", "copy_failed")
  /\ UNCHANGED <<dir, data, to_fd, copied, errno, errno_copy>>

CopyTo(p, k, position, last) ==
  LET from == data[dir[TmpName(p)]] IN
  /\ Goto(p, "copy", IF last THEN "copied" ELSE "copy")
  /\ copied' = [copied EXCEPT ![p] = k]
  /\ data' = IF from = <<>> THEN data
             ELSE [data EXCEPT ![to_fd[p]] = Put(@, position, from[k])]
  /\ UNCHANGED <<dir, to_fd, errno, errno_copy>>
SourceSize(p) == Len(data[dir[TmpName(p)]])

\* Faulty variant: what is left is not counted.
CopyChunkAgain(p) == CopyTo(p, 1, 1, FALSE)

CopyChunk(p) == CopyTo(p, copied[p] + 1, copied[p] + 1, copied[p] + 1 >= SourceSize(p))

\* A short write: errno is what some earlier call has left in it.
ShortWrite(p) ==
  /\ Goto(p, "copy", "copied")
  /\ errno_copy' = [errno_copy EXCEPT ![p] = errno[p]]
  /\ UNCHANGED <<dir, data, to_fd, copied, errno>>

CopyFails(p) ==
  /\ errno_copy[p] # 0
  /\ Goto(p, "copied", "copy_failed")
  /\ Linked(Out, None)
  /\ UNCHANGED <<data, to_fd, copied, errno, errno_copy>>

RemoveTmp(p) ==
  /\ errno_copy[p] = 0
  /\ Goto(p, "copied", "close")
  /\ Linked(TmpName(p), None)
  /\ UNCHANGED <<data, to_fd, copied, errno, errno_copy>>

\* What the rest of the module, up to chunk k, makes of a file.
WithRest(file, p, k) ==
  IF k = Flushed THEN file
  ELSE [j \in 1..(IF k > Len(file) THEN k ELSE Len(file)) |->
          IF j \in Flushed + 1..k THEN <<p, j>>
          ELSE IF j <= Len(file) THEN file[j] ELSE None]

\* The stream is destroyed: the rest goes to the file it has open, under
\* whatever name or none that is now.
Flush(p, k) == data' = [data EXCEPT ![TmpInode(p)] = WithRest(@, p, k)]

Close(p) ==
  /\ Goto(p, "close", "ok")
  /\ Flush(p, Chunks)
  /\ UNCHANGED <<dir, to_fd, copied, errno, errno_copy>>

\* A write or close() fails: report_fatal_error.
CloseFails(p) ==
  /\ Goto(p, "close", "aborted")
  /\ \E k \in Flushed..Chunks : Flush(p, k)
  /\ UNCHANGED <<dir, to_fd, copied, errno, errno_copy>>

Ended(p) == pc[p] \in {"ok", "failed", "discarded", "copy_failed", "aborted",
                      "no_ir", "crashed"}

Crash(p) ==
  /\ ~Ended(p)
  /\ pc' = [pc EXCEPT ![p] = "crashed"]
  /\ UNCHANGED <<dir, data, to_fd, copied, errno, errno_copy>>

Step(p) == \/ StoreIR(p) \/ VerifyFails(p) \/ OpenFails(p) \/ Open(p)
           \/ WriteBitcode(p) \/ WriteError(p) \/ Discard(p) \/ Rename(p)
           \/ RenameFails(p) \/ Unlink(p) \/ OpenCopy(p) \/ OpenCopyFails(p)
           \/ CopyChunk(p) \/ ShortWrite(p) \/ CopyFails(p) \/ RemoveTmp(p)
           \/ Close(p) \/ CloseFails(p)

Next == \E p \in system.runs : (Step(p) \/ Crash(p)) /\ UNCHANGED system

\* Each run goes on until it ends; it need not crash.
Fairness ==
  \A p \in Procs : WF_vars(p \in system.runs /\ Step(p) /\ UNCHANGED system)

Spec == Init /\ [][Next]_vars /\ Fairness

-----------------------------------------------------------------------------
TypeOK ==
  /\ dir \in [Names -> Inodes \cup {None}]
  /\ \A i \in Inodes : Len(data[i]) <= Chunks
  /\ \A p \in Procs : errno_copy[p] # 0 => pc[p] \in {"copied", "copy_failed", "crashed"}

\* What is in the file: how many chunks of whose module; None for anything
\* else.
Contents ==
  IF dir[Out] = None THEN None
  ELSE LET author == dir[Out][2]
           chunks == data[dir[Out]] IN
       IF chunks = Upto(Len(chunks), author)
       THEN [of |-> author, upto |-> Len(chunks)] ELSE None

\* Where the file is replaced by the rename.
Replaces == system.renames

(***************************************************************************)
(* A run that returns true has stored its module, by a rename or by a copy *)
(* of all of it, unless another run has begun.                             *)
(***************************************************************************)
SuccessMeansStored ==
  (system.renames \/ Flushed = Chunks) => \A p \in Procs : (pc[p] = "ok" /\ \A q \in Procs \ {p} : pc[q] = "start") =>
    dir[Out] # None /\ data[dir[Out]] = Module(p)

(***************************************************************************)
(* A run that ends leaves no temporary file: MoveFile has renamed or       *)
(* removed it, or RemoveFile after a write error, whatever else runs.  A   *)
(* run that crashes may leave it, and one whose CopyFile fails does: its   *)
(* LOG(FATAL) comes before MoveFile's RemoveFile.                          *)
(***************************************************************************)
NoTmpLeft ==
  \A p \in Procs : Ended(p) /\ pc[p] \notin {"copy_failed", "crashed"} =>
    dir[TmpName(p)] = None

(***************************************************************************)
(* main allows failure: "Could not save LLVM IR to", and on to the bitcode.*)
(* A run that cannot write the one file is not kept from the other.        *)
(***************************************************************************)
BitcodeIsTried ==
  \A p \in Procs : (p \in system.runs /\ pc[p] = "start") ~> pc[p] \in {"open", "crashed"}

\* Every run ends; the loop of CopyFile does too.
AllEnd == \A p \in Procs : p \in system.runs => <>Ended(p)

(***************************************************************************)
(* Whatever fails, crashes or runs at the same time, on the systems that   *)
(* replace the file readers see the beginning of one module, the old one   *)
(* whole until it is replaced, and all of the new one's if its run has     *)
(* returned true and was the last; of the other systems nothing is said.   *)
(***************************************************************************)
File == INSTANCE ModuleFile WITH
          file <- IF Replaces THEN Contents ELSE [of |-> Old, upto |-> Chunks],
          outcome <- [p \in Procs |->
                        IF ~Replaces THEN "running"
                        ELSE IF pc[p] = "ok" THEN "stored"
                        ELSE IF pc[p] = "close" THEN "replaced"
                        ELSE IF Ended(p) THEN "failed" ELSE "running"]
ImplementsModuleFile == File!Spec

(***************************************************************************)
(* StoreModuleToFile writes another file and moves it when it is complete, *)
(* so that readers find a whole module even where a rename works.  It does *)
(* not hold: the end of the bitcode is still in the stream's buffer then.  *)
(***************************************************************************)
NeverHalf == Replaces => Contents # None /\ Contents.upto = Chunks
=============================================================================
