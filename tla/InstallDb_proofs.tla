--------------------------- MODULE InstallDb_proofs ---------------------------
(***************************************************************************)
(* Theorems about the install database, for any packages, dependencies and *)
(* processes.  As long as the lock keeps the processes apart, a stamp      *)
(* stands for the files of its package, no file is left without an owner   *)
(* and no dependent loses what it depends on; and a lock never outlives    *)
(* the process that holds it.                                              *)
(***************************************************************************)
EXTENDS InstallDb, FiniteSetTheorems, SequenceTheorems, TLAPS

-----------------------------------------------------------------------------
(* The inductive invariant *)

\* A process that runs a command has a package to work on.
HasJob == \A q \in Process : proc[q].at # "idle" => proc[q].job # <<>>

\* A process from open to close has the lock file open, and it holds the lock
\* from the lock to the close.
HasFile == \A q \in Process : At(q, "flock") \/ Inside(q) => fd[q] \in Inode
HasLock == \A q \in Process : Inside(q) => held[fd[q]] = q

\* What split records.
OneWorker == ~split => MutualExclusion

\* No file belongs to two installed packages.
Disjoint == \A p, r \in stamps : p # r => Files[p] \cap Files[r] = {}

\* The package at work has no stamp, and no installed package has its files.
Apart(q) == \A p \in stamps : p # Pkg(q) /\ Files[p] \cap Files[Pkg(q)] = {}

\* What is done at each step of an uninstall and of an install.
Unstamping(q) == At(q, "unstamp") /\ proc[q].op = "uninstall" => Dependents(Pkg(q)) = {}
Unfiling(q) == At(q, "unfile") => Apart(q) /\ proc[q].files \subseteq Files[Pkg(q)]
Filing(q)   == At(q, "file") =>
                  /\ Apart(q)
                  /\ proc[q].files \subseteq Files[Pkg(q)]
                  /\ Files[Pkg(q)] \ proc[q].files \subseteq disk
Stamping(q) == At(q, "stamp") =>
                  /\ Apart(q)
                  /\ Pkg(q) \in DOMAIN lists
                  /\ lists[Pkg(q)] = Files[Pkg(q)]
                  /\ Files[Pkg(q)] \subseteq disk
InOrder(q) == Unstamping(q) /\ Unfiling(q) /\ Filing(q) /\ Stamping(q)
WorkOK     == \A q \in Process : InOrder(q)

StampsOK == \A p \in stamps :
                p \in DOMAIN lists /\ lists[p] = Files[p] /\ Files[p] \subseteq disk

\* A file is due when the process at work is about to remove it, or has moved it
\* and is about to own it.
Owned(f)  == \E p \in stamps : f \in Files[p]
Due(q, f) == \/ At(q, "unfile") /\ f \in proc[q].files
             \/ At(q, "file") /\ f \in Files[Pkg(q)] \ proc[q].files
             \/ At(q, "stamp") /\ f \in Files[Pkg(q)]
NoStray   == ~split /\ ~cutShort =>
                 \A f \in disk : Owned(f) \/ \E q \in Process : Due(q, f)

LockInv == TypeOK /\ HasJob /\ HasFile /\ HasLock /\ LockHolderWorks /\ OneWorker
DbInv   == ~split => StampsOK /\ Disjoint /\ WorkOK
IInv    == LockInv /\ DbInv /\ NoStray

-----------------------------------------------------------------------------
(* Lemmas about the data *)

\* The first package of a job is a package.
LEMMA PkgType ==
    ASSUME TypeOK, HasJob, NEW q \in Process, proc[q].at # "idle"
    PROVE  /\ Head(proc[q].job) \in Frame
           /\ Pkg(q) \in Package
           /\ Files[Pkg(q)] \in SUBSET File
           /\ Depends[Pkg(q)] \in SUBSET Package
<1>1. proc[q] \in State /\ proc[q].job # <<>>
  BY DEF TypeOK, HasJob
<1>2. proc[q].job \in Seq(Frame)
  BY <1>1 DEF State
<1>3. Head(proc[q].job) \in Frame
  BY <1>1, <1>2, HeadTailProperties
<1> QED
  BY <1>3, InstallDbAssumption DEF Pkg, Frame

\* There are more inodes than processes, so one is always free.
LEMMA InodeFree ==
    ASSUME TypeOK
    PROVE  Inode \ {fd[r] : r \in Process} # {}
<1> DEFINE T == {fd[r] : r \in Process}
<1>1. fd \in [Process -> T]
  BY DEF TypeOK
<1>2. fd \in Surjection(Process, T)
  BY <1>1 DEF Surjection
<1>3. IsFiniteSet(T) /\ Cardinality(T) <= Cardinality(Process)
  BY <1>2, InstallDbAssumption, FS_Surjection
<1>4. Cardinality(Process) \in Nat
  BY InstallDbAssumption, FS_CardinalityType
<1>5. Cardinality(Inode) = Cardinality(Process) + 1
  BY <1>4, FS_Interval DEF Inode
<1>6. Cardinality(T) \in Nat
  BY <1>3, FS_CardinalityType
<1>7. ASSUME Inode \subseteq T PROVE FALSE
  <2>1. Cardinality(Inode) <= Cardinality(T)
    BY <1>3, <1>7, FS_Subset
  <2> QED
    BY <2>1, <1>3, <1>4, <1>5, <1>6
<1> QED
  BY <1>7

\* Idle is a state of a process, and it has no package and no lock.
LEMMA IdleType == Idle \in State
<1>1. <<>> \in Seq(Frame)
  BY EmptySeq
<1> QED
  BY <1>1 DEF Idle, State, Places, Ops

-----------------------------------------------------------------------------
(* Types *)

\* Ending a process keeps the types.
LEMMA ExitsType ==
    ASSUME TypeOK, NEW q \in Process, Exits(q), UNCHANGED <<db, lockFile>>,
           cutShort' \in BOOLEAN, split' \in BOOLEAN
    PROVE  TypeOK'
<1>1. proc' \in [Process -> State]
  BY IdleType DEF TypeOK, Exits
<1>2. held' \in [Inode -> Process \cup {Nobody}] /\ fd' \in [Process -> Inode \cup {NoInode}]
  BY DEF TypeOK, Exits
<1> QED
  BY <1>1, <1>2 DEF TypeOK, db

\* Moving to another place, and failing, keep the type of the processes.
LEMMA GotoType ==
    ASSUME TypeOK, NEW q \in Process, NEW place \in Places, Goto(q, place) \/ Fail(q)
    PROVE  proc' \in [Process -> State]
<1>1. "unlink" \in Places
  BY DEF Places, Leave
<1>2. proc \in [Process -> State]
  BY DEF TypeOK
<1>3. CASE Goto(q, place)
  <2>1. [proc[q] EXCEPT !.at = place] \in State
    BY <1>2 DEF State
  <2> QED
    BY <1>2, <1>3, <2>1 DEF Goto
<1>4. CASE Fail(q)
  <2>1. [proc[q] EXCEPT !.at = "unlink", !.failing = TRUE] \in State
    BY <1>1, <1>2 DEF State
  <2> QED
    BY <1>2, <1>4, <2>1 DEF Fail
<1> QED
  BY <1>3, <1>4

\* The first steps of a command keep the type of the processes.
LEMMA PrepareType ==
    ASSUME TypeOK, HasJob, NEW q \in Process, NEW p \in Package,
           StartInstall(q, p) \/ StartUninstall(q, p) \/ LookAtDep(q, p) \/ Build(q)
    PROVE  proc' \in [Process -> State] /\ (proc'[q].at # "idle" => proc'[q].job # <<>>)
<1> USE DEF TypeOK
<1> DEFINE frame == [pkg |-> p, deps |-> Depends[p]]
<1>a. frame \in Frame /\ [pkg |-> p, deps |-> {}] \in Frame
  BY InstallDbAssumption DEF Frame
<1>b. <<frame>> \in Seq(Frame) /\ <<[pkg |-> p, deps |-> {}]>> \in Seq(Frame)
  BY <1>a
<1>c. proc[q] \in State /\ proc[q].job \in Seq(Frame)
  BY DEF State
<1>1. CASE StartInstall(q, p)
  <2>1. proc' = [proc EXCEPT ![q].at = "deps", ![q].job = <<frame>>]
    BY <1>1 DEF StartInstall
  <2> HIDE DEF frame
  <2>2. proc' \in [Process -> State]
    BY <2>1, <1>b, <1>c DEF State, Places
  <2> QED
    BY <2>1, <2>2
<1>2. CASE StartUninstall(q, p)
  <2>1. proc' = [proc EXCEPT ![q].at = "open", ![q].op = "uninstall",
                             ![q].job = <<[pkg |-> p, deps |-> {}]>>]
    BY <1>2 DEF StartUninstall
  <2>2. proc' \in [Process -> State]
    BY <2>1, <1>b, <1>c DEF State, Places, Ops
  <2> QED
    BY <2>1, <2>2
<1>3. CASE LookAtDep(q, p)
  <2> DEFINE frames == [proc[q].job EXCEPT ![1].deps = @ \ {p}]
             job    == IF p \in stamps THEN frames ELSE <<frame>> \o frames
  <2>1. proc[q].job # <<>> /\ Head(proc[q].job) \in Frame
    BY <1>3, PkgType DEF LookAtDep, At, HasJob
  <2>2. Len(proc[q].job) \in Nat \ {0} /\ proc[q].job[1] \in Frame
    BY <1>c, <2>1, EmptySeq, ElementOfSeq
  <2>3. [proc[q].job[1] EXCEPT !.deps = @ \ {p}] \in Frame
    BY <2>2 DEF Frame
  <2>4. frames = [proc[q].job EXCEPT ![1] = [proc[q].job[1] EXCEPT !.deps = @ \ {p}]]
    OBVIOUS
  <2>5. frames \in Seq(Frame) /\ Len(frames) = Len(proc[q].job)
    BY <1>c, <2>2, <2>3, <2>4, ExceptSeq
  <2>6. frames # <<>>
    BY <2>2, <2>5, EmptySeq
  <2> HIDE DEF frames, frame
  <2>7. <<frame>> \o frames \in Seq(Frame) /\ <<frame>> \o frames # <<>>
    BY <1>b, <2>5, <2>6, ConcatProperties, ConcatSimplifications
  <2>8. job \in Seq(Frame) /\ job # <<>>
    BY <2>5, <2>6, <2>7
  <2>9. proc' = [proc EXCEPT ![q].job = job]
    BY <1>3 DEF LookAtDep, frames, frame
  <2> HIDE DEF job
  <2> QED
    BY <2>8, <2>9, <1>c DEF State
<1>4. CASE Build(q)
  <2>1. proc[q].job # <<>>
    BY <1>4 DEF Build, At, HasJob
  <2>2. proc' \in [Process -> State]
    BY <1>4, <1>c DEF Build, State, Places, Ops
  <2> QED
    BY <1>4, <2>1, <2>2 DEF Build
<1> QED
  BY <1>1, <1>2, <1>3, <1>4

\* What a process does after the lock is a state of a process again.
LEMMA ContinueType ==
    ASSUME TypeOK, HasJob, NEW q \in Process, At(q, "close")
    PROVE  /\ Continue(q) \in State
           /\ Continue(q).at \in {"idle", "open", "deps"}
           /\ Continue(q).at # "idle" => Continue(q).job # <<>>
<1>1. proc[q] \in State /\ proc[q].job \in Seq(Frame) /\ proc[q].job # <<>>
  BY DEF TypeOK, State, HasJob, At
<1>2. CASE proc[q].failing \/ proc[q].op = "uninstall"
  BY <1>2, IdleType DEF Continue, Idle
<1>3. CASE ~(proc[q].failing \/ proc[q].op = "uninstall") /\ proc[q].op = "replace"
  <2>1. Continue(q) = [proc[q] EXCEPT !.at = "open", !.op = "install"]
    BY <1>3 DEF Continue
  <2> QED
    BY <1>1, <2>1 DEF State, Places, Ops
<1>4. CASE ~(proc[q].failing \/ proc[q].op \in {"uninstall", "replace"}) /\ Len(proc[q].job) = 1
  BY <1>4, IdleType DEF Continue, Idle
<1>5. CASE ~(proc[q].failing \/ proc[q].op \in {"uninstall", "replace"}) /\ Len(proc[q].job) # 1
  <2>1. Continue(q) = [Idle EXCEPT !.at = "deps", !.job = Tail(proc[q].job)]
    BY <1>5 DEF Continue
  <2>2. Len(proc[q].job) \in Nat \ {0}
    BY <1>1, EmptySeq
  <2>3. Tail(proc[q].job) \in Seq(Frame) /\ Len(Tail(proc[q].job)) = Len(proc[q].job) - 1
    BY <1>1, HeadTailProperties
  <2>4. Len(Tail(proc[q].job)) # 0
    BY <1>5, <2>2, <2>3
  <2>5. Tail(proc[q].job) # <<>>
    BY <2>4, EmptySeq
  <2> QED
    BY <2>1, <2>3, <2>5, IdleType DEF Idle, State, Places
<1> QED
  BY <1>2, <1>3, <1>4, <1>5

-----------------------------------------------------------------------------
(* The processes *)

\* Where process q goes in a step of the commands inside the lock.
LEMMA BodyStep ==
    ASSUME TypeOK, HasJob, NEW q \in Process, Uninstall(q) \/ Install(q) \/ CallFails(q)
    PROVE  /\ TypeOK'
           /\ \A r \in Process \ {q} : proc'[r] = proc[r]
           /\ proc'[q].job = proc[q].job
           /\ proc'[q].at \in Body \cup {"unlink"}
           /\ Works(q)
           /\ UNCHANGED <<lock, split>>
<1> USE DEF TypeOK
<1>a. proc \in [Process -> State]
  OBVIOUS
<1>b. {"unlink", "unstamp", "stamp"} \subseteq Places
  BY DEF Places, Body, Leave
<1>c. ASSUME NEW place \in {"unlink", "unstamp", "stamp"}, Goto(q, place) \/ Fail(q)
      PROVE  /\ proc' \in [Process -> State]
             /\ \A r \in Process \ {q} : proc'[r] = proc[r]
             /\ proc'[q].job = proc[q].job
             /\ proc'[q].at \in Body \cup {"unlink"}
  <2>1. proc' \in [Process -> State]
    BY <1>b, <1>c, GotoType
  <2> QED
    BY <1>a, <1>c, <2>1 DEF Goto, Fail, State, Body
<1>d. ASSUME NEW place \in {"unfile", "file"}, NEW F \in SUBSET File,
             \/ proc' = [proc EXCEPT ![q].at = place, ![q].files = F]
             \/ proc' = [proc EXCEPT ![q].files = F] /\ At(q, place)
      PROVE  /\ proc' \in [Process -> State]
             /\ \A r \in Process \ {q} : proc'[r] = proc[r]
             /\ proc'[q].job = proc[q].job
             /\ proc'[q].at \in Body \cup {"unlink"}
  <2>1. place \in Places
    BY DEF Places, Body
  <2>2. /\ [proc[q] EXCEPT !.at = place, !.files = F] \in State
        /\ [proc[q] EXCEPT !.files = F] \in State
    BY <1>a, <2>1 DEF State
  <2>3. proc' = [proc EXCEPT ![q] = [proc[q] EXCEPT !.at = place, !.files = F]]
        \/ proc' = [proc EXCEPT ![q] = [proc[q] EXCEPT !.files = F]]
    BY <1>d
  <2>4. proc' \in [Process -> State]
    BY <1>a, <2>2, <2>3
  <2> QED
    BY <1>a, <1>d, <2>4 DEF At, State, Body
<1>e. proc[q].at # "idle" => Pkg(q) \in Package /\ Files[Pkg(q)] \in SUBSET File
  BY PkgType
<1>f. proc[q].files \in SUBSET File
  BY <1>a DEF State
<1>1. CASE Check(q)
  BY <1>1, <1>c DEF Check, At, Works, Body, db, lock
<1>2. CASE Unstamp(q)
  <2>1. Works(q) /\ UNCHANGED <<lists, disk, lock, cutShort, split>> /\ stamps' \subseteq Package
    BY <1>2 DEF Unstamp, At, Works, Body
  <2>2. Listed(Pkg(q)) \in SUBSET File
    BY DEF Listed
  <2>3. /\ proc' \in [Process -> State]
        /\ \A r \in Process \ {q} : proc'[r] = proc[r]
        /\ proc'[q].job = proc[q].job
        /\ proc'[q].at \in Body \cup {"unlink"}
    BY <1>2, <2>2, <1>c, <1>d DEF Unstamp
  <2> QED
    BY <2>1, <2>3 DEF lock
<1>3. CASE RemoveList(q)
  <2>1. Works(q) /\ UNCHANGED <<stamps, disk, lock, cutShort, split>>
    BY <1>3 DEF RemoveList, At, Works, Body
  <2>2. DOMAIN lists' \subseteq Package /\ lists' \in [DOMAIN lists' -> SUBSET File]
    BY <1>3 DEF RemoveList
  <2> QED
    BY <1>3, <1>c, <2>1, <2>2 DEF RemoveList, lock
<1>4. CASE \E f \in File : RemoveFile(q, f)
  <2>1. PICK f \in File : RemoveFile(q, f)
    BY <1>4
  <2>2. Works(q) /\ UNCHANGED <<stamps, lists, lock, cutShort, split>> /\ disk' \subseteq File
    BY <2>1 DEF RemoveFile, At, Works, Body
  <2> DEFINE F == proc[q].files \ {f}
  <2>3. F \in SUBSET File /\ proc' = [proc EXCEPT ![q].files = F] /\ At(q, "unfile")
    BY <2>1, <1>f DEF RemoveFile
  <2> HIDE DEF F
  <2>4. /\ proc' \in [Process -> State]
        /\ \A r \in Process \ {q} : proc'[r] = proc[r]
        /\ proc'[q].job = proc[q].job
        /\ proc'[q].at \in Body \cup {"unlink"}
    BY <2>3, <1>d
  <2> QED
    BY <2>2, <2>4 DEF lock
<1>5. CASE Verify(q)
  <2>1. Works(q) /\ UNCHANGED <<db, lock, cutShort, split>> /\ proc[q].at # "idle"
    BY <1>5 DEF Verify, At, Works, Body
  <2>2. /\ proc' \in [Process -> State]
        /\ \A r \in Process \ {q} : proc'[r] = proc[r]
        /\ proc'[q].job = proc[q].job
        /\ proc'[q].at \in Body \cup {"unlink"}
    BY <1>5, <2>1, <1>c, <1>d, <1>e DEF Verify
  <2> QED
    BY <2>1, <2>2 DEF lock, db
<1>6. CASE WriteFileList(q)
  <2>1. /\ Works(q) /\ UNCHANGED <<stamps, disk, lock, cutShort, split>>
        /\ Pkg(q) \in Package
    BY <1>6, <1>e DEF WriteFileList, At, Works, Body
  <2>2. DOMAIN lists' \subseteq Package /\ lists' \in [DOMAIN lists' -> SUBSET File]
    BY <1>6, <2>1, InstallDbAssumption DEF WriteFileList
  <2> QED
    BY <1>6, <1>c, <2>1, <2>2 DEF WriteFileList, lock
<1>7. CASE WriteStamp(q)
  <2>1. /\ Works(q) /\ UNCHANGED <<lists, disk, lock, cutShort, split>>
        /\ stamps' \subseteq Package
    BY <1>7, <1>e DEF WriteStamp, At, Works, Body
  <2> QED
    BY <1>7, <1>c, <2>1 DEF WriteStamp, lock
<1>8. CASE \E f \in File : InstallFile(q, f)
  <2>1. PICK f \in File : InstallFile(q, f)
    BY <1>8
  <2>2. Works(q) /\ UNCHANGED <<stamps, lists, lock, cutShort, split>> /\ disk' \subseteq File
    BY <2>1 DEF InstallFile, At, Works, Body
  <2> DEFINE F == proc[q].files \ {f}
  <2>3. F \in SUBSET File /\ proc' = [proc EXCEPT ![q].files = F] /\ At(q, "file")
    BY <2>1, <1>f DEF InstallFile
  <2> HIDE DEF F
  <2>4. /\ proc' \in [Process -> State]
        /\ \A r \in Process \ {q} : proc'[r] = proc[r]
        /\ proc'[q].job = proc[q].job
        /\ proc'[q].at \in Body \cup {"unlink"}
    BY <2>3, <1>d
  <2> QED
    BY <2>2, <2>4 DEF lock
<1>9. CASE CallFails(q)
  <2>1. Works(q) /\ Fail(q) /\ UNCHANGED <<db, lock, split>> /\ cutShort' \in BOOLEAN
    BY <1>9 DEF CallFails, Halfway
  <2>2. /\ proc' \in [Process -> State]
        /\ \A r \in Process \ {q} : proc'[r] = proc[r]
        /\ proc'[q].job = proc[q].job
        /\ proc'[q].at \in Body \cup {"unlink"}
    BY <2>1, <1>c
  <2> QED
    BY <2>1, <2>2 DEF lock, db
<1> QED
  BY <1>1, <1>2, <1>3, <1>4, <1>5, <1>6, <1>7, <1>8, <1>9 DEF Uninstall, Install

-----------------------------------------------------------------------------
(* The lock *)

\* A process that moves neither into nor out of the lock leaves the lock as it is.
LEMMA LocalStep ==
    ASSUME LockInv, NEW q \in Process, UNCHANGED <<lock, split>>, TypeOK',
           \A r \in Process \ {q} : proc'[r] = proc[r],
           proc'[q].at # "flock",
           proc'[q].at # "idle" => proc'[q].job # <<>>,
           Inside(q)' <=> Inside(q),
           Works(q)' => Works(q)
    PROVE  LockInv'
<1>1. HasJob'
  BY DEF LockInv, HasJob
<1>2. \A r \in Process : (Inside(r)' <=> Inside(r)) /\ (Works(r)' => Works(r))
  BY DEF Inside, Works
<1>3. HasFile' /\ HasLock'
  BY <1>2 DEF LockInv, HasFile, HasLock, lock, At, Inside, Works
<1>4. LockHolderWorks'
  <2> SUFFICES ASSUME NEW i \in Inode, NEW r \in Process, held[i] = r
               PROVE  Inside(r)' /\ fd[r] = i
    BY DEF LockHolderWorks, lock, Inside, Works, TypeOK
  <2>1. r # Nobody
    BY InstallDbAssumption
  <2> QED
    BY <1>2, <2>1 DEF LockInv, LockHolderWorks
<1>5. OneWorker'
  BY <1>2 DEF LockInv, OneWorker, MutualExclusion
<1> QED
  BY <1>1, <1>3, <1>4, <1>5 DEF LockInv

\* A process that ends, or is killed, takes its lock with it.
LEMMA ExitsStep ==
    ASSUME LockInv, NEW q \in Process, Exits(q), UNCHANGED split, TypeOK'
    PROVE  LockInv'
<1> USE DEF LockInv
<1>1. /\ proc'[q] = Idle
      /\ \A r \in Process \ {q} : proc'[r] = proc[r] /\ fd'[r] = fd[r]
  BY DEF Exits, TypeOK
<1>2. ~Inside(q)' /\ ~Works(q)' /\ ~At(q, "flock")'
  BY <1>1 DEF Inside, Works, At, Idle, Body, Leave
<1>3. \A r \in Process \ {q} : (Inside(r)' <=> Inside(r)) /\ (Works(r)' <=> Works(r))
  BY <1>1 DEF Inside, Works
<1>4. HasJob'
  BY <1>1 DEF HasJob, Idle
<1>5. HasFile'
  BY <1>1, <1>2, <1>3 DEF HasFile, At
<1>6. HasLock'
  <2> SUFFICES ASSUME NEW r \in Process \ {q}, Inside(r) PROVE held'[fd[r]] = r
    BY <1>1, <1>2, <1>3 DEF HasLock
  <2>1. fd[r] \in Inode /\ held[fd[r]] = r
    BY DEF HasFile, HasLock
  <2> QED
    BY <2>1 DEF Exits
<1>7. LockHolderWorks'
  <2> SUFFICES ASSUME NEW i \in Inode, NEW r \in Process, held'[i] = r
               PROVE  Inside(r)' /\ fd'[r] = i
    BY DEF LockHolderWorks, Inside, Works, TypeOK
  <2>1. held[i] = r /\ r \in Process \ {q} /\ r # Nobody
    BY InstallDbAssumption DEF Exits, TypeOK
  <2> QED
    BY <1>1, <1>3, <2>1 DEF LockHolderWorks
<1>8. OneWorker'
  BY <1>2, <1>3 DEF OneWorker, MutualExclusion
<1> QED
  BY <1>4, <1>5, <1>6, <1>7, <1>8

\* Opening the lock file gives the process an inode, and nobody the lock.
LEMMA OpenStep ==
    ASSUME LockInv, NEW q \in Process, OpenLock(q)
    PROVE  LockInv'
<1> USE DEF LockInv
<1>a. PICK i \in Inode : lockFile' = i /\ fd' = [fd EXCEPT ![q] = i]
  BY InodeFree DEF OpenLock, TypeOK
<1>b. TypeOK'
  <2>1. "flock" \in Places
    BY DEF Places
  <2>2. proc' \in [Process -> State]
    BY <2>1, GotoType DEF OpenLock
  <2>3. fd' \in [Process -> Inode \cup {NoInode}]
    BY <1>a DEF TypeOK
  <2> QED
    BY <1>a, <2>2, <2>3 DEF OpenLock, TypeOK, db
<1>1. /\ At(q, "open")
      /\ proc'[q].at = "flock" /\ proc'[q].job = proc[q].job /\ fd'[q] = i
      /\ \A r \in Process \ {q} : proc'[r] = proc[r] /\ fd'[r] = fd[r]
      /\ UNCHANGED <<held, split>>
  BY <1>a DEF OpenLock, Goto, TypeOK, State
<1>2. ~Inside(q) /\ ~Inside(q)' /\ ~Works(q)'
  BY <1>1 DEF Inside, Works, At, Body, Leave
<1>3. \A r \in Process \ {q} : (Inside(r)' <=> Inside(r)) /\ (Works(r)' <=> Works(r))
  BY <1>1 DEF Inside, Works
<1>4. HasJob'
  BY <1>1 DEF HasJob, At
<1>5. HasFile'
  BY <1>1, <1>2, <1>3 DEF HasFile, At
<1>6. HasLock'
  BY <1>1, <1>2, <1>3 DEF HasLock
<1>7. LockHolderWorks'
  <2> SUFFICES ASSUME NEW k \in Inode, NEW r \in Process, held[k] = r
               PROVE  Inside(r)' /\ fd'[r] = k
    BY <1>1 DEF LockHolderWorks, Inside, Works, TypeOK
  <2>1. Inside(r) /\ fd[r] = k
    BY InstallDbAssumption DEF LockHolderWorks
  <2>2. r # q
    BY <1>2, <2>1
  <2> QED
    BY <1>1, <1>3, <2>1, <2>2
<1>8. OneWorker'
  BY <1>1, <1>2, <1>3 DEF OneWorker, MutualExclusion
<1> QED
  BY <1>b, <1>4, <1>5, <1>6, <1>7, <1>8

\* Taking the lock: nobody had it, and split tells whether somebody was at work.
LEMMA FlockStep ==
    ASSUME LockInv, NEW q \in Process, Flock(q)
    PROVE  LockInv'
<1> USE DEF LockInv
<1> DEFINE place == IF proc[q].op = "install" THEN "verify" ELSE "check"
<1>a. place \in Places /\ place \in Body /\ place # "flock"
  BY DEF Places, Body
<1>b. fd[q] \in Inode /\ held[fd[q]] = Nobody
  BY DEF Flock, HasFile
<1>c. TypeOK'
  <2>1. proc' \in [Process -> State]
    BY <1>a, GotoType DEF Flock
  <2>2. split' \in BOOLEAN
    BY DEF Flock, TypeOK
  <2> QED
    BY <1>b, <2>1, <2>2 DEF Flock, TypeOK, db
<1>1. /\ At(q, "flock")
      /\ proc'[q].at = place /\ proc'[q].job = proc[q].job
      /\ held' = [held EXCEPT ![fd[q]] = q] /\ fd' = fd
      /\ \A r \in Process \ {q} : proc'[r] = proc[r]
  BY DEF Flock, Goto, TypeOK, State
<1> HIDE DEF place
<1>2. Works(q)' /\ Inside(q)' /\ ~Inside(q)
  BY <1>1, <1>a DEF Inside, Works, At, Body, Leave
<1>3. \A r \in Process \ {q} : (Inside(r)' <=> Inside(r)) /\ (Works(r)' <=> Works(r))
  BY <1>1 DEF Inside, Works
<1>4. HasJob'
  BY <1>1 DEF HasJob, At
<1>5. HasFile'
  BY <1>1, <1>a, <1>b, <1>3 DEF HasFile, At
<1>6. HasLock'
  <2>1. held'[fd'[q]] = q
    BY <1>1, <1>b DEF TypeOK
  <2>2. ASSUME NEW r \in Process \ {q}, Inside(r) PROVE held'[fd'[r]] = r
    <3>1. fd[r] \in Inode /\ held[fd[r]] = r /\ r # Nobody
      BY <2>2, InstallDbAssumption DEF HasFile, HasLock
    <3> QED
      BY <1>1, <1>b, <3>1 DEF TypeOK
  <2> QED
    BY <2>1, <2>2, <1>3 DEF HasLock
<1>7. LockHolderWorks'
  <2> SUFFICES ASSUME NEW k \in Inode, NEW r \in Process, held'[k] = r
               PROVE  Inside(r)' /\ fd'[r] = k
    BY <1>c DEF LockHolderWorks, Inside, Works, TypeOK
  <2>1. CASE k = fd[q]
    BY <1>1, <1>b, <1>2, <2>1 DEF TypeOK
  <2>2. CASE k # fd[q]
    <3>1. held[k] = r /\ r # Nobody
      BY <1>1, <2>2, InstallDbAssumption DEF TypeOK
    <3>2. Inside(r) /\ fd[r] = k
      BY <3>1 DEF LockHolderWorks
    <3> QED
      BY <1>1, <1>2, <1>3, <3>2
  <2> QED
    BY <2>1, <2>2
<1>8. OneWorker'
  <2>1. ~split' => \A r \in Process \ {q} : ~Works(r)
    BY DEF Flock
  <2> QED
    BY <1>3, <2>1 DEF OneWorker, MutualExclusion
<1> QED
  BY <1>c, <1>4, <1>5, <1>6, <1>7, <1>8

\* Giving the lock up: whoever has another lock keeps it.
LEMMA CloseStep ==
    ASSUME LockInv, NEW q \in Process, Close(q)
    PROVE  LockInv'
<1> USE DEF LockInv
<1>a. At(q, "close") /\ Inside(q)
  BY DEF Close, At, Inside, Leave
<1>b. fd[q] \in Inode /\ held[fd[q]] = q
  BY <1>a DEF HasFile, HasLock
<1>c. /\ Continue(q) \in State
      /\ Continue(q).at \in {"idle", "open", "deps"}
      /\ Continue(q).at # "idle" => Continue(q).job # <<>>
  BY <1>a, ContinueType
<1> HIDE DEF Continue
<1>d. TypeOK'
  <2>1. proc' \in [Process -> State]
    BY <1>c DEF Close, TypeOK
  <2>2. /\ held' \in [Inode -> Process \cup {Nobody}]
        /\ fd' \in [Process -> Inode \cup {NoInode}]
    BY DEF Close, TypeOK
  <2> QED
    BY <2>1, <2>2 DEF Close, TypeOK, db
<1>1. /\ proc'[q] = Continue(q)
      /\ held' = [held EXCEPT ![fd[q]] = Nobody]
      /\ \A r \in Process \ {q} : proc'[r] = proc[r] /\ fd'[r] = fd[r]
      /\ UNCHANGED split
  BY DEF Close, TypeOK
<1>2. ~Inside(q)' /\ ~Works(q)' /\ ~At(q, "flock")'
  BY <1>1, <1>c DEF Inside, Works, At, Body, Leave
<1>3. \A r \in Process \ {q} : (Inside(r)' <=> Inside(r)) /\ (Works(r)' <=> Works(r))
  BY <1>1 DEF Inside, Works
<1>4. HasJob'
  BY <1>1, <1>c DEF HasJob
<1>5. HasFile'
  BY <1>1, <1>2, <1>3 DEF HasFile, At
<1>6. HasLock'
  <2> SUFFICES ASSUME NEW r \in Process \ {q}, Inside(r) PROVE held'[fd[r]] = r
    BY <1>1, <1>2, <1>3 DEF HasLock
  <2>1. fd[r] \in Inode /\ held[fd[r]] = r
    BY DEF HasFile, HasLock
  <2> QED
    BY <1>1, <1>b, <2>1 DEF TypeOK
<1>7. LockHolderWorks'
  <2> SUFFICES ASSUME NEW k \in Inode, NEW r \in Process, held'[k] = r
               PROVE  Inside(r)' /\ fd'[r] = k
    BY <1>d DEF LockHolderWorks, Inside, Works, TypeOK
  <2>1. held[k] = r /\ k # fd[q] /\ r # Nobody
    BY <1>1, InstallDbAssumption DEF TypeOK
  <2>2. Inside(r) /\ fd[r] = k
    BY <2>1 DEF LockHolderWorks
  <2>3. r # q
    BY <2>1, <2>2
  <2> QED
    BY <1>1, <1>3, <2>2, <2>3
<1>8. OneWorker'
  BY <1>1, <1>2, <1>3 DEF OneWorker, MutualExclusion
<1> QED
  BY <1>d, <1>4, <1>5, <1>6, <1>7, <1>8

\* Removing the lock file concerns nobody but those who open it later.
LEMMA UnlinkStep ==
    ASSUME LockInv, NEW q \in Process, Unlink(q), lockFile # NoInode
    PROVE  LockInv'
<1> USE DEF LockInv
<1>a. "close" \in Places
  BY DEF Places, Leave
<1>b. TypeOK'
  <2>1. proc' \in [Process -> State]
    BY <1>a, GotoType DEF Unlink
  <2> QED
    BY <2>1 DEF Unlink, TypeOK, db
<1>1. /\ At(q, "unlink") /\ proc'[q].at = "close" /\ proc'[q].job = proc[q].job
      /\ \A r \in Process \ {q} : proc'[r] = proc[r]
      /\ UNCHANGED <<held, fd, split>>
  BY DEF Unlink, Goto, TypeOK, State
<1>2. Inside(q) /\ Inside(q)' /\ ~Works(q)' /\ ~At(q, "flock")'
  BY <1>1 DEF Inside, Works, At, Body, Leave
<1>3. \A r \in Process : (Inside(r)' <=> Inside(r)) /\ (Works(r)' => Works(r))
  BY <1>1, <1>2 DEF Inside, Works
<1>4. HasJob'
  BY <1>1 DEF HasJob, At
<1>5. HasFile' /\ HasLock'
  BY <1>1, <1>2, <1>3 DEF HasFile, HasLock, At
<1>6. LockHolderWorks'
  <2> SUFFICES ASSUME NEW i \in Inode, NEW r \in Process, held[i] = r
               PROVE  Inside(r)' /\ fd[r] = i
    BY <1>1 DEF LockHolderWorks, Inside, Works, TypeOK
  <2> QED
    BY <1>3, InstallDbAssumption DEF LockHolderWorks
<1>7. OneWorker'
  BY <1>1, <1>3 DEF OneWorker, MutualExclusion
<1> QED
  BY <1>b, <1>4, <1>5, <1>6, <1>7

\* The part of the invariant about the lock is inductive by itself.
LEMMA LockStep == ASSUME LockInv, [Next]_vars PROVE LockInv'
<1> USE DEF LockInv
<1>1. ASSUME NEW q \in Process, NEW p \in Package,
             StartInstall(q, p) \/ StartUninstall(q, p) \/ LookAtDep(q, p) \/ Build(q)
      PROVE  LockInv'
  <2>1. proc' \in [Process -> State] /\ (proc'[q].at # "idle" => proc'[q].job # <<>>)
    BY <1>1, PrepareType
  <2>2. UNCHANGED <<db, lock, cutShort, split>> /\ \A r \in Process \ {q} : proc'[r] = proc[r]
    BY <1>1 DEF StartInstall, StartUninstall, LookAtDep, Build, TypeOK
  <2>3. TypeOK'
    BY <2>1, <2>2 DEF TypeOK, db, lock
  <2>4. proc[q].at \in {"idle", "deps"} /\ proc'[q].at \in {"deps", "open"}
    BY SMTT(30), <1>1 DEF StartInstall, StartUninstall, LookAtDep, Build, At, Idle, TypeOK, State
  <2>5. ~Inside(q) /\ ~Inside(q)' /\ ~Works(q)' /\ proc'[q].at # "flock"
    BY <2>4 DEF Inside, Works, Body, Leave
  <2> QED
    BY <2>1, <2>2, <2>3, <2>5, LocalStep
<1>2. ASSUME NEW q \in Process, Uninstall(q) \/ Install(q) \/ CallFails(q) PROVE LockInv'
  <2>1. /\ TypeOK'
        /\ \A r \in Process \ {q} : proc'[r] = proc[r]
        /\ proc'[q].job = proc[q].job
        /\ proc'[q].at \in Body \cup {"unlink"}
        /\ Works(q)
        /\ UNCHANGED <<lock, split>>
    BY <1>2, BodyStep
  <2>2. Inside(q) /\ Inside(q)' /\ proc'[q].at # "flock"
    BY <2>1 DEF Inside, Works, Body, Leave
  <2>3. proc'[q].job # <<>>
    BY <2>1 DEF HasJob, Works, Body
  <2> QED
    BY <2>1, <2>2, <2>3, LocalStep
<1>3. ASSUME NEW q \in Process, Exits(q), UNCHANGED <<db, lockFile, split>>, cutShort' \in BOOLEAN
      PROVE  LockInv'
  <2>1. TypeOK'
    BY <1>3, ExitsType DEF TypeOK
  <2> QED
    BY <1>3, <2>1, ExitsStep
<1>4. ASSUME NEW q \in Process, BuildFails(q) \/ FlockRefused(q) \/ Crash(q) PROVE LockInv'
  <2>1. Exits(q) /\ UNCHANGED <<db, lockFile, split>> /\ cutShort' \in BOOLEAN
    BY <1>4 DEF BuildFails, FlockRefused, Crash, TypeOK, Halfway
  <2> QED
    BY <2>1, <1>3
<1>5. ASSUME NEW q \in Process, Unlink(q) PROVE LockInv'
  <2>1. CASE lockFile # NoInode
    BY <1>5, <2>1, UnlinkStep
  <2>2. CASE lockFile = NoInode
    <3>1. Exits(q) /\ UNCHANGED <<db, lockFile, split>> /\ cutShort' \in BOOLEAN
      BY <1>5, <2>2 DEF Unlink, TypeOK
    <3> QED
      BY <3>1, <1>3
  <2> QED
    BY <2>1, <2>2
<1>6. ASSUME NEW q \in Process, OpenLock(q) \/ Flock(q) \/ Close(q) PROVE LockInv'
  BY <1>6, OpenStep, FlockStep, CloseStep
<1>7. ASSUME UNCHANGED vars PROVE LockInv'
  BY <1>7 DEF vars, TypeOK, HasJob, HasFile, HasLock, LockHolderWorks, OneWorker,
              MutualExclusion, Inside, Works, At
<1>8. ASSUME NEW q \in Process, Build(q) PROVE LockInv'
  <2>1. proc[q].at # "idle"
    BY <1>8 DEF Build, At
  <2>2. Pkg(q) \in Package
    BY <2>1, PkgType
  <2> QED
    BY <1>1, <1>8, <2>2
<1> QED
  BY <1>1, <1>2, <1>4, <1>5, <1>6, <1>7, <1>8 DEF Next, Command, Prepare, Lock

-----------------------------------------------------------------------------
(* The database *)

\* A step that changes no file, and after which the process is not half way
\* through its files, changes nothing about the database.
LEMMA QuietStep ==
    ASSUME DbInv, NEW q \in Process, UNCHANGED db, ~split' => ~split,
           \A r \in Process \ {q} : proc'[r] = proc[r],
           proc'[q].at \notin {"unstamp", "unfile", "file", "stamp"}
    PROVE  DbInv'
<1> SUFFICES ASSUME ~split' PROVE (StampsOK /\ Disjoint /\ WorkOK)'
  BY DEF DbInv
<1>1. StampsOK /\ Disjoint /\ WorkOK
  BY DEF DbInv
<1>2. StampsOK' /\ Disjoint'
  BY <1>1 DEF StampsOK, Disjoint, db
<1>3. ASSUME NEW r \in Process PROVE InOrder(r)'
  <2>1. CASE r = q
    BY <2>1 DEF InOrder, Unstamping, Unfiling, Filing, Stamping, At
  <2>2. CASE r # q
    <3>1. proc'[r] = proc[r] /\ InOrder(r)
      BY <1>1, <2>2 DEF WorkOK
    <3> QED
      BY <3>1 DEF InOrder, Unstamping, Unfiling, Filing, Stamping, At, Apart, Pkg, Dependents, db
  <2> QED
    BY <2>1, <2>2
<1> QED
  BY <1>2, <1>3 DEF WorkOK

\* When process q is the only one at work, what the others do needs no care.
LEMMA AloneStep ==
    ASSUME LockInv, NEW q \in Process, Uninstall(q) \/ Install(q), ~split',
           StampsOK', Disjoint', InOrder(q)'
    PROVE  DbInv'
<1>1. /\ \A r \in Process \ {q} : proc'[r] = proc[r]
      /\ Works(q) /\ UNCHANGED split
  BY BodyStep DEF LockInv
<1>2. \A r \in Process \ {q} : ~Works(r)
  BY <1>1 DEF LockInv, OneWorker, MutualExclusion
<1>3. ASSUME NEW r \in Process \ {q} PROVE InOrder(r)'
  BY <1>1, <1>2 DEF InOrder, Unstamping, Unfiling, Filing, Stamping, At, Works, Body
<1> QED
  BY <1>3 DEF DbInv, WorkOK

\* An uninstall takes the stamp first, then what only its package has.
LEMMA UninstallStep ==
    ASSUME LockInv, DbInv, NEW q \in Process, Uninstall(q)
    PROVE  DbInv'
<1> SUFFICES ASSUME ~split' PROVE DbInv'
  BY DEF DbInv
<1>a. /\ \A r \in Process \ {q} : proc'[r] = proc[r]
      /\ proc'[q].job = proc[q].job /\ Pkg(q)' = Pkg(q)
      /\ Works(q) /\ UNCHANGED split
  BY BodyStep DEF LockInv, Pkg
<1>b. StampsOK /\ Disjoint /\ Unfiling(q)
  BY <1>a DEF DbInv, WorkOK, InOrder
<1>c. proc \in [Process -> State] /\ Pkg(q) \in Package
  BY <1>a, PkgType DEF LockInv, TypeOK, Works, Body
<1>1. CASE Check(q)
  <2>1. CASE proc[q].op = "uninstall" /\ Dependents(Pkg(q)) # {}
    <3>1. UNCHANGED db /\ proc'[q].at = "unlink"
      BY <1>1, <1>c, <2>1 DEF Check, Fail, State
    <3> QED
      BY <1>a, <3>1, QuietStep
  <2>2. CASE ~(proc[q].op = "uninstall" /\ Dependents(Pkg(q)) # {})
    <3>1. /\ stamps' = stamps /\ lists' = lists /\ disk' = disk
          /\ proc'[q].at = "unstamp" /\ proc'[q].op = proc[q].op
      BY <1>1, <1>c, <2>2 DEF Check, Goto, State, db
    <3>2. StampsOK' /\ Disjoint'
      BY <1>b, <3>1 DEF StampsOK, Disjoint
    <3>3. Unstamping(q)'
      BY <1>a, <2>2, <3>1 DEF Unstamping, Dependents
    <3>4. InOrder(q)'
      BY <3>1, <3>3 DEF InOrder, Unfiling, Filing, Stamping, At
    <3> QED
      BY <3>2, <3>4, AloneStep
  <2> QED
    BY <2>1, <2>2
<1>2. CASE Unstamp(q)
  <2>1. CASE Pkg(q) \in stamps
    <3>1. /\ stamps' = stamps \ {Pkg(q)} /\ UNCHANGED <<lists, disk>>
          /\ proc'[q].at = "unfile" /\ proc'[q].files = Listed(Pkg(q))
      BY <1>2, <1>c, <2>1 DEF Unstamp, State
    <3>2. Listed(Pkg(q)) = Files[Pkg(q)]
      BY <1>b, <2>1 DEF StampsOK, Listed
    <3>3. StampsOK' /\ Disjoint'
      BY <1>b, <3>1 DEF StampsOK, Disjoint
    <3>4. Apart(q)'
      BY <1>a, <1>b, <2>1, <3>1 DEF Disjoint, Apart
    <3>5. InOrder(q)'
      BY <1>a, <3>1, <3>2, <3>4 DEF InOrder, Unstamping, Unfiling, Filing, Stamping, At
    <3> QED
      BY <3>3, <3>5, AloneStep
  <2>2. CASE Pkg(q) \notin stamps
    <3>1. UNCHANGED db /\ proc'[q].at = "unlink"
      BY <1>2, <1>c, <2>2 DEF Unstamp, Fail, State, db
    <3> QED
      BY <1>a, <3>1, QuietStep
  <2> QED
    BY <2>1, <2>2
<1>3. CASE RemoveList(q)
  <2>1. /\ stamps' = stamps /\ disk' = disk
        /\ lists' = [p \in DOMAIN lists \ {Pkg(q)} |-> lists[p]]
        /\ proc'[q].at = "unlink"
    BY <1>3, <1>c DEF RemoveList, Goto, State
  <2>2. Apart(q)
    BY <1>3, <1>b DEF RemoveList, Unfiling
  <2>3. StampsOK' /\ Disjoint'
    BY <1>b, <2>1, <2>2 DEF StampsOK, Disjoint, Apart
  <2>4. InOrder(q)'
    BY <2>1 DEF InOrder, Unstamping, Unfiling, Filing, Stamping, At
  <2> QED
    BY <2>3, <2>4, AloneStep
<1>4. ASSUME NEW f \in File, RemoveFile(q, f) PROVE DbInv'
  <2>1. /\ stamps' = stamps /\ lists' = lists /\ disk' = disk \ {f}
        /\ proc'[q].at = "unfile" /\ proc'[q].files = proc[q].files \ {f}
        /\ At(q, "unfile") /\ f \in proc[q].files
    BY <1>4, <1>c DEF RemoveFile, At, State
  <2>2. Apart(q) /\ f \in Files[Pkg(q)] /\ proc[q].files \subseteq Files[Pkg(q)]
    BY <2>1, <1>b DEF Unfiling
  <2>3. StampsOK' /\ Disjoint'
    BY <1>b, <2>1, <2>2 DEF StampsOK, Disjoint, Apart
  <2>4. Apart(q)'
    BY <1>a, <2>1, <2>2 DEF Apart
  <2>5. InOrder(q)'
    BY <1>a, <2>1, <2>2, <2>4 DEF InOrder, Unstamping, Unfiling, Filing, Stamping, At
  <2> QED
    BY <2>3, <2>5, AloneStep
<1> QED
  BY <1>1, <1>2, <1>3, <1>4 DEF Uninstall

\* An install adds what no installed package has, and the stamp last.
LEMMA InstallStep ==
    ASSUME LockInv, DbInv, NEW q \in Process, Install(q)
    PROVE  DbInv'
<1> SUFFICES ASSUME ~split' PROVE DbInv'
  BY DEF DbInv
<1>a. /\ \A r \in Process \ {q} : proc'[r] = proc[r]
      /\ proc'[q].job = proc[q].job /\ Pkg(q)' = Pkg(q)
      /\ Works(q) /\ UNCHANGED split
  BY BodyStep DEF LockInv, Pkg
<1>b. StampsOK /\ Disjoint /\ Filing(q) /\ Stamping(q)
  BY <1>a DEF DbInv, WorkOK, InOrder
<1>c. proc \in [Process -> State] /\ Pkg(q) \in Package
  BY <1>a, PkgType DEF LockInv, TypeOK, Works, Body
<1>1. CASE Verify(q)
  <2>1. CASE Pkg(q) \in stamps \/ Files[Pkg(q)] \cap disk # {}
    <3>1. UNCHANGED db /\ proc'[q].at = "unlink"
      BY <1>1, <1>c, <2>1 DEF Verify, Fail, State
    <3> QED
      BY <1>a, <3>1, QuietStep
  <2>2. CASE Pkg(q) \notin stamps /\ Files[Pkg(q)] \cap disk = {}
    <3>1. /\ stamps' = stamps /\ lists' = lists /\ disk' = disk
          /\ proc'[q].at = "file" /\ proc'[q].files = Files[Pkg(q)]
      BY <1>1, <1>c, <2>2 DEF Verify, State, db
    <3>2. StampsOK' /\ Disjoint'
      BY <1>b, <3>1 DEF StampsOK, Disjoint
    <3>3. Apart(q)'
      BY <1>a, <1>b, <2>2, <3>1 DEF Apart, StampsOK
    <3>4. InOrder(q)'
      BY <1>a, <3>1, <3>3 DEF InOrder, Unstamping, Unfiling, Filing, Stamping, At
    <3> QED
      BY <3>2, <3>4, AloneStep
  <2> QED
    BY <2>1, <2>2
<1>2. ASSUME NEW f \in File, InstallFile(q, f) PROVE DbInv'
  <2>1. /\ stamps' = stamps /\ lists' = lists /\ disk' = disk \cup {f}
        /\ proc'[q].at = "file" /\ proc'[q].files = proc[q].files \ {f}
        /\ At(q, "file")
    BY <1>2, <1>c DEF InstallFile, At, State
  <2>2. Apart(q) /\ Files[Pkg(q)] \ proc[q].files \subseteq disk
        /\ proc[q].files \subseteq Files[Pkg(q)]
    BY <2>1, <1>b DEF Filing
  <2>3. StampsOK' /\ Disjoint'
    BY <1>b, <2>1 DEF StampsOK, Disjoint
  <2>4. Apart(q)'
    BY <1>a, <2>1, <2>2 DEF Apart
  <2>5. InOrder(q)'
    BY <1>a, <2>1, <2>2, <2>4 DEF InOrder, Unstamping, Unfiling, Filing, Stamping, At
  <2> QED
    BY <2>3, <2>5, AloneStep
<1>3. CASE WriteFileList(q)
  <2>1. /\ stamps' = stamps /\ disk' = disk
        /\ lists' = [p \in DOMAIN lists \cup {Pkg(q)} |->
                        IF p = Pkg(q) THEN Files[p] ELSE lists[p]]
        /\ proc'[q].at = "stamp" /\ At(q, "file") /\ proc[q].files = {}
    BY <1>3, <1>c DEF WriteFileList, Goto, State
  <2>2. Apart(q) /\ Files[Pkg(q)] \subseteq disk
    BY <2>1, <1>b DEF Filing
  <2>3. StampsOK' /\ Disjoint'
    BY <1>b, <2>1 DEF StampsOK, Disjoint
  <2>4. Apart(q)'
    BY <1>a, <2>1, <2>2 DEF Apart
  <2>5. InOrder(q)'
    BY <1>a, <2>1, <2>2, <2>4 DEF InOrder, Unstamping, Unfiling, Filing, Stamping, At
  <2> QED
    BY <2>3, <2>5, AloneStep
<1>4. CASE WriteStamp(q)
  <2>1. /\ stamps' = stamps \cup {Pkg(q)} /\ lists' = lists /\ disk' = disk
        /\ proc'[q].at = "unlink" /\ At(q, "stamp")
    BY <1>4, <1>c DEF WriteStamp, Goto, State
  <2>2. /\ Apart(q) /\ Pkg(q) \in DOMAIN lists /\ lists[Pkg(q)] = Files[Pkg(q)]
        /\ Files[Pkg(q)] \subseteq disk
    BY <2>1, <1>b DEF Stamping
  <2>3. StampsOK' /\ Disjoint'
    BY <1>b, <2>1, <2>2 DEF StampsOK, Disjoint, Apart
  <2>4. InOrder(q)'
    BY <2>1 DEF InOrder, Unstamping, Unfiling, Filing, Stamping, At
  <2> QED
    BY <2>3, <2>4, AloneStep
<1> QED
  BY <1>1, <1>2, <1>3, <1>4 DEF Install

\* Every step keeps the database in order.
LEMMA DbStep == ASSUME IInv, [Next]_vars PROVE DbInv'
<1>a. TypeOK /\ HasJob /\ proc \in [Process -> State] /\ LockInv /\ DbInv
  BY DEF IInv, LockInv, TypeOK
<1>1. ASSUME NEW q \in Process, NEW p \in Package,
             StartInstall(q, p) \/ StartUninstall(q, p) \/ LookAtDep(q, p)
      PROVE  DbInv'
  <2>1. /\ UNCHANGED <<db, split>> /\ \A r \in Process \ {q} : proc'[r] = proc[r]
        /\ proc'[q].at \in {"deps", "open"}
    BY <1>1, <1>a DEF StartInstall, StartUninstall, LookAtDep, At, State
  <2> QED
    BY <1>a, <2>1, QuietStep
<1>2. ASSUME NEW q \in Process, Build(q) PROVE DbInv'
  <2>1. /\ UNCHANGED <<db, split>> /\ \A r \in Process \ {q} : proc'[r] = proc[r]
        /\ proc'[q].at = "open"
    BY <1>2, <1>a DEF Build, State
  <2> QED
    BY <1>a, <2>1, QuietStep
<1>3. ASSUME NEW q \in Process, Exits(q), UNCHANGED <<db, split>> PROVE DbInv'
  <2>1. /\ \A r \in Process \ {q} : proc'[r] = proc[r]
        /\ proc'[q].at = "idle"
    BY <1>3, <1>a DEF Exits, Idle
  <2> QED
    BY <1>3, <1>a, <2>1, QuietStep
<1>4. ASSUME NEW q \in Process, BuildFails(q) \/ FlockRefused(q) \/ Crash(q) PROVE DbInv'
  BY <1>3, <1>4 DEF BuildFails, FlockRefused, Crash
<1>5. ASSUME NEW q \in Process, OpenLock(q) PROVE DbInv'
  <2>1. /\ UNCHANGED <<db, split>> /\ \A r \in Process \ {q} : proc'[r] = proc[r]
        /\ proc'[q].at = "flock"
    BY <1>5, <1>a DEF OpenLock, Goto, State
  <2> QED
    BY <1>a, <2>1, QuietStep
<1>6. ASSUME NEW q \in Process, Flock(q) PROVE DbInv'
  <2>1. /\ UNCHANGED db /\ (~split' => ~split) /\ \A r \in Process \ {q} : proc'[r] = proc[r]
        /\ proc'[q].at \in {"verify", "check"}
    BY <1>6, <1>a DEF Flock, Goto, State
  <2> QED
    BY <1>a, <2>1, QuietStep
<1>7. ASSUME NEW q \in Process, Close(q) PROVE DbInv'
  <2>1. Continue(q).at \in {"idle", "open", "deps"}
    BY <1>7, <1>a, ContinueType DEF Close
  <2> HIDE DEF Continue
  <2>2. /\ UNCHANGED <<db, split>> /\ \A r \in Process \ {q} : proc'[r] = proc[r]
        /\ proc'[q] = Continue(q)
    BY <1>7, <1>a DEF Close
  <2> QED
    BY <1>a, <2>1, <2>2, QuietStep
<1>8. ASSUME NEW q \in Process, Unlink(q) PROVE DbInv'
  <2>1. CASE lockFile # NoInode
    <3>1. /\ UNCHANGED <<db, split>> /\ \A r \in Process \ {q} : proc'[r] = proc[r]
          /\ proc'[q].at = "close"
      BY <1>8, <1>a, <2>1 DEF Unlink, Goto, State
    <3> QED
      BY <1>a, <3>1, QuietStep
  <2>2. CASE lockFile = NoInode
    BY <1>3, <1>8, <2>2 DEF Unlink
  <2> QED
    BY <2>1, <2>2
<1>10. ASSUME NEW q \in Process, CallFails(q) PROVE DbInv'
  <2>1. /\ UNCHANGED <<db, split>> /\ \A r \in Process \ {q} : proc'[r] = proc[r]
        /\ proc'[q].at = "unlink"
    BY <1>10, <1>a DEF CallFails, Fail, State
  <2> QED
    BY <1>a, <2>1, QuietStep
<1>9. ASSUME UNCHANGED vars PROVE DbInv'
  BY <1>9, <1>a DEF vars, DbInv, StampsOK, Disjoint, WorkOK, InOrder, Unstamping,
                    Unfiling, Filing, Stamping, Apart, At, Pkg, Dependents
<1> QED
  BY <1>a, <1>1, <1>2, <1>4, <1>5, <1>6, <1>7, <1>8, <1>9, <1>10, UninstallStep,
     InstallStep
     DEF Next, Command, Prepare, Lock

\* A step that changes no file, by a process that has none due, leaves none.
LEMMA QuietFiles ==
    ASSUME NoStray, NEW q \in Process, UNCHANGED db,
           ~split' /\ ~cutShort' => ~split /\ ~cutShort,
           \A r \in Process \ {q} : proc'[r] = proc[r],
           \A f \in disk : ~Due(q, f)
    PROVE  NoStray'
<1> SUFFICES ASSUME ~split', ~cutShort', NEW f \in disk'
             PROVE  Owned(f)' \/ \E r \in Process : Due(r, f)'
  BY DEF NoStray
<1>1. f \in disk /\ (Owned(f)' <=> Owned(f))
  BY DEF db, Owned
<1>2. CASE Owned(f)
  BY <1>1, <1>2
<1>3. ASSUME NEW r \in Process, Due(r, f) PROVE Due(r, f)'
  <2>1. r # q
    BY <1>1, <1>3
  <2>2. proc'[r] = proc[r]
    BY <2>1
  <2> QED
    BY <1>3, <2>2 DEF Due, At, Pkg
<1> QED
  BY <1>1, <1>2, <1>3 DEF NoStray

\* When process q moves, files and stamps may change as long as every file that
\* was owned or due is gone, owned or due to q.
LEMMA DueFiles ==
    ASSUME LockInv, NoStray, NEW q \in Process, Uninstall(q) \/ Install(q),
           ~split', ~cutShort', UNCHANGED cutShort,
           \A f \in disk' :
               /\ f \in disk \/ Due(q, f)'
               /\ Owned(f) \/ Due(q, f) => Owned(f)' \/ Due(q, f)'
    PROVE  NoStray'
<1>1. /\ \A r \in Process \ {q} : proc'[r] = proc[r]
      /\ UNCHANGED split
  BY BodyStep DEF LockInv
<1> SUFFICES ASSUME NEW f \in disk' PROVE Owned(f)' \/ \E r \in Process : Due(r, f)'
  BY DEF NoStray
<1>2. CASE f \in disk
  <2>1. Owned(f) \/ \E r \in Process : Due(r, f)
    BY <1>1, <1>2 DEF NoStray
  <2>2. CASE Owned(f) \/ Due(q, f)
    BY <2>2
  <2>3. ASSUME NEW r \in Process \ {q}, Due(r, f) PROVE Due(r, f)'
    <3>1. proc'[r] = proc[r]
      BY <1>1
    <3> QED
      BY <2>3, <3>1 DEF Due, At, Pkg
  <2> QED
    BY <2>1, <2>2, <2>3
<1> QED
  BY <1>2

\* What the steps inside the lock do to the files that are due.
LEMMA BodyFiles ==
    ASSUME LockInv, DbInv, NoStray, NEW q \in Process, Uninstall(q) \/ Install(q)
    PROVE  NoStray'
<1>a. /\ \A r \in Process \ {q} : proc'[r] = proc[r]
      /\ Pkg(q)' = Pkg(q) /\ Works(q) /\ UNCHANGED split
  BY BodyStep DEF LockInv, Pkg
<1>b. UNCHANGED cutShort
  BY DEF Uninstall, Install, Check, Unstamp, RemoveFile, RemoveList, Verify, InstallFile,
         WriteFileList, WriteStamp
<1> SUFFICES ASSUME ~split', ~cutShort' PROVE NoStray'
  BY DEF NoStray
<1>c. StampsOK /\ InOrder(q)
  BY <1>a DEF DbInv, WorkOK
<1>d. proc \in [Process -> State] /\ Pkg(q) \in Package
  BY <1>a, PkgType DEF LockInv, TypeOK, Works, Body
<1>1. CASE Check(q) \/ Verify(q)
  <2>1. UNCHANGED db /\ proc[q].at \notin {"unfile", "file", "stamp"}
    BY <1>1 DEF Check, Verify, At
  <2>2. \A f \in disk : ~Due(q, f)
    BY <2>1 DEF Due, At
  <2> QED
    BY <1>a, <1>b, <2>1, <2>2, QuietFiles
<1>2. CASE Unstamp(q)
  <2>1. CASE Pkg(q) \in stamps
    <3>1. /\ stamps' = stamps \ {Pkg(q)} /\ disk' = disk /\ At(q, "unstamp")
          /\ proc'[q].at = "unfile" /\ proc'[q].files = Listed(Pkg(q))
      BY <1>2, <1>d, <2>1 DEF Unstamp, State
    <3>2. Listed(Pkg(q)) = Files[Pkg(q)]
      BY <1>c, <2>1 DEF StampsOK, Listed
    <3>3. \A f \in disk' : Owned(f) \/ Due(q, f) => Owned(f)' \/ Due(q, f)'
      BY <3>1, <3>2 DEF Owned, Due, At
    <3> QED
      BY <1>b, <3>1, <3>3, DueFiles
  <2>2. CASE Pkg(q) \notin stamps
    <3>1. UNCHANGED db /\ proc[q].at \notin {"unfile", "file", "stamp"}
      BY <1>2, <2>2 DEF Unstamp, At, db
    <3>2. \A f \in disk : ~Due(q, f)
      BY <3>1 DEF Due, At
    <3> QED
      BY <1>a, <1>b, <3>1, <3>2, QuietFiles
  <2> QED
    BY <2>1, <2>2
<1>3. ASSUME NEW g \in File, RemoveFile(q, g) PROVE NoStray'
  <2>1. /\ stamps' = stamps /\ disk' = disk \ {g} /\ At(q, "unfile")
        /\ proc'[q].at = "unfile" /\ proc'[q].files = proc[q].files \ {g}
    BY <1>3, <1>d DEF RemoveFile, At, State
  <2>2. \A f \in disk' : Owned(f) \/ Due(q, f) => Owned(f)' \/ Due(q, f)'
    BY <2>1 DEF Owned, Due, At
  <2> QED
    BY <1>b, <2>1, <2>2, DueFiles
<1>4. CASE RemoveList(q)
  <2>1. stamps' = stamps /\ disk' = disk /\ At(q, "unfile") /\ proc[q].files = {}
    BY <1>4 DEF RemoveList
  <2>2. \A f \in disk' : Owned(f) \/ Due(q, f) => Owned(f)' \/ Due(q, f)'
    BY <2>1 DEF Owned, Due, At
  <2> QED
    BY <1>b, <2>1, <2>2, DueFiles
<1>5. ASSUME NEW g \in File, InstallFile(q, g) PROVE NoStray'
  <2>1. /\ stamps' = stamps /\ disk' = disk \cup {g} /\ At(q, "file") /\ g \in proc[q].files
        /\ proc'[q].at = "file" /\ proc'[q].files = proc[q].files \ {g}
    BY <1>5, <1>d DEF InstallFile, At, State
  <2>2. g \in Files[Pkg(q)]
    BY <1>c, <2>1 DEF InOrder, Filing
  <2>3. \A f \in disk' : Owned(f) \/ Due(q, f) => Owned(f)' \/ Due(q, f)'
    BY <1>a, <2>1 DEF Owned, Due, At
  <2>4. \A f \in disk' : f \in disk \/ Due(q, f)'
    BY <1>a, <2>1, <2>2 DEF Due, At
  <2> QED
    BY <1>b, <2>3, <2>4, DueFiles
<1>6. CASE WriteFileList(q)
  <2>1. stamps' = stamps /\ disk' = disk /\ At(q, "file") /\ proc'[q].at = "stamp"
    BY <1>6, <1>d DEF WriteFileList, Goto, State
  <2>2. \A f \in disk' : Owned(f) \/ Due(q, f) => Owned(f)' \/ Due(q, f)'
    BY <1>a, <2>1 DEF Owned, Due, At
  <2> QED
    BY <1>b, <2>1, <2>2, DueFiles
<1>7. CASE WriteStamp(q)
  <2>1. stamps' = stamps \cup {Pkg(q)} /\ disk' = disk /\ At(q, "stamp")
    BY <1>7 DEF WriteStamp
  <2>2. \A f \in disk' : Owned(f) \/ Due(q, f) => Owned(f)' \/ Due(q, f)'
    BY <2>1 DEF Owned, Due, At
  <2> QED
    BY <1>b, <2>1, <2>2, DueFiles
<1> QED
  BY <1>1, <1>2, <1>3, <1>4, <1>5, <1>6, <1>7 DEF Uninstall, Install

\* A command that is not half way has no file due.
LEMMA NothingDue ==
    ASSUME NEW q \in Process, NEW f, ~Halfway(q)
    PROVE  ~Due(q, f)
BY DEF Halfway, Due, At

\* A command that is killed or fails when it is not half way leaves no file.
LEMMA EndedFiles ==
    ASSUME IInv, NEW q \in Process, CallFails(q) \/ Crash(q)
    PROVE  NoStray'
<1>1. proc \in [Process -> State] /\ NoStray
  BY DEF IInv, LockInv, TypeOK
<1>2. CASE Halfway(q)
  BY <1>2 DEF CallFails, Crash, NoStray
<1>3. CASE ~Halfway(q)
  <2>1. UNCHANGED <<db, split>> /\ (~cutShort' => ~cutShort)
    BY DEF CallFails, Crash
  <2>2. \A r \in Process \ {q} : proc'[r] = proc[r]
    BY <1>1 DEF CallFails, Crash, Exits, Fail
  <2>3. \A f \in disk : ~Due(q, f)
    BY <1>3, NothingDue
  <2> QED
    BY <1>1, <2>1, <2>2, <2>3, QuietFiles
<1> QED
  BY <1>2, <1>3

\* Every step leaves files that are owned, due or of a command cut short.
LEMMA FilesStep == ASSUME IInv, [Next]_vars PROVE NoStray'
<1>a. TypeOK /\ HasJob /\ proc \in [Process -> State] /\ LockInv /\ DbInv /\ NoStray
  BY DEF IInv, LockInv, TypeOK
<1>1. ASSUME NEW q \in Process, NEW p \in Package,
             \/ StartInstall(q, p) \/ StartUninstall(q, p) \/ LookAtDep(q, p)
             \/ Build(q) \/ OpenLock(q) \/ Flock(q) \/ Close(q)
      PROVE  NoStray'
  <2>1. /\ UNCHANGED <<db, cutShort>> /\ (~split' => ~split)
        /\ \A r \in Process \ {q} : proc'[r] = proc[r]
    <3> HIDE DEF Continue
    <3>1. CASE StartInstall(q, p) \/ StartUninstall(q, p) \/ LookAtDep(q, p) \/ Build(q)
      BY SMTT(30), <1>a, <3>1 DEF StartInstall, StartUninstall, LookAtDep, Build
    <3>2. CASE OpenLock(q)
      BY <1>a, <3>2 DEF OpenLock, Goto
    <3>3. CASE Flock(q)
      BY <1>a, <3>3 DEF Flock, Goto
    <3>4. CASE Close(q)
      BY <1>a, <3>4 DEF Close
    <3> QED
      BY <1>1, <3>1, <3>2, <3>3, <3>4
  <2>2. proc[q].at \in {"idle", "deps", "open", "flock", "close"}
    BY SMTT(30), <1>1 DEF StartInstall, StartUninstall, LookAtDep, Build, OpenLock, Flock, Close, At, Idle
  <2>3. \A f \in disk : ~Due(q, f)
    BY <2>2 DEF Due, At
  <2> QED
    BY <1>a, <2>1, <2>3, QuietFiles
<1>2. ASSUME NEW q \in Process, BuildFails(q) \/ FlockRefused(q) \/ Unlink(q) PROVE NoStray'
  <2>1. UNCHANGED <<db, cutShort, split>> /\ \A r \in Process \ {q} : proc'[r] = proc[r]
    BY <1>2, <1>a DEF BuildFails, FlockRefused, Unlink, Exits, Goto
  <2>2. proc[q].at \in {"deps", "flock", "unlink"}
    BY <1>2 DEF BuildFails, FlockRefused, Unlink, At
  <2>3. \A f \in disk : ~Due(q, f)
    BY <2>2 DEF Due, At
  <2> QED
    BY <1>a, <2>1, <2>3, QuietFiles
<1>3. ASSUME NEW q \in Process, CallFails(q) \/ Crash(q) PROVE NoStray'
  BY <1>3, EndedFiles
<1>4. ASSUME UNCHANGED vars PROVE NoStray'
  BY <1>4, <1>a DEF vars, NoStray, Owned, Due, At, Pkg
<1>5. ASSUME NEW q \in Process, Build(q) \/ OpenLock(q) \/ Flock(q) \/ Close(q) PROVE NoStray'
  <2>1. proc[q].at # "idle"
    BY <1>5 DEF Build, OpenLock, Flock, Close, At
  <2>2. Pkg(q) \in Package
    BY <1>a, <2>1, PkgType
  <2> QED
    BY <1>1, <1>5, <2>2
<1> QED
  BY <1>a, <1>1, <1>2, <1>3, <1>4, <1>5, BodyFiles DEF Next, Command, Prepare, Lock

-----------------------------------------------------------------------------
(* The theorems *)

\* Nothing is installed and nobody runs: the invariant holds.
LEMMA InitInv == Init => IInv
<1> SUFFICES ASSUME Init PROVE IInv
  OBVIOUS
<1>1. TypeOK
  <2>1. proc \in [Process -> State]
    BY IdleType DEF Init
  <2>2. lists \in [DOMAIN lists -> SUBSET File] /\ DOMAIN lists \subseteq Package
    BY DEF Init
  <2> QED
    BY <2>1, <2>2 DEF Init, TypeOK
<1>2. \A q \in Process : proc[q].at = "idle"
  BY DEF Init, Idle
<1>3. \A q \in Process : ~Works(q) /\ ~Inside(q)
  BY <1>2 DEF Works, Inside, Body, Leave
<1>4. LockInv
  BY <1>1, <1>2, <1>3 DEF LockInv, HasJob, HasFile, HasLock, LockHolderWorks, OneWorker,
                          MutualExclusion, At, Init
<1>5. DbInv
  BY <1>2 DEF Init, DbInv, StampsOK, Disjoint, WorkOK, InOrder, Unstamping, Unfiling, Filing, Stamping, At
<1>6. NoStray
  BY DEF Init, NoStray
<1> QED
  BY <1>4, <1>5, <1>6 DEF IInv

\* The inductive invariant holds in every state of every behaviour.
THEOREM Invariance == Spec => []IInv
<1>1. ASSUME IInv, [Next]_vars PROVE IInv'
  BY <1>1, LockStep, DbStep, FilesStep DEF IInv
<1> QED
  BY InitInv, <1>1, PTL DEF Spec

\* The variables keep their types, for any number of packages and processes.
THEOREM TypeCorrect == Spec => []TypeOK
<1>1. IInv => TypeOK
  BY DEF IInv, LockInv
<1> QED
  BY <1>1, Invariance, PTL

\* After any installs, uninstalls, failures and crashes a stamp stands for the
\* list and the files of its package, as long as _install and do_uninstall never
\* ran at once.
THEOREM StampsAreTrue == Spec => []StampMeansFiles
<1>1. IInv => StampMeansFiles
  BY DEF IInv, DbInv, StampsOK, StampMeansFiles
<1> QED
  BY <1>1, Invariance, PTL

\* No lock on an inode of webports.lock outlives the process that took it.
THEOREM LocksAreHeldByWorkers == Spec => []LockHolderWorks
<1>1. IInv => LockHolderWorks
  BY DEF IInv, LockInv
<1> QED
  BY <1>1, Invariance, PTL

\* No uninstall takes the stamp of a package that an installed one depends on,
\* whatever the other processes did since the command looked.
THEOREM DependentsAreSafe == Spec => DependentsProtected
<1>1. ASSUME IInv, NEW q \in Process, At(q, "unstamp"), proc[q].op = "uninstall", ~split
      PROVE  Dependents(Pkg(q)) = {}
  BY <1>1 DEF IInv, DbInv, WorkOK, InOrder, Unstamping
<1>2. IInv => [\A q \in Process :
                  At(q, "unstamp") /\ proc[q].op = "uninstall" /\ ~split
                  /\ stamps' = stamps \ {Pkg(q)} /\ stamps' # stamps
                    => Dependents(Pkg(q)) = {}]_vars
  BY <1>1
<1> QED
  BY <1>2, Invariance, PTL DEF DependentsProtected

\* When nobody is inside the lock and no command ended half way, by a kill or by a
\* call that failed, every file in the root belongs to an installed package.
THEOREM NothingIsLeftBehind == Spec => []FilesAreOwned
<1>1. ASSUME IInv PROVE FilesAreOwned
  <2> SUFFICES ASSUME ~split, ~cutShort, \A q \in Process : ~Inside(q), NEW f \in disk
               PROVE  \E p \in stamps : f \in Files[p]
    BY DEF FilesAreOwned
  <2>1. \A q \in Process : ~Due(q, f)
    BY DEF Due, At, Inside, Works, Body
  <2> QED
    BY <1>1, <2>1 DEF IInv, NoStray, Owned
<1> QED
  BY <1>1, Invariance, PTL
=============================================================================
