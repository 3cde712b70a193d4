------------------------------ MODULE InstallDb ------------------------------
(***************************************************************************)
(* What webports keeps about installed packages in one toolchain directory *)
(* (lib/webports/binary_package.py, installed_package.py and the locks of  *)
(* util.py): the files of the packages, a list of files and a stamp per    *)
(* package, and the lock file.  Several webports processes install and     *)
(* uninstall, each of them one file-system call at a time; any of them can *)
(* be killed between two calls, and any of the calls made under the lock   *)
(* can fail.                                                               *)
(*                                                                         *)
(* A process installs the missing dependencies of a package first.  The    *)
(* build of a package is a single step that may fail.  --force is not      *)
(* used, and "uninstall --all" is a sequence of uninstalls.                *)
(***************************************************************************)
EXTENDS Naturals, Sequences, FiniteSets

CONSTANTS Package,   \* the packages
          File,      \* the files they install
          Files,     \* Files[p] is the payload of package p
          Depends,   \* Depends[p] is the set of packages p depends on
          Process,   \* the webports processes
          Nobody,    \* the holder of an inode that is not locked
          NoInode    \* no lock file, no open file

ASSUME InstallDbAssumption ==
    /\ Files \in [Package -> SUBSET File]
    /\ Depends \in [Package -> SUBSET Package]
    /\ IsFiniteSet(Process)
    /\ Nobody \notin Process
    /\ NoInode \notin Nat

VARIABLES stamps,    \* packages that have a .info file
          lists,     \* package -> files named in its .list file, if it has one
          disk,      \* files in the install root
          lockFile,  \* the inode webports.lock names
          held,      \* inode -> the process that has it locked
          fd,        \* process -> the inode it has open
          proc,      \* process -> the command it runs and where it is
          cutShort,  \* history: a command ended half way, killed or by a failed call
          split      \* history: two processes worked under the lock at once

db   == <<stamps, lists, disk>>
lock == <<lockFile, held, fd>>
vars == <<stamps, lists, disk, lockFile, held, fd, proc, cutShort, split>>

-----------------------------------------------------------------------------
(* Data *)

\* A file that is created gets a number that no file in use has.
Inode == 1 .. Cardinality(Process) + 1

\* The steps of do_uninstall and of _install, and those of leaving the lock.
Body   == {"check", "unstamp", "unfile", "verify", "file", "stamp"}
Leave  == {"unlink", "close"}
Places == {"idle", "deps", "open", "flock"} \cup Body \cup Leave

\* A process replaces a package by uninstalling and installing it.
Ops == {"none", "install", "uninstall", "replace"}

\* A package to install, with the dependencies that were not looked at yet.
Frame == [pkg : Package, deps : SUBSET Package]

\* job holds the packages to install, innermost dependency first, files what is
\* left to move or remove, failing an exception on its way out.
State == [at : Places, op : Ops, job : Seq(Frame), files : SUBSET File, failing : BOOLEAN]

Idle == [at |-> "idle", op |-> "none", job |-> <<>>, files |-> {}, failing |-> FALSE]

At(q, place) == proc[q].at = place
Pkg(q)       == Head(proc[q].job).pkg
Works(q)     == proc[q].at \in Body
Inside(q)    == Works(q) \/ proc[q].at \in Leave

Goto(q, place) == proc' = [proc EXCEPT ![q].at = place]
Fail(q)        == proc' = [proc EXCEPT ![q].at = "unlink", ![q].failing = TRUE]

\* A command has made some of its changes: it has moved a file and not written
\* the stamp, or removed the stamp and not the list.
Halfway(q) ==
    \/ proc[q].at \in {"unfile", "stamp"}
    \/ At(q, "file") /\ proc[q].files # Files[Pkg(q)]

\* Whoever runs the process, its files are closed and its lock is free.
Exits(q) ==
    /\ proc' = [proc EXCEPT ![q] = Idle]
    /\ held' = [i \in Inode |-> IF held[i] = q THEN Nobody ELSE held[i]]
    /\ fd' = [fd EXCEPT ![q] = NoInode]

\* The installed packages that name p among their dependencies.
Dependents(p) == {r \in stamps : p \in Depends[r]}

-----------------------------------------------------------------------------
(* The commands: install with its dependencies, uninstall *)

\* cmd_pkg_install -> SourcePackage.install.  A package that is installed and
\* up to date is left alone; any other is built and installed or replaced.
StartInstall(q, p) ==
    /\ proc[q] = Idle
    /\ proc' = [proc EXCEPT ![q].at = "deps", ![q].job = <<[pkg |-> p, deps |-> Depends[p]]>>]
    /\ UNCHANGED <<db, lock, cutShort, split>>

\* install_deps: a dependency of which no version is installed comes first.
LookAtDep(q, d) ==
    /\ At(q, "deps")
    /\ d \in Head(proc[q].job).deps
    /\ LET frames == [proc[q].job EXCEPT ![1].deps = @ \ {d}]
       IN  proc' = [proc EXCEPT ![q].job =
               IF d \in stamps THEN frames
                               ELSE <<[pkg |-> d, deps |-> Depends[d]]>> \o frames]
    /\ UNCHANGED <<db, lock, cutShort, split>>

\* The package is built or downloaded.
Build(q) ==
    /\ At(q, "deps")
    /\ Head(proc[q].job).deps = {}
    /\ proc' = [proc EXCEPT ![q].at = "open",
                            ![q].op = IF Pkg(q) \in stamps THEN "replace" ELSE "install"]
    /\ UNCHANGED <<db, lock, cutShort, split>>

\* The build or the download fails.
BuildFails(q) ==
    /\ At(q, "deps")
    /\ Head(proc[q].job).deps = {}
    /\ Exits(q)
    /\ UNCHANGED <<db, lockFile, cutShort, split>>

\* cmd_pkg_uninstall refuses a package that another one depends on, and so does
\* do_uninstall again inside the lock.
StartUninstall(q, p) ==
    /\ proc[q] = Idle
    /\ p \in stamps /\ Dependents(p) = {}
    /\ proc' = [proc EXCEPT ![q].at = "open", ![q].op = "uninstall",
                            ![q].job = <<[pkg |-> p, deps |-> {}]>>]
    /\ UNCHANGED <<db, lock, cutShort, split>>

-----------------------------------------------------------------------------
(* DirLock *)

\* The constructor opens the lock file and creates it if there is none.
OpenLock(q) ==
    /\ At(q, "open")
    /\ LET free == Inode \ {fd[r] : r \in Process}
           i    == IF lockFile # NoInode THEN lockFile ELSE CHOOSE n \in free : TRUE
       IN  lockFile' = i /\ fd' = [fd EXCEPT ![q] = i]
    /\ Goto(q, "flock")
    /\ UNCHANGED <<db, held, cutShort, split>>

\* __enter__ locks the file it opened, whether or not it still has a name.
Flock(q) ==
    /\ At(q, "flock")
    /\ held[fd[q]] = Nobody
    /\ held' = [held EXCEPT ![fd[q]] = q]
    /\ Goto(q, IF proc[q].op = "install" THEN "verify" ELSE "check")
    /\ split' = (split \/ \E r \in Process \ {q} : Works(r))
    /\ UNCHANGED <<db, lockFile, fd, cutShort>>

\* "Unable to acquire lock": the command fails.
FlockRefused(q) ==
    /\ At(q, "flock")
    /\ held[fd[q]] # Nobody
    /\ Exits(q)
    /\ UNCHANGED <<db, lockFile, cutShort, split>>

\* __exit__ removes the file, whoever made it, and raises if there is none.
Unlink(q) ==
    /\ At(q, "unlink")
    /\ IF lockFile # NoInode
       THEN /\ lockFile' = NoInode
            /\ Goto(q, "close")
            /\ UNCHANGED <<held, fd>>
       ELSE Exits(q) /\ UNCHANGED lockFile
    /\ UNCHANGED <<db, cutShort, split>>

\* What a process does after the lock: the second half of a replacement, the
\* package that asked for a dependency, or nothing.
Continue(q) ==
    IF proc[q].failing \/ proc[q].op = "uninstall" THEN Idle
    ELSE IF proc[q].op = "replace" THEN [proc[q] EXCEPT !.at = "open", !.op = "install"]
    ELSE IF Len(proc[q].job) = 1 THEN Idle
    ELSE [Idle EXCEPT !.at = "deps", !.job = Tail(proc[q].job)]

\* Closing the file gives the lock up.
Close(q) ==
    /\ At(q, "close")
    /\ held' = [held EXCEPT ![fd[q]] = Nobody]
    /\ fd' = [fd EXCEPT ![q] = NoInode]
    /\ proc' = [proc EXCEPT ![q] = Continue(q)]
    /\ UNCHANGED <<db, lockFile, cutShort, split>>

-----------------------------------------------------------------------------
(* do_uninstall, inside the lock *)

\* Mutant: nobody asks who depends on the package.
CheckNothing(q) ==
    /\ At(q, "check")
    /\ Goto(q, "unstamp")
    /\ UNCHANGED <<db, lock, cutShort, split>>

\* Only a replacement, do_uninstall(force=True), may break dependents.
Check(q) ==
    /\ At(q, "check")
    /\ IF proc[q].op = "uninstall" /\ Dependents(Pkg(q)) # {} THEN Fail(q) ELSE Goto(q, "unstamp")
    /\ UNCHANGED <<db, lock, cutShort, split>>

\* Mutant: the list is gone before the files are removed.
Unlisted(p) == {}

\* The files named in the list of package p.
Listed(p) == IF p \in DOMAIN lists THEN lists[p] ELSE {}

\* The stamp goes first.
Unstamp(q) ==
    /\ At(q, "unstamp")
    /\ IF Pkg(q) \in stamps
       THEN /\ stamps' = stamps \ {Pkg(q)}
            /\ proc' = [proc EXCEPT ![q].at = "unfile", ![q].files = Listed(Pkg(q))]
       ELSE Fail(q) /\ UNCHANGED stamps
    /\ UNCHANGED <<lists, disk, lock, cutShort, split>>

\* A listed file that is missing is only warned about.
RemoveFile(q, f) ==
    /\ At(q, "unfile")
    /\ f \in proc[q].files
    /\ disk' = disk \ {f}
    /\ proc' = [proc EXCEPT ![q].files = @ \ {f}]
    /\ UNCHANGED <<stamps, lists, lock, cutShort, split>>

\* The list goes last.
RemoveList(q) ==
    /\ At(q, "unfile")
    /\ proc[q].files = {}
    /\ lists' = [p \in DOMAIN lists \ {Pkg(q)} |-> lists[p]]
    /\ Goto(q, "unlink")
    /\ UNCHANGED <<stamps, disk, lock, cutShort, split>>

-----------------------------------------------------------------------------
(* BinaryPackage._install, inside the lock *)

\* Mutant: files of other packages are overwritten.
VerifyStampOnly(q) ==
    /\ At(q, "verify")
    /\ IF Pkg(q) \in stamps
       THEN Fail(q)
       ELSE proc' = [proc EXCEPT ![q].at = "file", ![q].files = Files[Pkg(q)]]
    /\ UNCHANGED <<db, lock, cutShort, split>>

\* The package must not be installed and none of its files may exist.
Verify(q) ==
    /\ At(q, "verify")
    /\ IF Pkg(q) \in stamps \/ Files[Pkg(q)] \cap disk # {}
       THEN Fail(q)
       ELSE proc' = [proc EXCEPT ![q].at = "file", ![q].files = Files[Pkg(q)]]
    /\ UNCHANGED <<db, lock, cutShort, split>>

\* install_file moves one file into the root.
InstallFile(q, f) ==
    /\ At(q, "file")
    /\ f \in proc[q].files
    /\ disk' = disk \cup {f}
    /\ proc' = [proc EXCEPT ![q].files = @ \ {f}]
    /\ UNCHANGED <<stamps, lists, lock, cutShort, split>>

\* write_file_list, when all files are there.
WriteFileList(q) ==
    /\ At(q, "file")
    /\ proc[q].files = {}
    /\ lists' = [p \in DOMAIN lists \cup {Pkg(q)} |-> IF p = Pkg(q) THEN Files[p] ELSE lists[p]]
    /\ Goto(q, "stamp")
    /\ UNCHANGED <<stamps, disk, lock, cutShort, split>>

\* write_stamp, last.
WriteStamp(q) ==
    /\ At(q, "stamp")
    /\ stamps' = stamps \cup {Pkg(q)}
    /\ Goto(q, "unlink")
    /\ UNCHANGED <<lists, disk, lock, cutShort, split>>

-----------------------------------------------------------------------------
\* os.makedirs, os.rename, os.remove or open raises, or the list or the stamp
\* cannot be written: the exception leaves through DirLock.__exit__, and what was
\* changed stays changed.  A stamp is written by one call, or not at all.
CallFails(q) ==
    /\ Works(q)
    /\ Fail(q)
    /\ cutShort' = (cutShort \/ Halfway(q))
    /\ UNCHANGED <<db, lock, split>>

\* The process is killed.  The system closes its files; the lock file stays.
Crash(q) ==
    /\ proc[q] # Idle
    /\ Exits(q)
    /\ cutShort' = (cutShort \/ Halfway(q))
    /\ UNCHANGED <<db, lockFile, split>>

Init ==
    /\ stamps = {} /\ lists = << >> /\ disk = {}
    /\ lockFile = NoInode
    /\ held = [i \in Inode |-> Nobody]
    /\ fd = [q \in Process |-> NoInode]
    /\ proc = [q \in Process |-> Idle]
    /\ cutShort = FALSE /\ split = FALSE

Command(q)   == \E p \in Package : StartInstall(q, p) \/ StartUninstall(q, p)
Prepare(q)   == (\E d \in Package : LookAtDep(q, d)) \/ Build(q) \/ BuildFails(q)
Lock(q)      == OpenLock(q) \/ Flock(q) \/ FlockRefused(q) \/ Unlink(q) \/ Close(q)
Uninstall(q) == Check(q) \/ Unstamp(q) \/ RemoveList(q) \/ \E f \in File : RemoveFile(q, f)
Install(q)   == Verify(q) \/ WriteFileList(q) \/ WriteStamp(q) \/ \E f \in File : InstallFile(q, f)

Next == \E q \in Process :
            \/ Command(q) \/ Prepare(q) \/ Lock(q)
            \/ Uninstall(q) \/ Install(q)
            \/ CallFails(q) \/ Crash(q)

Spec == Init /\ [][Next]_vars

-----------------------------------------------------------------------------
(* Properties *)

\* The types of the variables.
TypeOK ==
    /\ stamps \subseteq Package
    /\ DOMAIN lists \subseteq Package
    /\ lists \in [DOMAIN lists -> SUBSET File]
    /\ disk \subseteq File
    /\ lockFile \in Inode \cup {NoInode}
    /\ held \in [Inode -> Process \cup {Nobody}]
    /\ fd \in [Process -> Inode \cup {NoInode}]
    /\ proc \in [Process -> State]
    /\ cutShort \in BOOLEAN /\ split \in BOOLEAN

\* Whatever was installed, uninstalled or refused, and whatever failed or was
\* killed half way: a package that has a stamp has its list and all its files
\* (_install writes the stamp last, do_uninstall removes it first).  This is
\* claimed as long as the lock has kept the processes apart.
StampMeansFiles ==
    ~split => \A p \in stamps :
        p \in DOMAIN lists /\ lists[p] = Files[p] /\ Files[p] \subseteq disk

\* When nobody works and no command ended half way, every file in the root belongs
\* to an installed package: a command that is refused, or fails or is killed
\* before its first change or after its last, leaves nothing behind.  One that
\* fails between them does leave files behind (binary_package.py rolls nothing
\* back), and the next install of the package is refused because of them.
FilesAreOwned ==
    ~split /\ ~cutShort /\ (\A q \in Process : ~Inside(q)) =>
        disk \subseteq UNION {Files[p] : p \in stamps}

\* Uninstalling takes no package away that an installed one depends on, although
\* another process may have installed the dependent since the command checked
\* (cmd_pkg_uninstall before the lock, do_uninstall inside).
DependentsProtected ==
    [][\A q \in Process :
          At(q, "unstamp") /\ proc[q].op = "uninstall" /\ ~split
          /\ stamps' = stamps \ {Pkg(q)} /\ stamps' # stamps
            => Dependents(Pkg(q)) = {}]_vars

\* A lock is held by a process that works under it: no lock outlives its owner.
LockHolderWorks ==
    \A i \in Inode : held[i] # Nobody => Inside(held[i]) /\ fd[held[i]] = i

\* "This class will raise an exception if another process already holds the lock
\* for the given directory" (lib/webports/util.py:454): two processes are never
\* at work under it at once.  The code keeps this promise only until a process
\* locks a file that another is about to remove (Unlink, util.py:472): split
\* records that it happened, and OneWorker of InstallDb_proofs that nothing else
\* breaks it.
MutualExclusion == \A q, r \in Process : Works(q) /\ Works(r) => q = r
=============================================================================
