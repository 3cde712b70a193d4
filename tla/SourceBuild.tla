----------------------------- MODULE SourceBuild -----------------------------
(***************************************************************************)
(* How webports builds one port from source (lib/webports/                 *)
(* source_package.py, the package step and the stamps of                   *)
(* build_tools/common.sh): the upstream archive goes through the download  *)
(* cache into a source tree, the tree is patched, and each configuration   *)
(* makes a package file from it.  Stamps say what was done to the tree.    *)
(*                                                                         *)
(* Several webports processes build, download and clean, each of them one  *)
(* file-system call at a time; any of them can fail or be killed           *)
(* between two calls, and what it leaves is what the next one finds.       *)
(* Between commands the developer edits the port and removes trees.  The   *)
(* directory lock of a build is taken to be perfect (InstallDb has its     *)
(* details), --force is not used and the dependencies are installed.       *)
(***************************************************************************)
EXTENDS Naturals

CONSTANTS Process,   \* the webports processes
          Version,   \* the versions the port can have, each with its archive
          Patch,     \* the contents its patch file can have
          NoPatch,   \* there is no patch file, nothing was patched
          Config,    \* the configurations it is built for
          NoConfig,  \* the command is for no configuration
          NoTree,    \* the source tree is not there
          NoStamp,   \* there is no extract stamp
          NoFile,    \* there is no package file
          MaxEdits   \* bound: how often the developer edits the port

\* What the developer can edit: pkg_info and the patch file.
Port == [version : Version, patch : Patch \cup {NoPatch}]

\* What was unpacked, the patch that was applied to it, or a part of one, and
\* whether configure and config.sub were patched.
Tree == [from : {"good", "bad"}, patch : Patch \cup {NoPatch, "partly"}, auto : BOOLEAN]

ASSUME SourceBuildAssumption ==
    /\ NoPatch \notin Patch /\ "partly" \notin Patch \cup {NoPatch}
    /\ NoTree \notin Tree
    /\ NoStamp \notin Port
    /\ MaxEdits \in Nat

VARIABLES port,      \* the port's version and patch file
          archive,   \* version -> the archive in the cache
          partial,   \* the file curl writes before it becomes the archive
          trees,     \* version -> the source tree
          extracted, \* the extract stamp: the port the tree was extracted for
          stamps,    \* the other stamps: nacl_patch and patch
          packages,  \* version and configuration -> the package file
          proc,      \* process -> its command and where it is
          edits,     \* how often the port was edited
          torn,      \* history: a tree was left with the stamps of another one
          shared     \* history: two processes fetched an archive at once

cache == <<archive, partial, shared>>
work  == <<trees, extracted, stamps, torn>>
vars  == <<port, archive, partial, trees, extracted, stamps, packages, proc,
           edits, torn, shared>>

-----------------------------------------------------------------------------
(* Data *)

\* An archive can be missing, incomplete, what the port expects, or other data.
Content == {"none", "cut", "good", "bad"}

Fetch   == {"look", "curl", "fetch", "rename", "verify"}
Extract == {"extract", "unpack", "unstamp", "write"}
Make    == {"patch", "patching", "stamp", "auto", "touch", "make"}

\* For curl: the site it reads from, and the name of the file it has open.
State == [at : {"idle", "lock", "clean"} \cup Fetch \cup Extract \cup Make,
          cmd : {"none", "build", "download", "clean"},
          config : Config \cup {NoConfig},
          site : {"mirror", "upstream"},
          out : {"none", "partial", "archive", "gone"}]

Idle == [at |-> "idle", cmd |-> "none", config |-> NoConfig, site |-> "mirror", out |-> "none"]

At(q, place) == proc[q].at = place
Locked(q)    == proc[q].cmd = "build" /\ proc[q].at # "lock"
Quiet        == \A q \in Process : At(q, "idle")

Goto(q, place) == proc' = [proc EXCEPT ![q].at = place]

\* All processes work on the port of this version.
version == port.version
tree    == trees[port.version]

\* The package file of configuration c of the port.
Built(c) == packages[<<version, c>>] # NoFile

-----------------------------------------------------------------------------
(* The commands *)

\* build: nothing is done when the package file is there, whatever its patch was.
StartBuild(q, c) ==
    /\ At(q, "idle")
    /\ ~Built(c)
    /\ proc' = [proc EXCEPT ![q].at = "lock", ![q].cmd = "build", ![q].config = c]
    /\ UNCHANGED <<port, cache, work, packages, edits>>

\* download takes no lock: not that of the port, and not that of another port
\* that has the same archive.
StartDownload(q) ==
    /\ At(q, "idle")
    /\ proc' = [proc EXCEPT ![q].at = "look", ![q].cmd = "download"]
    /\ UNCHANGED <<port, cache, work, packages, edits>>

\* DirLock: one build of a port at a time, the other one fails.
TakeLock(q) ==
    /\ At(q, "lock")
    /\ proc' = [proc EXCEPT ![q] = IF \E r \in Process : Locked(r) THEN Idle
                                                                   ELSE [@ EXCEPT !.at = "look"]]
    /\ UNCHANGED <<port, cache, work, packages, edits>>

\* clean removes the package and then the stamps, without the lock.
StartClean(q, c) ==
    /\ At(q, "idle")
    /\ packages' = [packages EXCEPT ![<<version, c>>] = NoFile]
    /\ proc' = [proc EXCEPT ![q].at = "clean", ![q].cmd = "clean"]
    /\ UNCHANGED <<port, cache, work, edits>>

\* A step fails, or the process is killed: it ends where it is, and leaves a
\* tree it unpacked with the stamps it had not removed yet.
Stop(q) ==
    /\ ~At(q, "idle")
    /\ proc' = [proc EXCEPT ![q] = Idle]
    /\ torn' = (torn \/ (At(q, "unstamp") /\ extracted # NoStamp /\ extracted.version = version))
    /\ UNCHANGED <<port, cache, trees, extracted, stamps, packages, edits>>

-----------------------------------------------------------------------------
(* download: from the mirror or from upstream into the cache *)

LookInCache(q) ==
    /\ At(q, "look")
    /\ Goto(q, IF archive[version] = "none" THEN "curl" ELSE "verify")
    /\ shared' = (shared \/ (archive[version] = "none"
                             /\ \E r \in Process : proc[r].at \in Fetch \ {"look"}))
    /\ UNCHANGED <<port, archive, partial, work, packages, edits>>

\* curl opens and truncates the partial file: what an earlier one left of this or
\* of another version's file is never seen.
CurlStart(q) ==
    /\ At(q, "curl")
    /\ partial' = "cut"
    /\ proc' = [proc EXCEPT ![q].at = "fetch", ![q].out = "partial"]
    /\ UNCHANGED <<port, archive, shared, work, packages, edits>>

\* The file is complete unless another curl has it open too.  It can have been
\* renamed or replaced meanwhile.
CurlDone(q, content) ==
    /\ At(q, "fetch")
    /\ LET file  == proc[q].out
           alone == \A r \in Process \ {q} : proc[r].out # file
           data  == IF alone THEN content ELSE "cut"
       IN  /\ partial' = IF file = "partial" THEN data ELSE partial
           /\ archive' = IF file = "archive" THEN [archive EXCEPT ![version] = data] ELSE archive
    /\ proc' = [proc EXCEPT ![q].at = "rename", ![q].out = "none"]
    /\ UNCHANGED <<port, shared, work, packages, edits>>

\* When the mirror does not have it, upstream is tried.
CurlFails(q) ==
    /\ At(q, "fetch")
    /\ proc[q].site = "mirror"
    /\ proc' = [proc EXCEPT ![q].at = "curl", ![q].site = "upstream", ![q].out = "none"]
    /\ UNCHANGED <<port, cache, work, packages, edits>>

\* The partial file replaces the archive; curls that have either open keep it.
Rename(q) ==
    /\ At(q, "rename")
    /\ partial # "none"
    /\ archive' = [archive EXCEPT ![version] = partial]
    /\ partial' = "none"
    /\ proc' = [r \in Process |->
           IF r = q THEN [proc[r] EXCEPT !.at = "verify"]
           ELSE [proc[r] EXCEPT !.out = IF @ = "partial" THEN "archive"
                                        ELSE IF @ = "archive" THEN "gone" ELSE @]]
    /\ UNCHANGED <<port, shared, work, packages, edits>>

\* Mutant: the hash is not compared.
VerifyNothing(q) ==
    /\ At(q, "verify")
    /\ archive[version] # "none"
    /\ IF proc[q].cmd = "download" THEN proc' = [proc EXCEPT ![q] = Idle] ELSE Goto(q, "extract")
    /\ UNCHANGED <<port, cache, work, packages, edits>>

\* verify_hash: an archive with the wrong hash stays where it is.
Verify(q) ==
    /\ At(q, "verify")
    /\ archive[version] = "good"
    /\ IF proc[q].cmd = "download" THEN proc' = [proc EXCEPT ![q] = Idle] ELSE Goto(q, "extract")
    /\ UNCHANGED <<port, cache, work, packages, edits>>

-----------------------------------------------------------------------------
(* extract *)

\* Mutant: the stamp is not compared with the patch.
TreeExistsAnyPatch(q) ==
    /\ At(q, "extract")
    /\ tree # NoTree
    /\ extracted # NoStamp /\ extracted.version = version
    /\ Goto(q, "patch")
    /\ UNCHANGED <<port, cache, work, packages, edits>>

\* A tree is used when its stamp names the archive and the patch of the port.
TreeExists(q) ==
    /\ At(q, "extract")
    /\ tree # NoTree
    /\ extracted = port
    /\ Goto(q, "patch")
    /\ UNCHANGED <<port, cache, work, packages, edits>>

\* Otherwise it must be removed by hand first.
NoTreeYet(q) ==
    /\ At(q, "extract")
    /\ tree = NoTree
    /\ Goto(q, "unpack")
    /\ UNCHANGED <<port, cache, work, packages, edits>>

\* The archive is unpacked beside the tree and renamed into place.
Unpack(q) ==
    /\ At(q, "unpack")
    /\ tree = NoTree
    /\ archive[version] \in {"good", "bad"}
    /\ trees' = [trees EXCEPT ![version] =
                    [from |-> archive[version], patch |-> NoPatch, auto |-> FALSE]]
    /\ Goto(q, "unstamp")
    /\ UNCHANGED <<port, cache, extracted, stamps, torn, packages, edits>>

\* remove_stamps, here and in clean, removes one file after the other.
RemoveExtractStamp(q) ==
    /\ At(q, "unstamp") \/ At(q, "clean")
    /\ extracted' = NoStamp
    /\ UNCHANGED <<port, cache, trees, stamps, torn, packages, proc, edits>>

RemoveStamp(q, stamp) ==
    /\ At(q, "unstamp") \/ At(q, "clean")
    /\ stamps' = stamps \ {stamp}
    /\ UNCHANGED <<port, cache, trees, extracted, torn, packages, proc, edits>>

StampsRemoved(q) ==
    /\ At(q, "unstamp") \/ At(q, "clean")
    /\ extracted = NoStamp /\ stamps = {}
    /\ proc' = [proc EXCEPT ![q] = IF At(q, "clean") THEN Idle ELSE [@ EXCEPT !.at = "write"]]
    /\ UNCHANGED <<port, cache, work, packages, edits>>

WriteExtractStamp(q) ==
    /\ At(q, "write")
    /\ extracted' = port
    /\ Goto(q, "patch")
    /\ UNCHANGED <<port, cache, trees, stamps, torn, packages, edits>>

-----------------------------------------------------------------------------
(* patch *)

\* The stamp says that the tree is patched: git clean removes new files only.
SkipPatch(q) ==
    /\ At(q, "patch")
    /\ "nacl_patch" \in stamps
    /\ Goto(q, "auto")
    /\ UNCHANGED <<port, cache, work, packages, edits>>

\* Mutant: the stamp is written when the patch begins.
StartPatchStamped(q) ==
    /\ At(q, "patch")
    /\ "nacl_patch" \notin stamps
    /\ port.patch = NoPatch \/ tree.patch = NoPatch
    /\ stamps' = stamps \cup {"nacl_patch"}
    /\ trees' = IF port.patch = NoPatch THEN trees ELSE [trees EXCEPT ![version].patch = "partly"]
    /\ Goto(q, IF port.patch = NoPatch THEN "stamp" ELSE "patching")
    /\ UNCHANGED <<port, cache, extracted, torn, packages, edits>>

\* A patch is not applied twice: patch fails on a tree that has some of it.
StartPatch(q) ==
    /\ At(q, "patch")
    /\ "nacl_patch" \notin stamps
    /\ port.patch = NoPatch \/ tree.patch = NoPatch
    /\ trees' = IF port.patch = NoPatch THEN trees ELSE [trees EXCEPT ![version].patch = "partly"]
    /\ Goto(q, IF port.patch = NoPatch THEN "stamp" ELSE "patching")
    /\ UNCHANGED <<port, cache, extracted, stamps, torn, packages, edits>>

PatchDone(q) ==
    /\ At(q, "patching")
    /\ trees' = [trees EXCEPT ![version].patch = port.patch]
    /\ Goto(q, "stamp")
    /\ UNCHANGED <<port, cache, extracted, stamps, torn, packages, edits>>

StampPatch(q) ==
    /\ At(q, "stamp")
    /\ stamps' = stamps \cup {"nacl_patch"}
    /\ Goto(q, "auto")
    /\ UNCHANGED <<port, cache, trees, extracted, torn, packages, edits>>

-----------------------------------------------------------------------------
(* build_port.sh *)

\* DefaultPatchStep patches configure and config.sub, which are not patched
\* again when they were before.
AutoPatch(q) ==
    /\ At(q, "auto")
    /\ IF "patch" \in stamps
       THEN Goto(q, "make") /\ UNCHANGED trees
       ELSE Goto(q, "touch") /\ trees' = [trees EXCEPT ![version].auto = TRUE]
    /\ UNCHANGED <<port, cache, extracted, stamps, torn, packages, edits>>

TouchStamp(q) ==
    /\ At(q, "touch")
    /\ stamps' = stamps \cup {"patch"}
    /\ Goto(q, "make")
    /\ UNCHANGED <<port, cache, trees, extracted, torn, packages, edits>>

\* The configure, build and install steps, and a package file that is moved
\* into place when it is complete.
Package(q) ==
    /\ At(q, "make")
    /\ packages' = [packages EXCEPT ![<<version, proc[q].config>>] = tree]
    /\ proc' = [proc EXCEPT ![q] = Idle]
    /\ UNCHANGED <<port, cache, work, edits>>

-----------------------------------------------------------------------------
(* The developer, while no command runs *)

\* A new version or a new patch file (webports updatepatch writes one).
EditPort(p) ==
    /\ Quiet
    /\ edits < MaxEdits
    /\ p # port
    /\ port' = p /\ edits' = edits + 1
    /\ UNCHANGED <<cache, work, packages, proc>>

\* "Please remove existing checkout and try again".
RemoveTree ==
    /\ Quiet
    /\ tree # NoTree
    /\ trees' = [trees EXCEPT ![version] = NoTree]
    /\ torn' = (torn /\ extracted # NoStamp /\ extracted.version # version)
    /\ UNCHANGED <<port, cache, extracted, stamps, packages, proc, edits>>

Init ==
    /\ port \in Port
    /\ archive = [v \in Version |-> "none"] /\ partial = "none"
    /\ trees = [v \in Version |-> NoTree]
    /\ extracted = NoStamp /\ stamps = {}
    /\ packages = [vc \in Version \X Config |-> NoFile]
    /\ proc = [q \in Process |-> Idle]
    /\ edits = 0
    /\ torn = FALSE /\ shared = FALSE

Command(q) ==
    \/ \E c \in Config : StartBuild(q, c) \/ StartClean(q, c)
    \/ StartDownload(q) \/ TakeLock(q) \/ Stop(q)

Download(q) ==
    \/ LookInCache(q) \/ CurlStart(q) \/ CurlFails(q) \/ Rename(q) \/ Verify(q)
    \/ \E content \in {"good", "bad"} : CurlDone(q, content)

Unpacking(q) ==
    \/ TreeExists(q) \/ NoTreeYet(q) \/ Unpack(q)
    \/ RemoveExtractStamp(q) \/ StampsRemoved(q) \/ WriteExtractStamp(q)
    \/ \E stamp \in stamps : RemoveStamp(q, stamp)

Building(q) ==
    \/ SkipPatch(q) \/ StartPatch(q) \/ PatchDone(q) \/ StampPatch(q)
    \/ AutoPatch(q) \/ TouchStamp(q) \/ Package(q)

Developer == RemoveTree \/ \E p \in Port : EditPort(p)

Next == Developer \/ \E q \in Process : Command(q) \/ Download(q) \/ Unpacking(q) \/ Building(q)

Spec == Init /\ [][Next]_vars

-----------------------------------------------------------------------------
(* Properties *)

\* The types of the variables.
TypeOK ==
    /\ port \in Port
    /\ archive \in [Version -> Content] /\ partial \in Content
    /\ trees \in [Version -> Tree \cup {NoTree}]
    /\ extracted \in Port \cup {NoStamp}
    /\ stamps \subseteq {"nacl_patch", "patch"}
    /\ packages \in [Version \X Config -> Tree \cup {NoFile}]
    /\ proc \in [Process -> State]
    /\ edits \in 0 .. MaxEdits
    /\ torn \in BOOLEAN /\ shared \in BOOLEAN

\* Whatever failed, was killed, cleaned, edited or removed by hand: what the
\* stamps say was done to the tree that the extract stamp names was done to it
\* (extract removes the stamps of an earlier tree before it writes its own, patch
\* and DefaultPatchStep write theirs last).
StampsDescribeTree ==
    extracted # NoStamp /\ ~torn /\ (\A q \in Process : ~At(q, "unstamp")) =>
        LET t == trees[extracted.version]
        IN  t # NoTree =>
                /\ "nacl_patch" \in stamps => t.patch = extracted.patch
                /\ "patch" \in stamps => t.auto

\* A package is made from the sources and the patch that the port names when it
\* is made, although tree and stamps outlive the command, the configuration and
\* the port they were made for.
PackagesAreTrue ==
    [][~torn =>
          \A vc \in Version \X Config :
              packages'[vc] \notin {packages[vc], NoFile} =>
                  vc[1] = version /\ packages'[vc].patch = port.patch /\ packages'[vc].auto]_vars

\* Unless two processes fetch an archive at the same time, whatever the servers
\* send and wherever a process is killed, only verified archives are unpacked
\* (verify_hash before extract; the partial file is renamed when it is complete).
SourcesVerified == ~shared => \A v \in Version : trees[v] # NoTree => trees[v].from = "good"
=============================================================================
