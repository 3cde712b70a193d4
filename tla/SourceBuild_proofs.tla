-------------------------- MODULE SourceBuild_proofs --------------------------
(***************************************************************************)
(* Theorems about building a port from source, for any processes, versions,*)
(* patches, configurations and number of edits: the stamps tell the truth  *)
(* about the tree, only verified archives are unpacked, and a package holds*)
(* what the port names when it is made.                                    *)
(***************************************************************************)
EXTENDS SourceBuild, TLAPS

-----------------------------------------------------------------------------
(* The inductive invariant *)

\* Only a build gets to a tree, and a process without a command has none.
CommandsOK ==
    \A q \in Process :
        /\ proc[q].at \in Fetch => proc[q].cmd \in {"build", "download"}
        /\ proc[q].at \in {"lock"} \cup Extract \cup Make => proc[q].cmd = "build"
        /\ At(q, "idle") => proc[q].cmd # "build"

\* The lock keeps builds apart.
OneBuilder == \A q, r \in Process : Locked(q) /\ Locked(r) => q = r

\* Tree t was made for port p, and the stamps are true of it.
Truth(t, p) ==
    /\ t.patch \in {NoPatch, p.patch} \/ (t.patch = "partly" /\ p.patch # NoPatch)
    /\ "nacl_patch" \in stamps => t.patch = p.patch
    /\ "patch" \in stamps => t.auto

\* The extract stamp names a tree that another one is replacing.
Replacing == extracted.version = version /\ \E q \in Process : At(q, "unstamp")

StampsOK ==
    ~torn /\ extracted # NoStamp /\ ~Replacing =>
        LET t == trees[extracted.version] IN t # NoTree => Truth(t, extracted)

\* What a build has done to the tree at each step.
Fresh(q)    == proc[q].at \in {"unstamp", "write"} => tree # NoTree /\ tree.patch = NoPatch
Bare(q)     == At(q, "write") => extracted = NoStamp /\ stamps = {}
HasTree(q)  == proc[q].at \in Make => tree # NoTree
Matches(q)  == proc[q].at \in Make => extracted \in {NoStamp, port} /\ Truth(tree, port)
Patching(q) == At(q, "patching") => "nacl_patch" \notin stamps /\ port.patch # NoPatch
Patched(q)  == proc[q].at \in {"stamp", "auto", "touch", "make"} => tree.patch = port.patch
Touched(q)  == proc[q].at \in {"touch", "make"} => tree.auto

OnTree(q) == /\ Fresh(q) /\ Bare(q) /\ HasTree(q)
             /\ ~torn => Matches(q) /\ Patching(q) /\ Patched(q) /\ Touched(q)

TreeOK == \A q \in Process : OnTree(q)

\* While no two processes download at once, one that does finds no archive and
\* is the only one that writes, and one that unpacks has a verified archive.
Downloads(q) == proc[q].at \in {"curl", "fetch", "rename"}

Cached(q) ==
    /\ Downloads(q) => archive[version] = "none"
    /\ proc[q].out \in {"none", "partial"}
    /\ proc[q].out = "partial" => At(q, "fetch")
    /\ At(q, "verify") => archive[version] # "none"
    /\ proc[q].at \in {"extract", "unpack"} => archive[version] = "good"

CacheOK ==
    /\ \A q, r \in Process : Downloads(q) /\ Downloads(r) => q = r
    /\ \A q \in Process : Cached(q)

FetchOK == ~shared => CacheOK

IInv == /\ TypeOK /\ CommandsOK /\ OneBuilder /\ StampsOK /\ TreeOK
        /\ FetchOK /\ SourcesVerified

-----------------------------------------------------------------------------
(* The types *)

\* A process without a command is in a state of a process.
LEMMA IdleType == Idle \in State
BY DEF Idle, State

\* A step keeps the types: where a build changes its tree there is one.
LEMMA TypeStep == TypeOK /\ TreeOK /\ [Next]_vars => TypeOK'
<1> SUFFICES ASSUME TypeOK, TreeOK, [Next]_vars PROVE TypeOK'
  OBVIOUS
<1> USE IdleType, SourceBuildAssumption DEF TypeOK, cache, work, At, Goto, version, tree
<1>1. CASE UNCHANGED vars
  BY <1>1 DEF vars
<1>2. CASE RemoveTree
  BY <1>2 DEF RemoveTree
<1>3. ASSUME NEW p \in Port, EditPort(p) PROVE TypeOK'
  BY <1>3 DEF EditPort
<1>4. ASSUME NEW q \in Process PROVE Command(q) => TypeOK'
  <2> port \in Port /\ proc[q] \in State /\ port.version \in Version
    BY DEF Port
  <2>1. ASSUME NEW c \in Config, StartBuild(q, c) PROVE TypeOK'
    BY ZenonT(40), <2>1 DEF StartBuild, State
  <2>2. ASSUME NEW c \in Config, StartClean(q, c) PROVE TypeOK'
    BY ZenonT(40), <2>2 DEF StartClean, State
  <2>3. CASE StartDownload(q)
    BY <2>3 DEF StartDownload, State, Fetch
  <2>4. CASE TakeLock(q)
    BY <2>4 DEF TakeLock, State, Fetch
  <2>5. CASE Stop(q)
    BY <2>5 DEF Stop
  <2> QED
    BY <2>1, <2>2, <2>3, <2>4, <2>5 DEF Command
<1>5. ASSUME NEW q \in Process PROVE Download(q) => TypeOK'
  <2> port \in Port /\ proc[q] \in State /\ port.version \in Version
    BY DEF Port
  <2>1. CASE LookInCache(q)
    BY <2>1 DEF LookInCache, State, Fetch
  <2>2. CASE CurlStart(q)
    BY <2>2 DEF CurlStart, State, Fetch, Content
  <2>3. ASSUME NEW content \in {"good", "bad"}, CurlDone(q, content) PROVE TypeOK'
    <3>1. archive' \in [Version -> Content] /\ partial' \in Content
      <4> DEFINE alone == \A r \in Process \ {q} : proc[r].out # proc[q].out
                 data  == IF alone THEN content ELSE "cut"
      <4>1. data \in Content
        BY DEF Content
      <4>2. partial' = IF proc[q].out = "partial" THEN data ELSE partial
        BY <2>3 DEF CurlDone
      <4>3. archive' = IF proc[q].out = "archive" THEN [archive EXCEPT ![version] = data]
                                                  ELSE archive
        BY <2>3 DEF CurlDone
      <4> HIDE DEF data
      <4> QED
        BY <4>1, <4>2, <4>3
    <3>2. [proc[q] EXCEPT !.at = "rename", !.out = "none"] \in State
      BY DEF State, Fetch
    <3>3. proc' = [proc EXCEPT ![q] = [proc[q] EXCEPT !.at = "rename", !.out = "none"]]
      BY <2>3, Zenon DEF CurlDone
    <3>4. proc' \in [Process -> State]
      BY <3>2, <3>3
    <3>5. UNCHANGED <<port, shared, trees, extracted, stamps, torn, packages, edits>>
      BY <2>3 DEF CurlDone
    <3> QED
      BY <3>1, <3>4, <3>5
  <2>4. CASE CurlFails(q)
    BY <2>4 DEF CurlFails, State, Fetch
  <2>5. CASE Rename(q)
    <3>1. archive' \in [Version -> Content] /\ partial' \in Content
      BY <2>5 DEF Rename, Content
    <3>2. ASSUME NEW r \in Process PROVE proc'[r] \in State
      <4>1. proc[r] \in State
        OBVIOUS
      <4>2. CASE r = q
        BY <2>5, <4>1, <4>2 DEF Rename, State, Fetch
      <4>3. CASE r # q
        BY SMTT(30), <2>5, <4>1, <4>3 DEF Rename, State
      <4> QED
        BY <4>2, <4>3
    <3>3. proc' = [r \in Process |-> proc'[r]]
      BY <2>5 DEF Rename
    <3>4. proc' \in [Process -> State]
      BY <3>2, <3>3
    <3> QED
      BY <2>5, <3>1, <3>4 DEF Rename
  <2>6. CASE Verify(q)
    BY <2>6 DEF Verify, State, Extract
  <2> QED
    BY <2>1, <2>2, <2>3, <2>4, <2>5, <2>6 DEF Download
<1>6. ASSUME NEW q \in Process PROVE Unpacking(q) => TypeOK'
  <2> port \in Port /\ proc[q] \in State /\ port.version \in Version
    BY DEF Port
  <2>1. CASE TreeExists(q)
    BY <2>1 DEF TreeExists, State, Make
  <2>2. CASE NoTreeYet(q)
    BY <2>2 DEF NoTreeYet, State, Extract
  <2>3. CASE Unpack(q)
    <3>1. [from |-> archive[version], patch |-> NoPatch, auto |-> FALSE] \in Tree
      BY <2>3 DEF Unpack, Tree
    <3> QED
      BY <2>3, <3>1 DEF Unpack, State, Extract
  <2>4. CASE RemoveExtractStamp(q)
    BY <2>4 DEF RemoveExtractStamp
  <2>5. ASSUME NEW stamp \in stamps, RemoveStamp(q, stamp) PROVE TypeOK'
    BY <2>5 DEF RemoveStamp
  <2>6. CASE StampsRemoved(q)
    BY <2>6 DEF StampsRemoved, State, Extract
  <2>7. CASE WriteExtractStamp(q)
    BY <2>7 DEF WriteExtractStamp, State, Make
  <2> QED
    BY <2>1, <2>2, <2>3, <2>4, <2>5, <2>6, <2>7 DEF Unpacking
<1>7. ASSUME NEW q \in Process PROVE Building(q) => TypeOK'
  <2> port \in Port /\ proc[q] \in State /\ port.version \in Version /\ port.patch \in Patch \cup {NoPatch}
    BY DEF Port
  <2>0. proc[q].at \in Make => tree \in Tree
    BY DEF TreeOK, OnTree, HasTree
  <2>1. CASE SkipPatch(q)
    BY <2>1 DEF SkipPatch, State, Make
  <2>2. CASE StartPatch(q)
    <3>1. [tree EXCEPT !.patch = "partly"] \in Tree
      BY <2>0, <2>2 DEF StartPatch, Make, Tree
    <3> QED
      BY <2>2, <3>1 DEF StartPatch, State, Make
  <2>3. CASE PatchDone(q)
    <3>1. [tree EXCEPT !.patch = port.patch] \in Tree
      BY <2>0, <2>3 DEF PatchDone, Make, Tree
    <3> QED
      BY <2>3, <3>1 DEF PatchDone, State, Make
  <2>4. CASE StampPatch(q)
    BY <2>4 DEF StampPatch, State, Make
  <2>5. CASE AutoPatch(q)
    <3>1. [tree EXCEPT !.auto = TRUE] \in Tree
      BY <2>0, <2>5 DEF AutoPatch, Make, Tree
    <3> QED
      <4>1. CASE "patch" \in stamps
        BY <2>5, <4>1 DEF AutoPatch, State, Make
      <4>2. CASE "patch" \notin stamps
        BY <2>5, <3>1, <4>2 DEF AutoPatch, State, Make
      <4> QED
        BY <4>1, <4>2
  <2>6. CASE TouchStamp(q)
    BY <2>6 DEF TouchStamp, State, Make
  <2>7. CASE Package(q)
    <3>1. tree \in Tree
      BY <2>0, <2>7 DEF Package, Make
    <3> QED
      BY <2>7, <3>1 DEF Package
  <2> QED
    BY <2>1, <2>2, <2>3, <2>4, <2>5, <2>6, <2>7 DEF Building
<1> QED
  BY <1>1, <1>2, <1>3, <1>4, <1>5, <1>6, <1>7 DEF Next, Developer

-----------------------------------------------------------------------------
(* The commands and the lock *)

\* What a step of q does to the processes: only q moves, the port is not edited,
\* and q has the lock only if it had it or nobody did.
LEMMA Moves ==
    ASSUME TypeOK, CommandsOK, OneBuilder, NEW q \in Process,
           Command(q) \/ Download(q) \/ Unpacking(q) \/ Building(q)
    PROVE  /\ \A r \in Process \ {q} : proc'[r].at = proc[r].at /\ proc'[r].cmd = proc[r].cmd
           /\ Locked(q)' => Locked(q) \/ \A r \in Process : ~Locked(r)
           /\ CommandsOK'
           /\ port' = port
<1> DEFINE Conclusion ==
        /\ \A r \in Process \ {q} : proc'[r].at = proc[r].at /\ proc'[r].cmd = proc[r].cmd
        /\ Locked(q)' => Locked(q) \/ \A r \in Process : ~Locked(r)
        /\ CommandsOK'
        /\ port' = port
<1> SUFFICES Conclusion
  OBVIOUS
<1> USE DEF TypeOK, At, Goto, Locked, State
<1>1. CASE Command(q)
  <2> USE DEF Idle, Fetch, Extract, Make
  <2>1. ASSUME NEW c \in Config, StartBuild(q, c) PROVE Conclusion
    BY <2>1 DEF StartBuild, CommandsOK
  <2>2. ASSUME NEW c \in Config, StartClean(q, c) PROVE Conclusion
    BY <2>2 DEF StartClean, CommandsOK
  <2>3. CASE StartDownload(q) \/ TakeLock(q) \/ Stop(q)
    BY <2>3 DEF StartDownload, TakeLock, Stop, CommandsOK
  <2> QED
    BY <1>1, <2>1, <2>2, <2>3 DEF Command
<1>2. CASE Download(q)
  <2> USE DEF Idle, Fetch, Extract, Make
  <2>1. CASE LookInCache(q)
    BY <2>1 DEF LookInCache, CommandsOK
  <2>5. CASE CurlStart(q) \/ CurlFails(q)
    BY <2>5 DEF CurlStart, CurlFails, CommandsOK
  <2>2. CASE Rename(q)
    BY <2>2 DEF Rename, CommandsOK
  <2>3. CASE Verify(q)
    BY <2>3 DEF Verify, CommandsOK
  <2>4. CASE \E content \in {"good", "bad"} : CurlDone(q, content)
    BY <2>4 DEF CurlDone, CommandsOK
  <2> QED
    BY <1>2, <2>1, <2>2, <2>3, <2>4, <2>5 DEF Download
<1>3. CASE Unpacking(q)
  <2> USE DEF Idle, Fetch, Extract, Make
  <2>1. CASE TreeExists(q) \/ NoTreeYet(q) \/ Unpack(q) \/ WriteExtractStamp(q)
    BY <2>1 DEF TreeExists, NoTreeYet, Unpack, WriteExtractStamp, CommandsOK
  <2>2. CASE RemoveExtractStamp(q) \/ \E stamp \in stamps : RemoveStamp(q, stamp)
    BY <2>2 DEF RemoveExtractStamp, RemoveStamp, CommandsOK
  <2>3. CASE StampsRemoved(q)
    BY <2>3 DEF StampsRemoved, CommandsOK
  <2> QED
    BY <1>3, <2>1, <2>2, <2>3 DEF Unpacking
<1>4. CASE Building(q)
  <2> USE DEF Idle, Fetch, Extract, Make
  <2>1. CASE SkipPatch(q) \/ PatchDone(q) \/ StampPatch(q)
    BY <2>1 DEF SkipPatch, PatchDone, StampPatch, CommandsOK
  <2>3. CASE StartPatch(q)
    BY <2>3 DEF StartPatch, CommandsOK
  <2>2. CASE TouchStamp(q) \/ Package(q)
    BY <2>2 DEF TouchStamp, Package, CommandsOK
  <2>4. CASE AutoPatch(q)
    <3>1. proc' = [proc EXCEPT ![q].at = "make"] \/ proc' = [proc EXCEPT ![q].at = "touch"]
      BY <2>4 DEF AutoPatch
    <3> QED
      BY <2>4, <3>1 DEF AutoPatch, CommandsOK
  <2> QED
    BY <1>4, <2>1, <2>2, <2>3, <2>4 DEF Building
<1> QED
  BY <1>1, <1>2, <1>3, <1>4

\* A step keeps the commands apart and one build at most past the lock.
LEMMA LockStep ==
    TypeOK /\ CommandsOK /\ OneBuilder /\ [Next]_vars => CommandsOK' /\ OneBuilder'
<1> SUFFICES ASSUME TypeOK, CommandsOK, OneBuilder, [Next]_vars
             PROVE  CommandsOK' /\ OneBuilder'
  OBVIOUS
<1>1. CASE UNCHANGED proc
  BY <1>1 DEF CommandsOK, OneBuilder, Locked, At
<1>2. ASSUME NEW q \in Process, Command(q) \/ Download(q) \/ Unpacking(q) \/ Building(q)
      PROVE  CommandsOK' /\ OneBuilder'
  BY <1>2, Moves DEF OneBuilder, Locked
<1> QED
  BY <1>1, <1>2 DEF Next, Developer, RemoveTree, EditPort, vars

-----------------------------------------------------------------------------
(* The tree and its stamps *)

\* While a build is at its tree no other one is.
LEMMA Alone ==
    ASSUME CommandsOK, OneBuilder, NEW q \in Process, NEW r \in Process,
           proc[q].at \in Extract \cup Make, proc[r].at \in Extract \cup Make
    PROVE  q = r
BY DEF CommandsOK, OneBuilder, Locked, Extract, Make

\* Whoever is not at a tree has nothing to say about it.
LEMMA Elsewhere ==
    ASSUME NEW q \in Process, proc[q].at \notin Extract \cup Make PROVE OnTree(q)
BY DEF OnTree, Fresh, Bare, HasTree, Matches, Patching, Patched, Touched, Extract, Make, At

\* A step of q that leaves the tree, the stamps and the port alone.
LEMMA Still ==
    ASSUME TreeOK, StampsOK, NEW q \in Process, UNCHANGED <<port, trees, extracted, stamps, torn>>,
           \A r \in Process \ {q} : proc'[r].at = proc[r].at,
           OnTree(q)',
           At(q, "unstamp")' <=> At(q, "unstamp")
    PROVE  TreeOK' /\ StampsOK'
<1>1. TreeOK'
  BY DEF TreeOK, OnTree, Fresh, Bare, HasTree, Matches, Patching, Patched, Touched, Truth,
         Extract, Make, At, version, tree
<1>2. StampsOK'
  <2>1. Replacing' <=> Replacing
    BY DEF Replacing, At, version
  <2> QED
    BY <2>1 DEF StampsOK, Truth
<1> QED
  BY <1>1, <1>2

\* A step of the build that is at the tree.
LEMMA Mine ==
    ASSUME CommandsOK, OneBuilder, TreeOK, NEW q \in Process, proc[q].at \in Extract \cup Make,
           \A r \in Process \ {q} : proc'[r].at = proc[r].at,
           OnTree(q)'
    PROVE  TreeOK'
<1>1. ASSUME NEW r \in Process, r # q PROVE OnTree(r)'
  <2>1. proc'[r].at \notin Extract \cup Make
    BY <1>1, Alone
  <2> QED
    BY <2>1 DEF OnTree, Fresh, Bare, HasTree, Matches, Patching, Patched, Touched, Extract, Make, At
<1> QED
  BY <1>1 DEF TreeOK

\* The steps that only look at the tree.
LEMMA LookStep ==
    ASSUME TypeOK, CommandsOK, OneBuilder, StampsOK, TreeOK, NEW q \in Process,
           \/ \E c \in Config : StartBuild(q, c) \/ StartClean(q, c)
           \/ StartDownload(q) \/ TakeLock(q)
           \/ Download(q)
           \/ TreeExists(q) \/ NoTreeYet(q) \/ SkipPatch(q) \/ Package(q)
    PROVE  TreeOK' /\ StampsOK'
<1>0. Command(q) \/ Download(q) \/ Unpacking(q) \/ Building(q)
  BY DEF Command, Unpacking, Building
<1>1. \A r \in Process \ {q} : proc'[r].at = proc[r].at
  BY <1>0, Moves
<1>2. UNCHANGED <<port, trees, extracted, stamps, torn>>
  BY DEF StartBuild, StartClean, StartDownload, TakeLock, Download, LookInCache, CurlStart,
         CurlDone, CurlFails, Rename, Verify, TreeExists, NoTreeYet, SkipPatch, Package, work
<1> USE DEF TypeOK, At, Goto, State
<1>3. CASE proc'[q].at \in {"idle", "lock", "clean", "extract", "unpack"} \cup Fetch /\ ~At(q, "unstamp")
  <2>1. OnTree(q)' /\ ~At(q, "unstamp")'
    BY <1>3 DEF OnTree, Fresh, Bare, HasTree, Matches, Patching, Patched, Touched, Fetch, Make
  <2> QED
    BY <1>1, <1>2, <1>3, <2>1, Still
<1>4. CASE (\E c \in Config : StartBuild(q, c) \/ StartClean(q, c)) \/ StartDownload(q)
  <2>1. ASSUME NEW c \in Config, StartBuild(q, c) PROVE TreeOK' /\ StampsOK'
    BY ZenonT(40), <1>3, <2>1 DEF StartBuild
  <2>2. ASSUME NEW c \in Config, StartClean(q, c) PROVE TreeOK' /\ StampsOK'
    BY <1>3, <2>2 DEF StartClean
  <2>3. CASE StartDownload(q)
    BY <1>3, <2>3 DEF StartDownload, Fetch
  <2> QED
    BY <1>4, <2>1, <2>2, <2>3
<1>5. CASE TakeLock(q) \/ NoTreeYet(q) \/ Package(q)
  BY <1>3, <1>5 DEF TakeLock, NoTreeYet, Package, Idle, Fetch
<1>6. CASE Download(q)
  <2>1. CASE LookInCache(q)
    BY <1>3, <2>1 DEF LookInCache, Fetch
  <2>2. CASE CurlStart(q) \/ CurlFails(q)
    BY <1>3, <2>2 DEF CurlStart, CurlFails, Fetch
  <2>3. CASE \E content \in {"good", "bad"} : CurlDone(q, content)
    BY <1>3, <2>3 DEF CurlDone, Fetch
  <2>4. CASE Rename(q)
    BY <1>3, <2>4 DEF Rename, Fetch
  <2>5. CASE Verify(q)
    BY <1>3, <2>5 DEF Verify, Idle, Fetch
  <2> QED
    BY <1>6, <2>1, <2>2, <2>3, <2>4, <2>5 DEF Download
<1>7. CASE TreeExists(q)
  <2>1. proc'[q].at = "patch" /\ proc[q].at = "extract"
    BY <1>7 DEF TreeExists
  <2>2. ~Replacing
    BY <2>1, Alone DEF Replacing, Extract
  <2>3. tree # NoTree /\ extracted = port
    BY <1>7 DEF TreeExists
  <2>4. ~torn => Truth(tree, port)
    BY <2>2, <2>3, SourceBuildAssumption DEF StampsOK, tree
  <2>5. OnTree(q)'
    BY <1>2, <2>1, <2>3, <2>4
       DEF OnTree, Fresh, Bare, HasTree, Matches, Patching, Patched, Touched, Truth, tree, version
  <2> QED
    BY <1>1, <1>2, <2>1, <2>5, Still
<1>8. CASE SkipPatch(q)
  <2>1. proc'[q].at = "auto" /\ proc[q].at = "patch" /\ "nacl_patch" \in stamps
    BY <1>8 DEF SkipPatch
  <2>2. OnTree(q)
    BY DEF TreeOK
  <2>3. OnTree(q)'
    BY <1>2, <2>1, <2>2
       DEF OnTree, Fresh, Bare, HasTree, Matches, Patching, Patched, Touched, Truth, tree, version, Make
  <2> QED
    BY <1>1, <1>2, <2>1, <2>3, Still
<1> QED
  BY <1>4, <1>5, <1>6, <1>7, <1>8

\* A command that stops, and the removal of stamps.
LEMMA StopStep ==
    ASSUME TypeOK, CommandsOK, OneBuilder, StampsOK, TreeOK, NEW q \in Process, Stop(q)
    PROVE  TreeOK' /\ StampsOK'
<1>0. Command(q)
  BY DEF Command
<1>1. \A r \in Process \ {q} : proc'[r].at = proc[r].at
  BY <1>0, Moves
<1>2. UNCHANGED <<port, trees, extracted, stamps>> /\ (~torn' => ~torn) /\ proc'[q].at = "idle"
  BY DEF Stop, Idle, TypeOK
<1>3. TreeOK'
  BY <1>1, <1>2 DEF TreeOK, OnTree, Fresh, Bare, HasTree, Matches, Patching, Patched, Touched, Truth,
                    Extract, Make, At, version, tree
<1>4. ~torn' /\ extracted # NoStamp => (Replacing => Replacing')
  BY <1>1, <1>2 DEF Stop, Replacing, At, version
<1> QED
  BY <1>2, <1>3, <1>4 DEF StampsOK, Truth

\* The removal of a stamp: nothing that was said of the tree depends on its being there.
LEMMA RemovalStep ==
    ASSUME StampsOK, TreeOK, UNCHANGED <<port, trees, torn, proc>>,
           \/ extracted' = NoStamp /\ stamps' = stamps
           \/ extracted' = extracted /\ stamps' \subseteq stamps
    PROVE  TreeOK' /\ StampsOK'
<1>1. TreeOK'
  BY DEF TreeOK, OnTree, Fresh, Bare, HasTree, Matches, Patching, Patched, Touched, Truth,
         At, version, tree
<1>2. StampsOK'
  BY DEF StampsOK, Replacing, At, version, Truth
<1> QED
  BY <1>1, <1>2

\* The steps of extract that change the tree or its stamps.
LEMMA ExtractStep ==
    ASSUME TypeOK, CommandsOK, OneBuilder, StampsOK, TreeOK, NEW q \in Process,
           Unpack(q) \/ StampsRemoved(q) \/ WriteExtractStamp(q)
    PROVE  TreeOK' /\ StampsOK'
<1>0. Command(q) \/ Download(q) \/ Unpacking(q) \/ Building(q)
  BY DEF Unpacking
<1>1. (\A r \in Process \ {q} : proc'[r].at = proc[r].at) /\ port' = port
  BY <1>0, Moves
<1>2. OnTree(q) /\ version \in Version
  BY DEF TreeOK, TypeOK, Port, version
<1> USE DEF TypeOK, At, Goto, State
<1>3. CASE Unpack(q)
  <2>1. /\ proc[q].at = "unpack" /\ proc'[q].at = "unstamp"
        /\ UNCHANGED <<extracted, stamps, torn>>
    BY <1>3 DEF Unpack
  <2>2. tree'.patch = NoPatch /\ tree' \in Tree /\ \A v \in Version \ {version} : trees'[v] = trees[v]
    BY <1>1, <1>2, <1>3 DEF Unpack, tree, version, Tree
  <2>3. OnTree(q)'
    BY <2>1, <2>2, SourceBuildAssumption
       DEF OnTree, Fresh, Bare, HasTree, Matches, Patching, Patched, Touched, Make
  <2>4. TreeOK'
    BY <1>1, <2>1, <2>3, Mine DEF Extract
  <2>5. extracted.version = version => Replacing'
    BY <1>1, <2>1 DEF Replacing, version
  <2>6. Replacing => extracted.version = version
    BY DEF Replacing
  <2>7. extracted # NoStamp => extracted.version \in Version
    BY DEF Port
  <2> QED
    BY <2>1, <2>2, <2>4, <2>5, <2>6, <2>7 DEF StampsOK, Truth
<1>4. CASE StampsRemoved(q)
  <2>1. /\ extracted = NoStamp /\ stamps = {} /\ UNCHANGED <<trees, extracted, stamps, torn>>
        /\ \/ proc[q].at = "unstamp" /\ proc'[q].at = "write"
           \/ proc[q].at = "clean" /\ proc'[q].at = "idle"
    BY <1>4 DEF StampsRemoved, Idle, work
  <2>2. StampsOK'
    BY <2>1 DEF StampsOK
  <2>3. OnTree(q)'
    BY <1>1, <1>2, <2>1
       DEF OnTree, Fresh, Bare, HasTree, Matches, Patching, Patched, Touched, Make, tree, version
  <2>4. \A r \in Process \ {q} : OnTree(r)'
    BY <1>1, <2>1 DEF TreeOK, OnTree, Fresh, Bare, HasTree, Matches, Patching, Patched, Touched,
                      Truth, tree, version
  <2> QED
    BY <2>2, <2>3, <2>4 DEF TreeOK
<1>5. CASE WriteExtractStamp(q)
  <2>1. /\ proc[q].at = "write" /\ proc'[q].at = "patch"
        /\ extracted' = port /\ UNCHANGED <<trees, stamps, torn>>
    BY <1>5 DEF WriteExtractStamp
  <2>2. Truth(tree, port) /\ tree # NoTree
    BY <1>2, <2>1 DEF OnTree, Fresh, Bare, Truth
  <2>3. Truth(tree, port)'
    BY <1>1, <2>1, <2>2 DEF Truth, tree
  <2>4. OnTree(q)'
    BY <1>1, <2>1, <2>2, <2>3
       DEF OnTree, Fresh, Bare, HasTree, Matches, Patching, Patched, Touched, tree
  <2>5. TreeOK'
    BY <1>1, <2>1, <2>4, Mine DEF Extract
  <2>6. StampsOK'
    BY <1>1, <2>1, <2>3 DEF StampsOK, tree, version
  <2> QED
    BY <2>5, <2>6
<1> QED
  BY <1>3, <1>4, <1>5

\* The steps of patch and of build_port.sh that change the tree or its stamps.
LEMMA PatchStep ==
    ASSUME TypeOK, CommandsOK, OneBuilder, StampsOK, TreeOK, NEW q \in Process,
           StartPatch(q) \/ PatchDone(q) \/ StampPatch(q) \/ AutoPatch(q) \/ TouchStamp(q)
    PROVE  TreeOK' /\ StampsOK'
<1>0. Building(q)
  BY DEF Building
<1>1. (\A r \in Process \ {q} : proc'[r].at = proc[r].at) /\ port' = port
  BY <1>0, Moves
<1> USE DEF TypeOK, At, Goto, State
<1>2. proc[q].at \in Extract \cup Make /\ proc[q].at \in Make /\ UNCHANGED <<extracted, torn>>
  BY DEF StartPatch, PatchDone, StampPatch, AutoPatch, TouchStamp, Make
<1>3. OnTree(q) /\ version \in Version /\ tree \in Tree
  BY <1>2 DEF TreeOK, OnTree, HasTree, Port, version, tree
<1> DEFINE Result == OnTree(q)' /\ (~torn => Truth(tree, port)')
<1> USE SourceBuildAssumption
        DEF OnTree, Fresh, Bare, HasTree, Matches, Patching, Patched, Touched, Truth, Make
<1>4. ASSUME StartPatch(q) PROVE Result
  <2>1. CASE port.patch = NoPatch
    BY <1>1, <1>2, <1>3, <1>4, <2>1 DEF StartPatch, tree, version
  <2>2. CASE port.patch # NoPatch
    <3>1. tree' = [tree EXCEPT !.patch = "partly"] /\ stamps' = stamps /\ proc'[q].at = "patching"
      BY <1>1, <1>3, <1>4, <2>2 DEF StartPatch, tree, version
    <3>2. tree'.patch = "partly" /\ tree'.auto = tree.auto /\ tree' \in Tree
      BY <1>3, <3>1 DEF Tree
    <3> QED
      BY SMTT(30), <1>1, <1>2, <1>3, <1>4, <2>2, <3>1, <3>2 DEF StartPatch
  <2> QED
    BY <2>1, <2>2
<1>5. ASSUME PatchDone(q) PROVE Result
  <2>1. tree' = [tree EXCEPT !.patch = port.patch] /\ stamps' = stamps /\ proc'[q].at = "stamp"
    BY <1>1, <1>3, <1>5 DEF PatchDone, tree, version
  <2>2. tree'.patch = port.patch /\ tree'.auto = tree.auto /\ tree' \in Tree
    BY <1>3, <2>1 DEF Tree, Port
  <2> QED
    BY <1>1, <1>2, <1>3, <1>5, <2>1, <2>2 DEF PatchDone
<1>6. ASSUME StampPatch(q) \/ TouchStamp(q) PROVE Result
  BY <1>1, <1>2, <1>3, <1>6 DEF StampPatch, TouchStamp, tree, version
<1>7. ASSUME AutoPatch(q) PROVE Result
  <2>1. CASE "patch" \in stamps
    BY <1>1, <1>2, <1>3, <1>7, <2>1 DEF AutoPatch, tree, version
  <2>2. CASE "patch" \notin stamps
    <3>1. /\ tree' = [tree EXCEPT !.auto = TRUE] /\ stamps' = stamps
          /\ proc[q].at = "auto" /\ proc'[q].at = "touch"
      BY <1>1, <1>3, <1>7, <2>2 DEF AutoPatch, tree, version
    <3>2. tree'.patch = tree.patch /\ tree'.auto = TRUE /\ tree' \in Tree
      BY <1>3, <3>1 DEF Tree
    <3> QED
      BY <1>1, <1>2, <1>3, <2>2, <3>1, <3>2
  <2> QED
    BY <2>1, <2>2
<1>8. Result
  BY <1>4, <1>5, <1>6, <1>7
<1>9. TreeOK'
  BY <1>1, <1>2, <1>8, Mine
<1>10. StampsOK'
  <2>1. SUFFICES ASSUME ~torn, extracted # NoStamp PROVE extracted = port
    BY <1>1, <1>2, <1>8 DEF StampsOK, tree
  <2> QED
    BY <1>2, <1>3, <2>1
<1> QED
  BY <1>9, <1>10

\* A step keeps the stamps true, and true of the tree what its build relies on.
LEMMA TreeStep ==
    TypeOK /\ CommandsOK /\ OneBuilder /\ StampsOK /\ TreeOK /\ [Next]_vars => StampsOK' /\ TreeOK'
<1> SUFFICES ASSUME TypeOK, CommandsOK, OneBuilder, StampsOK, TreeOK, [Next]_vars
             PROVE  StampsOK' /\ TreeOK'
  OBVIOUS
<1>1. CASE UNCHANGED vars
  BY <1>1, RemovalStep DEF vars
<1>2. ASSUME Quiet', ~torn' /\ extracted' # NoStamp => trees'[extracted'.version] = NoTree \/ Truth(trees[extracted.version], extracted)'
      PROVE  StampsOK' /\ TreeOK'
  <2>1. ASSUME NEW q \in Process PROVE OnTree(q)'
    BY <1>2 DEF Quiet, OnTree, Fresh, Bare, HasTree, Matches, Patching, Patched, Touched, Make, At
  <2> QED
    BY <1>2, <2>1 DEF StampsOK, TreeOK
<1>3. CASE RemoveTree
  <2>1. version \in Version /\ trees'[version] = NoTree /\ UNCHANGED <<port, extracted, stamps, proc>>
    BY <1>3 DEF RemoveTree, TypeOK, Port, version
  <2>2. ~torn' /\ extracted # NoStamp => ~torn \/ extracted.version = version
    BY <1>3 DEF RemoveTree
  <2>3. \A v \in Version \ {version} : trees'[v] = trees[v]
    BY <1>3 DEF RemoveTree, TypeOK
  <2>4. ~Replacing /\ (extracted # NoStamp => extracted.version \in Version)
    BY <1>3 DEF RemoveTree, Quiet, Replacing, At, TypeOK, Port
  <2>5. ~torn' /\ extracted # NoStamp =>
            trees'[extracted.version] = NoTree \/ Truth(trees[extracted.version], extracted)'
    BY <2>1, <2>2, <2>3, <2>4 DEF StampsOK, Truth
  <2>6. Quiet'
    BY <1>3 DEF RemoveTree, Quiet, At
  <2> QED
    BY <1>2, <2>1, <2>5, <2>6
<1>4. ASSUME NEW p \in Port, EditPort(p) PROVE StampsOK' /\ TreeOK'
  <2>1. UNCHANGED <<trees, extracted, stamps, torn>> /\ Quiet' /\ ~Replacing
    BY <1>4 DEF EditPort, Quiet, Replacing, At, work
  <2> QED
    BY <1>2, <2>1 DEF StampsOK, Truth
<1>5. ASSUME NEW q \in Process, Command(q) \/ Download(q) \/ Unpacking(q) \/ Building(q)
      PROVE  StampsOK' /\ TreeOK'
  <2>1. CASE Stop(q)
    BY <2>1, StopStep
  <2>2. CASE RemoveExtractStamp(q)
    BY <2>2, RemovalStep DEF RemoveExtractStamp
  <2>3. ASSUME NEW stamp \in stamps, RemoveStamp(q, stamp) PROVE StampsOK' /\ TreeOK'
    BY <2>3, RemovalStep DEF RemoveStamp
  <2> QED
    BY <1>5, <2>1, <2>2, <2>3, LookStep, ExtractStep, PatchStep DEF Command, Unpacking, Building
<1> QED
  BY <1>1, <1>3, <1>4, <1>5 DEF Next, Developer

-----------------------------------------------------------------------------
(* The download cache *)

\* A step of q that leaves the cache alone.
LEMMA CacheStill ==
    ASSUME CacheOK, NEW q \in Process, UNCHANGED <<port, archive>>,
           \A r \in Process \ {q} : proc'[r].at = proc[r].at /\ proc'[r].out = proc[r].out,
           Downloads(q)' => Downloads(q) \/ \A r \in Process \ {q} : ~Downloads(r),
           Cached(q)'
    PROVE  CacheOK'
BY DEF CacheOK, Cached, Downloads, At, version

\* What only one process does, while no two fetch an archive at once.
LEMMA DownloadStep ==
    ASSUME TypeOK, CacheOK, NEW q \in Process, Download(q), ~shared' PROVE CacheOK'
<1> USE DEF TypeOK, At, Goto, State
<1>0. Cached(q)
  BY DEF CacheOK
<1>1. CASE LookInCache(q)
  <2>1. /\ proc[q].at = "look" /\ UNCHANGED <<port, archive>>
        /\ proc' = [proc EXCEPT ![q].at = proc'[q].at]
        /\ proc'[q].at = IF archive[version] = "none" THEN "curl" ELSE "verify"
    BY <1>1 DEF LookInCache
  <2>2. archive[version] = "none" => \A r \in Process \ {q} : ~Downloads(r)
    BY <1>1 DEF LookInCache, Downloads, Fetch
  <2>3. Cached(q)'
    BY <1>0, <2>1 DEF Cached, Downloads, version
  <2> QED
    BY <2>1, <2>2, <2>3, CacheStill DEF Downloads
<1>2. CASE CurlStart(q) \/ CurlFails(q)
  <2>1. /\ Downloads(q) /\ UNCHANGED <<port, archive>>
        /\ \A r \in Process \ {q} : proc'[r].at = proc[r].at /\ proc'[r].out = proc[r].out
        /\ \/ proc'[q].at = "fetch" /\ proc'[q].out = "partial"
           \/ proc'[q].at = "curl" /\ proc'[q].out = "none"
    BY <1>2 DEF CurlStart, CurlFails, Downloads, cache
  <2>2. Cached(q)'
    BY <1>0, <2>1 DEF Cached, Downloads, version
  <2> QED
    BY <2>1, <2>2, CacheStill
<1>3. CASE \E content \in {"good", "bad"} : CurlDone(q, content)
  <2>1. /\ Downloads(q) /\ port' = port
        /\ \A r \in Process \ {q} : proc'[r].at = proc[r].at /\ proc'[r].out = proc[r].out
        /\ proc'[q].at = "rename" /\ proc'[q].out = "none"
    BY <1>3 DEF CurlDone, Downloads
  <2>2. archive' = archive
    BY <1>0, <1>3 DEF CurlDone, Cached
  <2>3. Cached(q)'
    BY <1>0, <2>1, <2>2 DEF Cached, Downloads, version
  <2> QED
    BY <2>1, <2>2, <2>3, CacheStill
<1>4. CASE Rename(q)
  <2>1. Downloads(q) /\ archive[version] = "none"
    BY <1>0, <1>4 DEF Rename, Cached, Downloads
  <2>2. port' = port /\ archive'[version] # "none" /\ proc'[q].at = "verify" /\ proc'[q].out = proc[q].out
    BY <1>4 DEF Rename, Port, version
  <2>3. Cached(q)' /\ ~Downloads(q)'
    BY <1>0, <1>4, <2>2 DEF Rename, Cached, Downloads, version
  <2>4. ASSUME NEW r \in Process, r # q PROVE Cached(r)' /\ ~Downloads(r)'
    <3>1. ~Downloads(r) /\ Cached(r)
      BY <2>1, <2>4 DEF CacheOK
    <3>2. proc[r].out = "none" /\ proc[r].at \notin {"verify", "extract", "unpack"}
      BY <2>1, <3>1 DEF Cached, Downloads
    <3>3. proc'[r].at = proc[r].at /\ proc'[r].out = "none"
      BY <1>4, <2>4, <3>2 DEF Rename
    <3> QED
      BY <3>1, <3>2, <3>3 DEF Cached, Downloads
  <2> QED
    BY <2>3, <2>4 DEF CacheOK
<1>5. CASE Verify(q)
  <2>1. /\ proc[q].at = "verify" /\ archive[version] = "good" /\ UNCHANGED <<port, archive>>
        /\ \A r \in Process \ {q} : proc'[r].at = proc[r].at /\ proc'[r].out = proc[r].out
        /\ \/ proc'[q].at = "idle" /\ proc'[q].out = "none"
           \/ proc'[q].at = "extract" /\ proc'[q].out = proc[q].out
    BY <1>5 DEF Verify, Idle, cache
  <2>2. Cached(q)' /\ ~Downloads(q)'
    BY <1>0, <2>1 DEF Cached, Downloads, version
  <2> QED
    BY <2>1, <2>2, CacheStill
<1> QED
  BY <1>1, <1>2, <1>3, <1>4, <1>5 DEF Download

\* The steps that are not of a download.
LEMMA AwayStep ==
    ASSUME TypeOK, CacheOK, NEW q \in Process, Command(q) \/ Unpacking(q) \/ Building(q)
    PROVE  CacheOK'
<1> USE DEF TypeOK, At, Goto, State
<1>0. Cached(q)
  BY DEF CacheOK
<1>1. UNCHANGED <<port, archive>>
  BY DEF Command, StartBuild, StartClean, StartDownload, TakeLock, Stop, Unpacking, TreeExists,
         NoTreeYet, Unpack, RemoveExtractStamp, RemoveStamp, StampsRemoved, WriteExtractStamp,
         Building, SkipPatch, StartPatch, PatchDone, StampPatch, AutoPatch, TouchStamp, Package, cache
<1> DEFINE Moved ==
        /\ \A r \in Process \ {q} : proc'[r].at = proc[r].at /\ proc'[r].out = proc[r].out
        /\ proc'[q].out = proc[q].out \/ proc'[q].out = "none"
        /\ proc[q].at = "fetch" => proc'[q].out = "none"
        /\ proc'[q].at \notin {"curl", "fetch", "rename", "verify", "extract"}
        /\ proc'[q].at = "unpack" => proc[q].at \in {"extract", "unpack"}
<1>2. ASSUME NEW c \in Config, StartBuild(q, c) PROVE Moved
  BY <1>2 DEF StartBuild
<1>3. ASSUME NEW c \in Config, StartClean(q, c) PROVE Moved
  BY <1>3 DEF StartClean
<1>4. ASSUME StartDownload(q) PROVE Moved
  BY <1>4 DEF StartDownload
<1>5. ASSUME TakeLock(q) \/ Stop(q) PROVE Moved
  BY <1>5 DEF TakeLock, Stop, Idle
<1>6. ASSUME TreeExists(q) \/ NoTreeYet(q) \/ Unpack(q) \/ WriteExtractStamp(q) PROVE Moved
  BY <1>6 DEF TreeExists, NoTreeYet, Unpack, WriteExtractStamp
<1>7. ASSUME RemoveExtractStamp(q) \/ \E stamp \in stamps : RemoveStamp(q, stamp) PROVE Moved
  BY <1>7 DEF RemoveExtractStamp, RemoveStamp
<1>8. ASSUME StampsRemoved(q) PROVE Moved
  BY <1>8 DEF StampsRemoved, Idle
<1>9. ASSUME SkipPatch(q) \/ PatchDone(q) \/ StampPatch(q) \/ TouchStamp(q) PROVE Moved
  BY <1>9 DEF SkipPatch, PatchDone, StampPatch, TouchStamp
<1>10. ASSUME StartPatch(q) PROVE Moved
  BY <1>10 DEF StartPatch
<1>11. ASSUME AutoPatch(q) PROVE Moved
  <2>1. proc' = [proc EXCEPT ![q].at = "make"] \/ proc' = [proc EXCEPT ![q].at = "touch"]
    BY <1>11 DEF AutoPatch
  <2> QED
    BY <1>11, <2>1 DEF AutoPatch
<1>12. ASSUME Package(q) PROVE Moved
  BY <1>12 DEF Package, Idle
<1>13. Moved
  BY <1>2, <1>3, <1>4, <1>5, <1>6, <1>7, <1>8, <1>9, <1>10, <1>11, <1>12
     DEF Command, Unpacking, Building
<1>14. Cached(q)' /\ ~Downloads(q)'
  BY <1>0, <1>1, <1>13 DEF Cached, Downloads, version
<1> QED
  BY <1>1, <1>13, <1>14, CacheStill

\* A step keeps the cache in order while no two processes fetch at once.
LEMMA FetchStep == TypeOK /\ FetchOK /\ [Next]_vars => FetchOK'
<1> SUFFICES ASSUME TypeOK, FetchOK, [Next]_vars, ~shared' PROVE CacheOK'
  BY DEF FetchOK
<1>1. ~shared
  BY ZenonT(40) DEF Next, Developer, RemoveTree, EditPort, Command, StartBuild, StartClean, StartDownload,
         TakeLock, Stop, Download, LookInCache, CurlStart, CurlDone, CurlFails, Rename, Verify,
         Unpacking, TreeExists, NoTreeYet, Unpack, RemoveExtractStamp, RemoveStamp, StampsRemoved,
         WriteExtractStamp, Building, SkipPatch, StartPatch, PatchDone, StampPatch, AutoPatch,
         TouchStamp, Package, cache, vars
<1>2. CacheOK
  BY <1>1 DEF FetchOK
<1>3. CASE UNCHANGED vars
  BY <1>2, <1>3 DEF CacheOK, Cached, Downloads, version, At, vars
<1>4. ASSUME Quiet, UNCHANGED proc PROVE CacheOK'
  BY <1>2, <1>4 DEF CacheOK, Cached, Downloads, Quiet, At
<1>5. ASSUME NEW q \in Process, Command(q) \/ Download(q) \/ Unpacking(q) \/ Building(q) PROVE CacheOK'
  BY <1>2, <1>5, DownloadStep, AwayStep
<1> QED
  BY <1>3, <1>4, <1>5 DEF Next, Developer, RemoveTree, EditPort

\* Only Unpack makes a tree, and the other steps keep what a tree was made from.
LEMMA SourcesStep ==
    TypeOK /\ TreeOK /\ FetchOK /\ SourcesVerified /\ [Next]_vars => SourcesVerified'
<1> SUFFICES ASSUME TypeOK, TreeOK, FetchOK, SourcesVerified, [Next]_vars, ~shared',
                    NEW v \in Version, trees'[v] # NoTree
             PROVE  trees'[v].from = "good"
  BY DEF SourcesVerified
<1>1. ~shared
  BY ZenonT(40) DEF Next, Developer, RemoveTree, EditPort, Command, StartBuild, StartClean, StartDownload,
         TakeLock, Stop, Download, LookInCache, CurlStart, CurlDone, CurlFails, Rename, Verify,
         Unpacking, TreeExists, NoTreeYet, Unpack, RemoveExtractStamp, RemoveStamp, StampsRemoved,
         WriteExtractStamp, Building, SkipPatch, StartPatch, PatchDone, StampPatch, AutoPatch,
         TouchStamp, Package, cache, vars
<1>2. CASE UNCHANGED trees
  BY <1>1, <1>2 DEF SourcesVerified
<1>3. CASE RemoveTree
  BY <1>1, <1>3 DEF RemoveTree, TypeOK, SourcesVerified
<1>4. ASSUME NEW q \in Process, Unpack(q) PROVE trees'[v].from = "good"
  <2>1. archive[version] = "good"
    BY <1>1, <1>4 DEF FetchOK, CacheOK, Cached, Unpack, At
  <2> QED
    BY <1>1, <1>4, <2>1 DEF Unpack, TypeOK, SourcesVerified
<1>5. ASSUME NEW q \in Process, StartPatch(q) \/ PatchDone(q) \/ AutoPatch(q)
      PROVE  trees'[v].from = "good"
  <2>1. tree \in Tree
    BY <1>5 DEF StartPatch, PatchDone, AutoPatch, At, Make, TreeOK, OnTree, HasTree, TypeOK, Port,
                version, tree
  <2>2. trees[v] # NoTree => trees[v] \in Tree /\ trees[v].from = "good"
    BY <1>1 DEF SourcesVerified, TypeOK
  <2>3. v # version => trees'[v] = trees[v]
    BY <1>5 DEF StartPatch, PatchDone, AutoPatch, TypeOK
  <2>4. v = version => \/ trees'[v] = trees[v]
                      \/ trees'[v] = [tree EXCEPT !.patch = "partly"]
                      \/ trees'[v] = [tree EXCEPT !.patch = port.patch]
                      \/ trees'[v] = [tree EXCEPT !.auto = TRUE]
    BY <1>5 DEF StartPatch, PatchDone, AutoPatch, TypeOK, version, tree
  <2>5. v = version => trees'[v].from = tree.from /\ tree # NoTree
    BY <2>1, <2>4, SourceBuildAssumption DEF Tree, tree, version
  <2> QED
    BY <2>2, <2>3, <2>5 DEF tree, version
<1> QED
  BY ZenonT(40), <1>2, <1>3, <1>4, <1>5
     DEF Next, Developer, EditPort, Command, StartBuild, StartClean, StartDownload,
         TakeLock, Stop, Download, LookInCache, CurlStart, CurlDone, CurlFails, Rename, Verify,
         Unpacking, TreeExists, NoTreeYet, RemoveExtractStamp, RemoveStamp, StampsRemoved,
         WriteExtractStamp, Building, SkipPatch, StampPatch, TouchStamp, Package, work, vars

-----------------------------------------------------------------------------
(* The theorems *)

\* The invariant holds at first.
LEMMA Initially == Init => IInv
<1> SUFFICES ASSUME Init PROVE IInv
  OBVIOUS
<1>1. TypeOK
  <2>1. proc \in [Process -> State]
    BY IdleType DEF Init
  <2>5. archive \in [Version -> Content] /\ partial \in Content
    <3>1. "none" \in Content
      BY DEF Content
    <3>2. archive = [v \in Version |-> "none"] /\ partial = "none"
      BY DEF Init
    <3> QED
      BY <3>1, <3>2
  <2>2. trees \in [Version -> Tree \cup {NoTree}] /\ packages \in [Version \X Config -> Tree \cup {NoFile}]
    BY DEF Init
  <2>3. port \in Port /\ extracted \in Port \cup {NoStamp} /\ stamps \subseteq {"nacl_patch", "patch"}
    BY DEF Init
  <2>4. edits \in 0 .. MaxEdits /\ torn \in BOOLEAN /\ shared \in BOOLEAN
    <3>1. edits = 0 /\ torn = FALSE /\ shared = FALSE
      BY DEF Init
    <3>2. 0 \in 0 .. MaxEdits
      BY SourceBuildAssumption
    <3> QED
      BY <3>1, <3>2
  <2> QED
    BY <2>1, <2>2, <2>3, <2>4, <2>5 DEF TypeOK
<1>2. \A q \in Process : proc[q] = Idle
  BY DEF Init
<1>3. CommandsOK /\ OneBuilder
  BY <1>2 DEF CommandsOK, OneBuilder, Locked, At, Idle, Fetch, Extract, Make
<1>4. TreeOK
  <2>1. ASSUME NEW q \in Process PROVE OnTree(q)
    <3>1. proc[q].at \notin Extract \cup Make
      BY <1>2 DEF Idle, Extract, Make
    <3> QED
      BY <3>1, Elsewhere
  <2> QED
    BY <2>1 DEF TreeOK
<1>5. StampsOK
  BY DEF Init, StampsOK
<1>6. FetchOK
  BY <1>2 DEF FetchOK, CacheOK, Cached, Downloads, At, Idle
<1>7. SourcesVerified
  BY DEF Init, SourcesVerified
<1> QED
  BY <1>1, <1>3, <1>4, <1>5, <1>6, <1>7 DEF IInv

\* Every step keeps the invariant.
LEMMA Inductive == IInv /\ [Next]_vars => IInv'
BY TypeStep, LockStep, TreeStep, FetchStep, SourcesStep DEF IInv

\* The inductive invariant holds in every state.
THEOREM Invariance == Spec => []IInv
BY Initially, Inductive, PTL DEF Spec

\* The variables keep their types.
THEOREM TypeCorrect == Spec => []TypeOK
BY Invariance, PTL DEF IInv

\* What the stamps say was done to the tree that the extract stamp names was done
\* to it, whatever failed, was killed, cleaned, edited or removed by hand (extract,
\* patch, DefaultPatchStep).
THEOREM StampsAreTrue == Spec => []StampsDescribeTree
<1>1. IInv => StampsDescribeTree
  BY DEF IInv, StampsOK, StampsDescribeTree, Replacing, Truth
<1> QED
  BY <1>1, Invariance, PTL

\* Unless two processes fetch an archive at the same time, only verified archives
\* are unpacked (verify_hash before extract).
THEOREM ArchivesAreVerified == Spec => []SourcesVerified
BY Invariance, PTL DEF IInv

\* A package is made from the sources and the patch that the port names when it is
\* made (build, patch and the package step).
THEOREM PackagesHoldThePort == Spec => PackagesAreTrue
<1> DEFINE Made == ~torn => \A vc \in Version \X Config :
                       packages'[vc] \notin {packages[vc], NoFile} =>
                           vc[1] = version /\ packages'[vc].patch = port.patch /\ packages'[vc].auto
<1>1. IInv /\ [Next]_vars => [Made]_vars
  <2> SUFFICES ASSUME IInv, [Next]_vars PROVE Made
    OBVIOUS
  <2> TypeOK
    BY DEF IInv
  <2>1. CASE UNCHANGED packages
    BY <2>1
  <2>2. ASSUME NEW q \in Process, NEW c \in Config, StartClean(q, c) PROVE Made
    BY <2>2 DEF StartClean, TypeOK
  <2>3. ASSUME NEW q \in Process, Package(q) PROVE Made
    <3>1. ~torn => tree.patch = port.patch /\ tree.auto
      BY <2>3 DEF Package, At, IInv, TreeOK, OnTree, Patched, Touched
    <3>2. \A vc \in Version \X Config :
              packages'[vc] # packages[vc] => vc = <<version, proc[q].config>> /\ packages'[vc] = tree
      BY <2>3 DEF Package, TypeOK
    <3> QED
      BY <3>1, <3>2
  <2> QED
    BY ZenonT(40), <2>1, <2>2, <2>3
       DEF Next, Developer, RemoveTree, EditPort, Command, StartBuild, StartDownload,
           TakeLock, Stop, Download, LookInCache, CurlStart, CurlDone, CurlFails, Rename, Verify,
           Unpacking, TreeExists, NoTreeYet, Unpack, RemoveExtractStamp, RemoveStamp, StampsRemoved,
           WriteExtractStamp, Building, SkipPatch, StartPatch, PatchDone, StampPatch, AutoPatch,
           TouchStamp, vars
<1> QED
  BY <1>1, Invariance, PTL DEF Spec, PackagesAreTrue
=============================================================================
