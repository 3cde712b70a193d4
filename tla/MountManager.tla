----------------------------- MODULE MountManager -----------------------------
(***************************************************************************)
(* The local folder of the development environment.  The page (bash.js and *)
(* mounter.js) keeps it in g_mount and broadcasts mount and unmount to the *)
(* processes; a process mounts the folder when it is told to or, while it  *)
(* is set up, when the answer to nacl_mountfs says so (nacl_setup_env.c),  *)
(* and reports; the process manager (naclprocess.js) gathers the reports.  *)
(*                                                                         *)
(* Messages to a process that has not registered its handlers yet are lost.*)
(* Left out: another mount point than the one that is offered, and clicks  *)
(* before there is a terminal.                                             *)
(***************************************************************************)
EXTENDS Naturals, Sequences

CONSTANTS Folder,    \* the folders of the user's machine
          NoFolder,  \* none was chosen, none is mounted
          MaxPid,    \* bound: the processes that are started
          MaxClicks  \* bound: the clicks on Mount, Unmount and Choose Folder

ASSUME MountManagerAssumption ==
    NoFolder \notin Folder /\ MaxPid \in Nat \ {0} /\ MaxClicks \in Nat

Pid == 1..MaxPid

MayBe == Folder \cup {NoFolder}

VARIABLES g_mount,    \* available, mounted, whether one is chosen, and which was last
          shown,      \* whether the page has the buttons: "not yet", "yes" or "never"
          ui,         \* the buttons that are enabled
          choosing,   \* the dialog to choose a folder is open, or its answer is stored
          processes,  \* pid -> the report of its process, for the page
          phase,      \* pid -> how far its process is
          told,       \* pid -> the folder that the answer to its nacl_mountfs names
          local,      \* pid -> the folder its process has mounted
          toProcess,  \* pid -> messages on their way to it
          toPage,     \* pid -> messages on their way from it
          clicks,
          refused,    \* history: the file system refused a mount or an unmount
          replaced    \* history: a folder was chosen while another was in use

page    == <<g_mount, shown, ui, choosing, clicks, replaced>>
process == <<phase, told, local>>
vars    == <<page, processes, process, toProcess, toPage, refused>>

\* In processes; and of these, those with an element that takes messages.
Known == {p \in Pid : phase[p] \notin {"absent", "gone"}}
Live  == {p \in Known : phase[p] # "zombie"}

Mount(f)    == [kind |-> "mount", on |-> TRUE, folder |-> f]
Unmount(m)  == [kind |-> "unmount", on |-> m, folder |-> NoFolder]
Reply(a, f) == [kind |-> "reply", on |-> a, folder |-> IF a THEN f ELSE NoFolder]

\* The folders process p has, is about to mount or will be told about.
Named(p) == {local[p], told[p]} \cup {toProcess[p][i].folder : i \in DOMAIN toProcess[p]}

TypeOK ==
    /\ g_mount \in [available : BOOLEAN, mounted : BOOLEAN, entry : BOOLEAN, folder : MayBe]
    /\ shown \in {"not yet", "yes", "never"}
    /\ ui \in [mount : BOOLEAN, unmount : BOOLEAN, choose : BOOLEAN]
    /\ choosing \in {"no", "dialog", "stores"}
    /\ processes \in [Pid -> BOOLEAN]
    /\ told \in [Pid -> MayBe] /\ local \in [Pid -> MayBe]
    /\ phase \in [Pid -> {"absent", "starts", "asks", "yes", "no", "set up", "ended",
                          "zombie", "gone"}]
    /\ toProcess \in [Pid -> Seq([kind : {"mount", "unmount", "reply"}, on : BOOLEAN,
                                  folder : MayBe])]
    /\ toPage \in [Pid -> Seq({"mountfs", "mounted", "unmounted", "failed", "exited",
                              "overlay"})]
    /\ clicks \in 0..MaxClicks /\ refused \in BOOLEAN /\ replaced \in BOOLEAN

-----------------------------------------------------------------------------
(* The page.                                                               *)

AllEnabled == [mount |-> TRUE, unmount |-> TRUE, choose |-> TRUE]

populateMountControl(m) ==
    ui' = IF shown = "yes"
          THEN [mount |-> ~m.mounted /\ m.entry, unmount |-> m.mounted, choose |-> ~m.mounted]
          ELSE ui

\* A process that ended and was not collected is in processes; its element takes
\* no messages, the call throws, and who comes later gets none.
Throws     == Known # Live
Reached    == {p \in Live : \A z \in Known \ Live : p < z}
broadcastMessage(message) ==
    toProcess' = [p \in Pid |-> IF p \in Reached THEN Append(toProcess[p], message)
                                ELSE toProcess[p]]

Click == /\ shown = "yes"
         /\ clicks < MaxClicks /\ clicks' = clicks + 1
         /\ UNCHANGED <<shown, ui, replaced, processes, process, toPage, refused>>

handleMount ==
    /\ Click /\ ui.mount /\ UNCHANGED choosing
    /\ g_mount' = [g_mount EXCEPT !.available = TRUE, !.mounted = FALSE]
    /\ broadcastMessage(Mount(g_mount.folder))

\* The folder is forgotten unless the broadcast throws: no entry, but filesystem
\* and fullPath keep what they were.
handleUnmount ==
    /\ Click /\ ui.unmount /\ UNCHANGED choosing
    /\ g_mount' = IF Throws THEN [g_mount EXCEPT !.available = FALSE]
                  ELSE [g_mount EXCEPT !.available = FALSE, !.mounted = FALSE, !.entry = FALSE]
    /\ broadcastMessage(Unmount(g_mount.mounted))

chooseFolderClicked ==
    /\ Click /\ ui.choose /\ choosing = "no" /\ choosing' = "dialog"
    /\ UNCHANGED <<g_mount, toProcess>>

\* The folder takes the place of the earlier one, also of one that is in use: the
\* button is enabled while processes mount or still have it.
handleChooseFolder(f) ==
    /\ choosing = "dialog" /\ choosing' = "stores"
    /\ g_mount' = [g_mount EXCEPT !.entry = TRUE, !.folder = f]
    /\ replaced' = (replaced \/ \E p \in Live : ~(Named(p) \subseteq {f, NoFolder}))
    /\ UNCHANGED <<shown, ui, clicks, processes, process, toProcess, toPage, refused>>

\* Its id is stored; then the buttons are drawn.
FolderStored ==
    /\ choosing = "stores" /\ choosing' = "no"
    /\ populateMountControl(g_mount)
    /\ UNCHANGED <<g_mount, shown, clicks, replaced, processes, process, toProcess, toPage,
                   refused>>

\* No folder was stored: the buttons appear, and nothing draws them.
RestoreNone ==
    /\ shown = "not yet" /\ shown' = "yes"
    /\ UNCHANGED <<g_mount, ui, choosing, clicks, replaced, processes, process, toProcess, toPage,
                   refused>>

\* The folder of the last time is mounted at once.  When handleMount throws, as it
\* does before there is a terminal, the page never gets its buttons.
restoreMount(f) ==
    /\ shown = "not yet"
    /\ g_mount' = [g_mount EXCEPT !.available = TRUE, !.entry = TRUE, !.folder = f]
    /\ broadcastMessage(Mount(f))
    /\ \/ shown' = IF Throws THEN "never" ELSE "yes"
       \/ shown' = "never" /\ \A p \in Pid : phase[p] = "absent"
    /\ UNCHANGED <<ui, choosing, clicks, replaced, processes, process, toPage, refused>>

-----------------------------------------------------------------------------
(* The process manager.                                                    *)

\* A defect: the folder counts as mounted if one process has it.
SyncAny(reports) ==
    /\ g_mount' = [g_mount EXCEPT !.mounted = \E p \in Known : reports[p]]
    /\ populateMountControl(g_mount')

\* A defect: and this one if all have it, after an unmount too.
SyncAll(reports) ==
    /\ g_mount' = [g_mount EXCEPT !.mounted = \A p \in Known : reports[p]]
    /\ populateMountControl(g_mount')

syncMountStatus_(reports) ==
    /\ g_mount' = [g_mount EXCEPT !.mounted =
                      IF g_mount.available THEN \A p \in Known : reports[p]
                      ELSE \E p \in Known : reports[p]]
    /\ populateMountControl(g_mount')

handleMessageMountFs_(p) ==
    /\ toProcess' = [toProcess EXCEPT ![p] = Append(@, Reply(g_mount.available, g_mount.folder))]
    /\ UNCHANGED <<g_mount, ui, processes, phase>>

Report(p, mounted) ==
    /\ processes' = [processes EXCEPT ![p] = mounted]
    /\ syncMountStatus_(processes')
    /\ UNCHANGED <<toProcess, phase>>

\* The entry of a process goes if its parent waits for it.
exit(p) ==
    /\ \E end \in {"zombie", "gone"} : phase' = [phase EXCEPT ![p] = end]
    /\ toProcess' = [toProcess EXCEPT ![p] = <<>>]
    /\ UNCHANGED <<g_mount, ui, processes>>

\* A defect: the process that replaces another keeps its report.
KeepReport(p) ==
    /\ phase' = [phase EXCEPT ![p] = "starts"]
    /\ told' = [told EXCEPT ![p] = NoFolder]
    /\ local' = [local EXCEPT ![p] = NoFolder]
    /\ toProcess' = [toProcess EXCEPT ![p] = <<>>]
    /\ toPage' = [toPage EXCEPT ![p] = <<>>]
    /\ UNCHANGED <<page, refused, processes>>

\* spawn: a new element.  What was under way from and to an old one is lost.
NewImage(p) ==
    /\ phase' = [phase EXCEPT ![p] = "starts"]
    /\ processes' = [processes EXCEPT ![p] = FALSE]
    /\ told' = [told EXCEPT ![p] = NoFolder]
    /\ local' = [local EXCEPT ![p] = NoFolder]
    /\ toProcess' = [toProcess EXCEPT ![p] = <<>>]
    /\ toPage' = [toPage EXCEPT ![p] = <<>>]
    /\ UNCHANGED <<page, refused>>

Spawn(p) ==
    /\ phase[p] = "absent" /\ \A q \in 1..p-1 : phase[q] # "absent"
    /\ NewImage(p)

handleMessage(p) ==
    /\ toPage[p] # <<>>
    /\ \/ Head(toPage[p]) = "overlay" /\ NewImage(p)
       \/ /\ toPage' = [toPage EXCEPT ![p] = Tail(@)]
          /\ UNCHANGED <<shown, choosing, clicks, replaced, told, local, refused>>
          /\ \/ Head(toPage[p]) = "mountfs" /\ handleMessageMountFs_(p)
             \/ Head(toPage[p]) = "mounted" /\ Report(p, TRUE)
             \/ Head(toPage[p]) = "unmounted" /\ Report(p, FALSE)
             \/ /\ Head(toPage[p]) = "failed"
                /\ UNCHANGED <<g_mount, ui, processes, toProcess, phase>>
             \/ Head(toPage[p]) = "exited" /\ exit(p)

Collect(p) ==
    /\ phase[p] = "zombie" /\ phase' = [phase EXCEPT ![p] = "gone"]
    /\ UNCHANGED <<page, processes, told, local, toProcess, toPage, refused>>

-----------------------------------------------------------------------------
(* A process.                                                              *)

Tell(p, message) == toPage' = [toPage EXCEPT ![p] = Append(@, message)]

\* One folder is mounted at a time; the file system may refuse for reasons of its
\* own, and does when the message names no folder.
MountLocalFs(p, f) ==
    \/ /\ f # NoFolder /\ local[p] = NoFolder
       /\ local' = [local EXCEPT ![p] = f]
       /\ Tell(p, "mounted") /\ UNCHANGED refused
    \/ /\ refused' = (refused \/ local[p] = NoFolder)
       /\ Tell(p, "failed") /\ UNCHANGED local

UnmountLocalFs(p) ==
    \/ /\ local[p] # NoFolder
       /\ local' = [local EXCEPT ![p] = NoFolder]
       /\ Tell(p, "unmounted") /\ UNCHANGED refused
    \/ /\ refused' = (refused \/ local[p] # NoFolder)
       /\ Tell(p, "failed") /\ UNCHANGED local

Nothing == UNCHANGED <<local, toPage, refused>>

\* mountfs: ask, mount what the answer names, register the handlers.
AskMountFs(p) ==
    /\ phase[p] = "starts" /\ phase' = [phase EXCEPT ![p] = "asks"]
    /\ Tell(p, "mountfs")
    /\ UNCHANGED <<page, processes, told, local, toProcess, refused>>

FinishMountFs(p) ==
    /\ phase[p] \in {"yes", "no"} /\ phase' = [phase EXCEPT ![p] = "set up"]
    /\ IF phase[p] = "yes" THEN MountLocalFs(p, told[p]) ELSE Nothing
    /\ told' = [told EXCEPT ![p] = NoFolder]
    /\ UNCHANGED <<page, processes, toProcess>>

\* A message arrives: the answer, or for a handler if there is one by now.
Deliver(p) ==
    /\ toProcess[p] # <<>>
    /\ toProcess' = [toProcess EXCEPT ![p] = Tail(@)]
    /\ UNCHANGED <<page, processes>>
    /\ LET message == Head(toProcess[p])
       IN
          \/ /\ message.kind = "reply" /\ phase[p] = "asks"
             /\ Nothing
             /\ phase' = [phase EXCEPT ![p] = IF message.on THEN "yes" ELSE "no"]
             /\ told' = [told EXCEPT ![p] = message.folder]
          \/ /\ phase[p] = "set up" /\ UNCHANGED <<phase, told>>
             /\ \/ message.kind = "mount" /\ MountLocalFs(p, message.folder)
                \/ message.kind = "unmount" /\ message.on /\ UnmountLocalFs(p)
                \/ message.kind = "unmount" /\ ~message.on /\ Nothing
          \/ /\ IF message.kind = "reply" THEN phase[p] = "ended" ELSE phase[p] # "set up"
             /\ Nothing /\ UNCHANGED <<phase, told>>

End(p) ==
    /\ p \in Live /\ phase[p] # "ended" /\ phase' = [phase EXCEPT ![p] = "ended"]
    /\ Tell(p, "exited")
    /\ UNCHANGED <<page, processes, told, local, toProcess, refused>>

Exec(p) ==
    /\ phase[p] = "set up" /\ \A i \in DOMAIN toPage[p] : toPage[p][i] # "overlay"
    /\ Tell(p, "overlay")
    /\ UNCHANGED <<page, processes, process, toProcess, refused>>

-----------------------------------------------------------------------------
Init ==
    /\ g_mount = [available |-> FALSE, mounted |-> FALSE, entry |-> FALSE, folder |-> NoFolder]
    /\ shown = "not yet" /\ ui = AllEnabled /\ choosing = "no"
    /\ processes = [p \in Pid |-> FALSE]
    /\ told = [p \in Pid |-> NoFolder] /\ local = [p \in Pid |-> NoFolder]
    /\ phase = [p \in Pid |-> "absent"]
    /\ toProcess = [p \in Pid |-> <<>>] /\ toPage = [p \in Pid |-> <<>>]
    /\ clicks = 0 /\ refused = FALSE /\ replaced = FALSE

User    == handleMount \/ handleUnmount \/ chooseFolderClicked
Browser == FolderStored \/ RestoreNone \/ \E f \in Folder : handleChooseFolder(f) \/ restoreMount(f)

Next ==
    \/ User \/ Browser
    \/ \E p \in Pid :
          \/ Spawn(p) \/ handleMessage(p) \/ Collect(p)
          \/ AskMountFs(p) \/ FinishMountFs(p) \/ Deliver(p) \/ End(p) \/ Exec(p)

Spec == Init /\ [][Next]_vars

-----------------------------------------------------------------------------
(* Properties.                                                             *)

Quiet ==
    \A p \in Live : phase[p] = "set up" /\ toProcess[p] = <<>> /\ toPage[p] = <<>>

\* When every report of a process has arrived, processes says of it whether it has
\* a folder, through mounts, unmounts, messages that come too early, and exec.
ReportsAreTrue ==
    \A p \in Live : toPage[p] = <<>> => (processes[p] <=> local[p] # NoFolder)

\* The page shows the folder as mounted only if every process has it, also those
\* that started, or were replaced, while it was being mounted.  If another folder
\* was chosen while one was in use (handleChooseFolder does not look), every
\* process still has one of them.
MountedEverywhere ==
    Quiet /\ g_mount.available /\ g_mount.mounted /\ ~refused =>
        \A p \in Live : /\ local[p] # NoFolder
                        /\ ~replaced => local[p] = g_mount.folder

\* A folder that some process still has after an unmount, which can have missed
\* the message, can be unmounted again: the button is there and enabled.
CanBeUnmounted ==
    Quiet /\ ~g_mount.available /\ ~refused /\ (\E p \in Live : local[p] # NoFolder) =>
        shown = "yes" /\ ui.unmount
=============================================================================
