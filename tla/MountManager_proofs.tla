------------------------- MODULE MountManager_proofs -------------------------
(***************************************************************************)
(* Theorems about the local folder, for every number of processes and of   *)
(* clicks: what the page believes, shows and lets the user undo.           *)
(***************************************************************************)
EXTENDS MountManager, SequenceTheorems, TLAPS

USE MountManagerAssumption

Record    == [available : BOOLEAN, mounted : BOOLEAN, entry : BOOLEAN, folder : MayBe]
Buttons   == [mount : BOOLEAN, unmount : BOOLEAN, choose : BOOLEAN]
ToProcess == [kind : {"mount", "unmount", "reply"}, on : BOOLEAN, folder : MayBe]
ToPage    == {"mountfs", "mounted", "unmounted", "failed", "exited", "overlay"}
Phases    == {"absent", "starts", "asks", "yes", "no", "set up", "ended", "zombie", "gone"}
Reporting == {"mounted", "unmounted"}

Has(q, m) == \E i \in DOMAIN q : q[i] = m

\* A message of a kind, with its flag set or not, is among those of q.
Says(q, kind, on) == \E m \in ToProcess : Has(q, m) /\ m.kind = kind /\ m.on = on

\* Who believed b and then reads q believes l.
Believes(q, b, l) ==
    /\ \A i \in DOMAIN q :
          q[i] \in Reporting /\ (\A j \in DOMAIN q : i < j => q[j] \notin Reporting)
            => l = (q[i] = "mounted")
    /\ (\A i \in DOMAIN q : q[i] \notin Reporting) => b = l

Mounted(p) == local[p] # NoFolder

\* What processes says of a process is what it has, but for reports under way.
Believed(p) == Believes(toPage[p], processes[p], Mounted(p))

\* Until a process has called mountfs it has nothing to say; until it has acted
\* on the answer it has not mounted anything.
NotBegun(p) == phase[p] \in {"absent", "starts"}
New(p)      == NotBegun(p) \/ phase[p] \in {"asks", "yes", "no"}
BeginsEmpty(p) ==
    NotBegun(p) => toPage[p] = <<>> /\ \A a \in BOOLEAN : ~Says(toProcess[p], "reply", a)
NewHasNothing(p) ==
    New(p) => ~Mounted(p) /\ ~processes[p] /\ \A r \in Reporting : ~Has(toPage[p], r)

\* A process that has not the folder which is shown as mounted will have it, or
\* say that it has not.
Coming(p) ==
    \/ phase[p] \in {"starts", "yes", "ended"}
    \/ phase[p] = "asks" /\ ~Says(toProcess[p], "reply", FALSE)
    \/ Has(toPage[p], "mounted")
Shown(p) ==
    g_mount.available /\ g_mount.mounted /\ ~refused /\ p \in Live => processes[p] \/ Coming(p)

\* A process that is believed to have a folder which is not shown has been told
\* to unmount it, or has something else to say.
Going(p) ==
    \/ phase[p] = "ended"
    \/ \E r \in Reporting : Has(toPage[p], r)
    \/ phase[p] = "set up" /\ Says(toProcess[p], "unmount", TRUE)
Hidden(p) ==
    ~g_mount.available /\ ~g_mount.mounted /\ ~refused /\ p \in Live => (processes[p] => Going(p))

\* A process that has no folder, and has been told of none.
Blank(p) ==
    /\ ~Mounted(p) /\ ~processes[p] /\ phase[p] # "yes" /\ told[p] = NoFolder
    /\ \A m \in ToProcess : Has(toProcess[p], m) => m.kind = "reply" /\ ~m.on /\ m.folder = NoFolder
    /\ \A r \in Reporting : ~Has(toPage[p], r)

\* So are all until the folder of the last time is restored.
Untouched(p) == shown # "yes" /\ ~g_mount.available => Blank(p)

\* Buttons that were never drawn are enabled, and no process had a report then.
Fresh(p) == shown = "yes" /\ ui.mount /\ ui.unmount => ~processes[p]

\* The folders a process has, is about to mount or will be told about.
Agrees(p) ==
    /\ local[p] \in {NoFolder, g_mount.folder} /\ told[p] \in {NoFolder, g_mount.folder}
    /\ \A m \in ToProcess : Has(toProcess[p], m) => m.folder \in {NoFolder, g_mount.folder}
OneFolder(p) == ~replaced /\ p \in Live => Agrees(p)

\* The buttons that were drawn differ from the folder only after an unmount.
ButtonsOK ==
    /\ g_mount.mounted => ui.unmount
    /\ shown = "yes" /\ ui.unmount /\ ~g_mount.mounted /\ g_mount.available => ui.mount
    /\ shown # "yes" => ui.mount /\ ui.unmount
    /\ shown = "not yet" => ~g_mount.available /\ ~g_mount.mounted

\* The invariant, of one process.
Sound(p) ==
    /\ Believed(p) /\ BeginsEmpty(p) /\ NewHasNothing(p)
    /\ Shown(p) /\ Hidden(p)
    /\ Untouched(p) /\ Fresh(p) /\ OneFolder(p)

IInv == TypeOK /\ ButtonsOK /\ \A p \in Pid : Sound(p)

-----------------------------------------------------------------------------
(* Queues *)

LEMMA HasAppend ==
    ASSUME NEW S, NEW q \in Seq(S), NEW m \in S, NEW x
    PROVE  Has(Append(q, m), x) <=> Has(q, x) \/ m = x
<1>1. DOMAIN Append(q, m) = 1 .. Len(q) + 1 /\ DOMAIN q = 1 .. Len(q) /\ Len(q) \in Nat
  OBVIOUS
<1>2. \A i \in 1 .. Len(q) : Append(q, m)[i] = q[i]
  OBVIOUS
<1>3. Append(q, m)[Len(q) + 1] = m
  OBVIOUS
<1> QED
  BY <1>1, <1>2, <1>3 DEF Has

LEMMA HasTail ==
    ASSUME NEW S, NEW q \in Seq(S), q # <<>>, NEW x
    PROVE  Has(q, x) <=> Head(q) = x \/ Has(Tail(q), x)
<1>1. DOMAIN Tail(q) = 1 .. Len(q) - 1 /\ DOMAIN q = 1 .. Len(q) /\ Len(q) \in Nat \ {0}
  OBVIOUS
<1>2. \A i \in 1 .. Len(q) - 1 : Tail(q)[i] = q[i + 1]
  OBVIOUS
<1>3. Head(q) = q[1]
  OBVIOUS
<1>4. ASSUME NEW i \in DOMAIN q, i # 1
      PROVE  i - 1 \in DOMAIN Tail(q) /\ Tail(q)[i - 1] = q[i]
  BY <1>1, <1>2, <1>4
<1>5. ASSUME NEW i \in DOMAIN Tail(q)
      PROVE  i + 1 \in DOMAIN q /\ Tail(q)[i] = q[i + 1]
  BY <1>1, <1>2
<1>6. 1 \in DOMAIN q
  BY <1>1
<1>7. ASSUME Has(q, x) PROVE Head(q) = x \/ Has(Tail(q), x)
  <2>1. PICK i \in DOMAIN q : q[i] = x
    BY <1>7 DEF Has
  <2>2. CASE i = 1
    BY <1>3, <2>1, <2>2
  <2>3. CASE i # 1
    BY <1>4, <2>1, <2>3 DEF Has
  <2> QED
    BY <2>2, <2>3
<1>8. ASSUME Has(Tail(q), x) PROVE Has(q, x)
  BY <1>5, <1>8 DEF Has
<1>9. ASSUME Head(q) = x PROVE Has(q, x)
  BY <1>3, <1>6, <1>9 DEF Has
<1> QED
  BY <1>7, <1>8, <1>9

LEMMA HasEmpty == \A x : ~Has(<<>>, x)
  BY DEF Has

LEMMA BelievesEmpty ==
    ASSUME NEW b, NEW l
    PROVE  Believes(<<>>, b, l) <=> b = l
  BY DEF Believes

\* Saying something at the end: nothing of interest, or how things are now.
LEMMA BelievesAppend ==
    ASSUME NEW q \in Seq(ToPage), NEW m \in ToPage, NEW b, NEW l, NEW now,
           Believes(q, b, l),
           m \in Reporting => now = (m = "mounted"),
           m \notin Reporting => now = l
    PROVE  Believes(Append(q, m), b, now)
<1> DEFINE r == Append(q, m)
           n == Len(q) + 1
<1>1. DOMAIN r = 1 .. n /\ DOMAIN q = 1 .. Len(q) /\ Len(q) \in Nat
  OBVIOUS
<1>2. \A i \in DOMAIN q : r[i] = q[i]
  OBVIOUS
<1>3. r[n] = m
  OBVIOUS
<1>4. \A i \in DOMAIN r : i = n \/ (i \in DOMAIN q /\ i < n)
  BY <1>1
<1> HIDE DEF r
<1>5. n \in DOMAIN r /\ DOMAIN q \subseteq DOMAIN r
  BY <1>1
<1>6. CASE m \in Reporting
  BY <1>2, <1>3, <1>4, <1>5, <1>6 DEF Believes
<1>7. CASE m \notin Reporting
  BY <1>2, <1>3, <1>4, <1>5, <1>7 DEF Believes
<1> HIDE DEF n
<1> QED
  BY <1>6, <1>7 DEF r

\* Reading the first message: nothing of interest, or how things were.
LEMMA BelievesTail ==
    ASSUME NEW q \in Seq(ToPage), q # <<>>, NEW b, NEW l, NEW new,
           Believes(q, b, l),
           Head(q) \in Reporting => new = (Head(q) = "mounted"),
           Head(q) \notin Reporting => new = b
    PROVE  Believes(Tail(q), new, l)
<1> DEFINE r == Tail(q)
<1>1. /\ DOMAIN r = 1 .. Len(q) - 1 /\ DOMAIN q = 1 .. Len(q) /\ Len(q) \in Nat \ {0}
      /\ Head(q) = q[1]
  OBVIOUS
<1>2. \A i \in DOMAIN r : i + 1 \in DOMAIN q /\ r[i] = q[i + 1]
  OBVIOUS
<1>3. \A i \in DOMAIN q : i = 1 \/ (i - 1 \in DOMAIN r /\ q[i] = r[i - 1])
  <2>1. ASSUME NEW i \in DOMAIN q, i # 1
        PROVE  i - 1 \in DOMAIN r /\ q[i] = r[i - 1]
    <3>1. i - 1 \in DOMAIN r /\ (i - 1) + 1 = i
      BY <1>1, <2>1
    <3> QED
      BY <1>2, <3>1
  <2> QED
    BY <2>1
<1> HIDE DEF r
<1>4. ASSUME NEW i \in DOMAIN r, r[i] \in Reporting,
             \A j \in DOMAIN r : i < j => r[j] \notin Reporting
      PROVE  l = (r[i] = "mounted")
  <2>1. ASSUME NEW j \in DOMAIN q, i + 1 < j
        PROVE  q[j] \notin Reporting
    BY <1>1, <1>3, <1>4, <2>1
  <2> QED
    BY <1>2, <1>4, <2>1 DEF Believes
<1>5. ASSUME \A i \in DOMAIN r : r[i] \notin Reporting
      PROVE  new = l
  <2>1. \A i \in DOMAIN q : 1 < i => q[i] \notin Reporting
    BY <1>1, <1>3, <1>5
  <2>2. 1 \in DOMAIN q
    BY <1>1
  <2>3. CASE q[1] \in Reporting
    BY <1>1, <2>1, <2>2, <2>3 DEF Believes
  <2>4. CASE q[1] \notin Reporting
    BY <1>1, <1>3, <1>5, <2>4 DEF Believes
  <2> QED
    BY <2>3, <2>4
<1> QED
  BY <1>4, <1>5 DEF Believes, r

\* Nothing under way: what is believed is so.
LEMMA BelievesQuiet ==
    ASSUME NEW q, NEW b, NEW l, Believes(q, b, l), \A r \in Reporting : ~Has(q, r)
    PROVE  b = l
  BY DEF Believes, Has

-----------------------------------------------------------------------------
(* The invariant at the start, and types *)

LEMMA InitInv == Init => IInv
<1> SUFFICES ASSUME Init PROVE IInv
  OBVIOUS
<1>1. TypeOK
  <2>1. <<>> \in Seq(ToProcess) /\ <<>> \in Seq(ToPage) /\ 0 \in 0 .. MaxClicks
    OBVIOUS
  <2>2. g_mount \in Record /\ ui \in Buttons
    BY DEF Init, AllEnabled, Record, Buttons, MayBe
  <2>3. /\ processes \in [Pid -> BOOLEAN] /\ local \in [Pid -> MayBe] /\ told \in [Pid -> MayBe]
        /\ phase \in [Pid -> Phases]
    BY DEF Init, MayBe, Phases
  <2>4. toProcess \in [Pid -> Seq(ToProcess)] /\ toPage \in [Pid -> Seq(ToPage)]
    BY <2>1 DEF Init
  <2>5. /\ shown \in {"not yet", "yes", "never"} /\ choosing \in {"no", "dialog", "stores"}
        /\ clicks \in 0 .. MaxClicks /\ refused \in BOOLEAN /\ replaced \in BOOLEAN
    BY <2>1 DEF Init
  <2> QED
    BY <2>2, <2>3, <2>4, <2>5, Zenon DEF TypeOK, Record, Buttons, ToProcess, ToPage, Phases
<1>2. ButtonsOK
  BY DEF Init, AllEnabled, ButtonsOK
<1>3. ASSUME NEW p \in Pid PROVE Sound(p)
  <2>1. /\ phase[p] = "absent" /\ ~processes[p] /\ ~Mounted(p) /\ told[p] = NoFolder
        /\ toPage[p] = <<>> /\ toProcess[p] = <<>> /\ shown = "not yet" /\ p \notin Live
        /\ processes[p] = Mounted(p)
    BY DEF Init, Mounted, Live, Known
  <2>2. Believes(<<>>, processes[p], Mounted(p))
    BY <2>1, BelievesEmpty
  <2>4. Believed(p)
    BY <2>1, <2>2 DEF Believed
  <2>3. /\ \A m : ~Has(toProcess[p], m) /\ ~Has(toPage[p], m)
        /\ \A k, o : ~Says(toProcess[p], k, o)
    BY <2>1, HasEmpty DEF Says
  <2> QED
    BY <2>1, <2>3, <2>4 DEF Sound, BeginsEmpty, NewHasNothing, Shown, Hidden, Untouched, Blank,
                            Fresh, OneFolder
<1> QED
  BY <1>1, <1>2, <1>3 DEF IInv

LEMMA Types ==
    ASSUME IInv
    PROVE  /\ g_mount \in Record /\ ui \in Buttons
           /\ shown \in {"not yet", "yes", "never"} /\ choosing \in {"no", "dialog", "stores"}
           /\ processes \in [Pid -> BOOLEAN] /\ phase \in [Pid -> Phases]
           /\ local \in [Pid -> MayBe] /\ told \in [Pid -> MayBe]
           /\ toProcess \in [Pid -> Seq(ToProcess)] /\ toPage \in [Pid -> Seq(ToPage)]
           /\ clicks \in 0 .. MaxClicks /\ refused \in BOOLEAN /\ replaced \in BOOLEAN
           /\ Live \subseteq Pid /\ Known \subseteq Pid
  BY Zenon DEF IInv, TypeOK, Record, Buttons, ToProcess, ToPage, Phases, Live, Known

LEMMA RecordTypes ==
    ASSUME NEW g \in Record
    PROVE  /\ g.available \in BOOLEAN /\ g.mounted \in BOOLEAN /\ g.entry \in BOOLEAN
           /\ g.folder \in MayBe
  BY DEF Record

\* What the updates of g_mount leave.
LEMMA AvailableUpdate ==
    ASSUME NEW g \in Record, NEW b \in BOOLEAN
    PROVE  [g EXCEPT !.available = b]
             = [available |-> b, mounted |-> g.mounted, entry |-> g.entry, folder |-> g.folder]
  BY DEF Record

LEMMA MountedUpdate ==
    ASSUME NEW g \in Record, NEW b \in BOOLEAN
    PROVE  [g EXCEPT !.mounted = b]
             = [available |-> g.available, mounted |-> b, entry |-> g.entry, folder |-> g.folder]
  BY DEF Record

LEMMA EntryUpdate ==
    ASSUME NEW g \in Record, NEW b \in BOOLEAN
    PROVE  [g EXCEPT !.entry = b]
             = [available |-> g.available, mounted |-> g.mounted, entry |-> b, folder |-> g.folder]
  BY DEF Record

LEMMA FolderUpdate ==
    ASSUME NEW g \in Record, NEW f \in Folder
    PROVE  [g EXCEPT !.folder = f]
             = [available |-> g.available, mounted |-> g.mounted, entry |-> g.entry, folder |-> f]
  BY DEF Record

LEMMA MountUpdate ==
    ASSUME NEW g \in Record
    PROVE  [g EXCEPT !.available = TRUE, !.mounted = FALSE]
             = [available |-> TRUE, mounted |-> FALSE, entry |-> g.entry, folder |-> g.folder]
<1> DEFINE h == [g EXCEPT !.available = TRUE]
<1>1. h = [available |-> TRUE, mounted |-> g.mounted, entry |-> g.entry, folder |-> g.folder]
  BY AvailableUpdate
<1>2. h \in Record /\ h.available = TRUE /\ h.entry = g.entry /\ h.folder = g.folder
  BY <1>1, RecordTypes DEF Record
<1> HIDE DEF h
<1>3. [h EXCEPT !.mounted = FALSE]
        = [available |-> TRUE, mounted |-> FALSE, entry |-> g.entry, folder |-> g.folder]
  BY <1>2, MountedUpdate
<1> QED
  BY <1>3 DEF h

LEMMA UnmountUpdate ==
    ASSUME NEW g \in Record
    PROVE  [g EXCEPT !.available = FALSE, !.mounted = FALSE, !.entry = FALSE]
             = [available |-> FALSE, mounted |-> FALSE, entry |-> FALSE, folder |-> g.folder]
<1> DEFINE h == [g EXCEPT !.available = FALSE]
           k == [h EXCEPT !.mounted = FALSE]
<1>1. h = [available |-> FALSE, mounted |-> g.mounted, entry |-> g.entry, folder |-> g.folder]
  BY AvailableUpdate
<1>2. h \in Record /\ h.available = FALSE /\ h.folder = g.folder
  BY <1>1, RecordTypes DEF Record
<1> HIDE DEF h
<1>3. k = [available |-> FALSE, mounted |-> FALSE, entry |-> h.entry, folder |-> g.folder]
  BY <1>2, MountedUpdate
<1>4. k \in Record /\ k.available = FALSE /\ k.mounted = FALSE /\ k.folder = g.folder
  BY <1>2, <1>3, RecordTypes DEF Record
<1> HIDE DEF k
<1>5. [k EXCEPT !.entry = FALSE]
        = [available |-> FALSE, mounted |-> FALSE, entry |-> FALSE, folder |-> g.folder]
  BY <1>4, EntryUpdate
<1> QED
  BY <1>5 DEF h, k

LEMMA ChooseUpdate ==
    ASSUME NEW g \in Record, NEW f \in Folder
    PROVE  [g EXCEPT !.entry = TRUE, !.folder = f]
             = [available |-> g.available, mounted |-> g.mounted, entry |-> TRUE, folder |-> f]
<1> DEFINE h == [g EXCEPT !.entry = TRUE]
<1>1. h = [available |-> g.available, mounted |-> g.mounted, entry |-> TRUE, folder |-> g.folder]
  BY EntryUpdate
<1>2. h \in Record /\ h.available = g.available /\ h.mounted = g.mounted /\ h.entry = TRUE
  BY <1>1, RecordTypes DEF Record
<1> HIDE DEF h
<1>3. [h EXCEPT !.folder = f]
        = [available |-> g.available, mounted |-> g.mounted, entry |-> TRUE, folder |-> f]
  BY <1>2, FolderUpdate
<1> QED
  BY <1>3 DEF h

LEMMA RestoreUpdate ==
    ASSUME NEW g \in Record, NEW f \in Folder
    PROVE  [g EXCEPT !.available = TRUE, !.entry = TRUE, !.folder = f]
             = [available |-> TRUE, mounted |-> g.mounted, entry |-> TRUE, folder |-> f]
<1> DEFINE h == [g EXCEPT !.available = TRUE]
<1>1. h = [available |-> TRUE, mounted |-> g.mounted, entry |-> g.entry, folder |-> g.folder]
  BY AvailableUpdate
<1>2. h \in Record /\ h.available = TRUE /\ h.mounted = g.mounted
  BY <1>1, RecordTypes DEF Record
<1> HIDE DEF h
<1>3. [h EXCEPT !.entry = TRUE, !.folder = f]
        = [available |-> TRUE, mounted |-> g.mounted, entry |-> TRUE, folder |-> f]
  BY <1>2, ChooseUpdate
<1> QED
  BY <1>3 DEF h

LEMMA MessageTypes ==
    ASSUME NEW a \in BOOLEAN, NEW f \in MayBe
    PROVE  /\ Mount(f) \in ToProcess /\ Mount(f).kind = "mount" /\ Mount(f).folder = f
           /\ Unmount(a) \in ToProcess /\ Unmount(a).kind = "unmount" /\ Unmount(a).on = a
           /\ Unmount(a).folder = NoFolder
           /\ Reply(a, f) \in ToProcess /\ Reply(a, f).kind = "reply" /\ Reply(a, f).on = a
           /\ Reply(a, f).folder \in {f, NoFolder}
           /\ ~a => Reply(a, f).folder = NoFolder
<1>1. NoFolder \in MayBe
  BY DEF MayBe
<1>2. Mount(f) \in ToProcess /\ Mount(f).kind = "mount" /\ Mount(f).folder = f
  BY DEF Mount, ToProcess
<1>3. /\ Unmount(a) \in ToProcess /\ Unmount(a).kind = "unmount" /\ Unmount(a).on = a
      /\ Unmount(a).folder = NoFolder
  BY <1>1 DEF Unmount, ToProcess
<1>4. /\ Reply(a, f) \in ToProcess /\ Reply(a, f).kind = "reply" /\ Reply(a, f).on = a
      /\ Reply(a, f).folder \in {f, NoFolder} /\ (~a => Reply(a, f).folder = NoFolder)
  BY <1>1 DEF Reply, ToProcess
<1> QED
  BY <1>2, <1>3, <1>4

-----------------------------------------------------------------------------
(* The steps of the page *)

\* A broadcast that is no answer disturbs nobody's beliefs, and undoes no unmount.
LEMMA Broadcast ==
    ASSUME IInv, NEW m \in ToProcess, m.kind # "reply", broadcastMessage(m),
           UNCHANGED <<processes, phase, told, local, toPage>>
    PROVE  /\ toProcess' \in [Pid -> Seq(ToProcess)] /\ Live' = Live
           /\ \A p \in Pid :
                 /\ \A x : Has(toProcess'[p], x) <=> Has(toProcess[p], x) \/ (p \in Reached /\ m = x)
                 /\ (Believed(p) /\ BeginsEmpty(p) /\ NewHasNothing(p))'
                 /\ Going(p) => Going(p)'
<1>1. \A p \in Pid : toProcess[p] \in Seq(ToProcess)
  BY Types
<1>2. \A p \in Pid : toProcess'[p] = IF p \in Reached THEN Append(toProcess[p], m)
                                     ELSE toProcess[p]
  BY DEF broadcastMessage
<1>3. toProcess' \in [Pid -> Seq(ToProcess)]
  BY <1>1 DEF broadcastMessage
<1>4. ASSUME NEW p \in Pid, NEW x
      PROVE  Has(toProcess'[p], x) <=> Has(toProcess[p], x) \/ (p \in Reached /\ m = x)
  <2>1. CASE p \in Reached
    BY <1>1, <1>2, <2>1, HasAppend
  <2>2. CASE p \notin Reached
    BY <1>2, <2>2
  <2> QED
    BY <2>1, <2>2
<1>5. ASSUME NEW p \in Pid
      PROVE  (Believed(p) /\ BeginsEmpty(p) /\ NewHasNothing(p))' /\ (Going(p) => Going(p)')
  <2>1. Believed(p) /\ BeginsEmpty(p) /\ NewHasNothing(p)
    BY DEF IInv, Sound
  <2>2. \A a \in BOOLEAN : Says(toProcess'[p], "reply", a) => Says(toProcess[p], "reply", a)
    BY <1>4 DEF Says
  <2>3. Says(toProcess[p], "unmount", TRUE) => Says(toProcess'[p], "unmount", TRUE)
    BY <1>4 DEF Says
  <2>4. Believed(p)' /\ NewHasNothing(p)'
    BY <2>1 DEF Believed, NewHasNothing, New, NotBegun, Mounted
  <2>5. BeginsEmpty(p)'
    BY <2>1, <2>2 DEF BeginsEmpty, NotBegun
  <2>6. Going(p) => Going(p)'
    BY <2>3 DEF Going
  <2> QED
    BY <2>4, <2>5, <2>6
<1>6. Live' = Live
  BY DEF Live, Known
<1> QED
  BY <1>3, <1>4, <1>5, <1>6

LEMMA ClickStep ==
    ASSUME IInv, Click
    PROVE  /\ clicks' \in 0 .. MaxClicks /\ shown = "yes"
           /\ UNCHANGED <<shown, ui, replaced, processes, phase, told, local, toPage, refused>>
<1>1. clicks \in 0 .. MaxClicks
  BY Types
<1> QED
  BY <1>1 DEF Click, process

\* When the page sends no folder but the one that was chosen last, no other is around.
LEMMA OneFolderStep ==
    ASSUME IInv, NEW p \in Pid, UNCHANGED <<replaced, phase, told, local>>,
           g_mount'.folder = g_mount.folder, OneFolder(p),
           \A m \in ToProcess : Has(toProcess'[p], m)
               => Has(toProcess[p], m) \/ m.folder \in {NoFolder, g_mount.folder}
    PROVE  OneFolder(p)'
  BY DEF OneFolder, Agrees, Live, Known

LEMMA HandleMountStep ==
    ASSUME IInv, handleMount
    PROVE  IInv'
<1> DEFINE m == Mount(g_mount.folder)
<1>0. m \in ToProcess /\ m.kind = "mount" /\ m.folder = g_mount.folder
  BY Types, RecordTypes, MessageTypes
<1> HIDE DEF m
<1>1. /\ UNCHANGED <<shown, ui, choosing, replaced, processes, phase, told, local, toPage, refused>>
      /\ shown = "yes" /\ ui.mount /\ broadcastMessage(m) /\ clicks' \in 0 .. MaxClicks
  BY ClickStep DEF handleMount, m
<1>2. /\ g_mount' \in Record /\ g_mount'.available /\ ~g_mount'.mounted
      /\ g_mount'.folder = g_mount.folder
  <2>1. g_mount' = [available |-> TRUE, mounted |-> FALSE, entry |-> g_mount.entry,
                    folder |-> g_mount.folder]
    BY Types, MountUpdate DEF handleMount
  <2> QED
    BY <2>1, Types, RecordTypes DEF Record
<1>3. /\ toProcess' \in [Pid -> Seq(ToProcess)]
      /\ \A p \in Pid :
            /\ \A x : Has(toProcess'[p], x) <=> Has(toProcess[p], x) \/ (p \in Reached /\ m = x)
            /\ (Believed(p) /\ BeginsEmpty(p) /\ NewHasNothing(p))'
  BY <1>0, <1>1, Broadcast
<1>4. TypeOK'
  BY <1>1, <1>2, <1>3, Types, Zenon DEF TypeOK, Record, Buttons, ToProcess, ToPage, Phases
<1>5. ButtonsOK'
  BY <1>1, <1>2 DEF ButtonsOK
<1>6. ASSUME NEW p \in Pid PROVE Sound(p)'
  <2>1. Sound(p)
    BY DEF IInv
  <2>2. Shown(p)' /\ Hidden(p)' /\ Untouched(p)'
    BY <1>2 DEF Shown, Hidden, Untouched
  <2>3. Fresh(p)'
    BY <1>1, <2>1 DEF Sound, Fresh
  <2>4. OneFolder(p)'
    BY <1>0, <1>1, <1>2, <1>3, <2>1, OneFolderStep DEF Sound
  <2> QED
    BY <1>3, <2>2, <2>3, <2>4 DEF Sound
<1> QED
  BY <1>4, <1>5, <1>6 DEF IInv

\* Unless the broadcast throws, the folder that is no longer shown is unmounted by
\* whoever has it; if it throws, the folder is still shown.  Nobody has it when the
\* buttons were never drawn.
LEMMA HandleUnmountStep ==
    ASSUME IInv, handleUnmount
    PROVE  IInv'
<1> DEFINE m == Unmount(g_mount.mounted)
<1>0. m \in ToProcess /\ m.kind = "unmount" /\ m.on = g_mount.mounted /\ m.folder = NoFolder
  <2>1. g_mount.mounted \in BOOLEAN /\ NoFolder \in MayBe
    BY Types, RecordTypes DEF MayBe
  <2> QED
    BY <2>1, MessageTypes
<1> HIDE DEF m
<1>1. /\ UNCHANGED <<shown, ui, choosing, replaced, processes, phase, told, local, toPage, refused>>
      /\ shown = "yes" /\ ui.unmount /\ broadcastMessage(m) /\ clicks' \in 0 .. MaxClicks
  BY ClickStep DEF handleUnmount, m
<1>2. /\ g_mount' \in Record /\ ~g_mount'.available /\ g_mount'.folder = g_mount.folder
      /\ g_mount'.mounted => Throws /\ g_mount.mounted
      /\ Throws => g_mount'.mounted = g_mount.mounted
  <2>1. CASE Throws
    <3>1. g_mount' = [available |-> FALSE, mounted |-> g_mount.mounted, entry |-> g_mount.entry,
                      folder |-> g_mount.folder]
      BY <2>1, Types, AvailableUpdate DEF handleUnmount
    <3> QED
      BY <2>1, <3>1, Types, RecordTypes DEF Record
  <2>2. CASE ~Throws
    <3>1. g_mount' = [available |-> FALSE, mounted |-> FALSE, entry |-> FALSE,
                      folder |-> g_mount.folder]
      BY <2>2, Types, UnmountUpdate DEF handleUnmount
    <3> QED
      BY <2>2, <3>1, Types, RecordTypes DEF Record
  <2> QED
    BY <2>1, <2>2
<1>3. /\ toProcess' \in [Pid -> Seq(ToProcess)] /\ Live' = Live
      /\ \A p \in Pid :
            /\ \A x : Has(toProcess'[p], x) <=> Has(toProcess[p], x) \/ (p \in Reached /\ m = x)
            /\ (Believed(p) /\ BeginsEmpty(p) /\ NewHasNothing(p))'
            /\ Going(p) => Going(p)'
  BY <1>0, <1>1, Broadcast
<1>4. TypeOK'
  BY <1>1, <1>2, <1>3, Types, Zenon DEF TypeOK, Record, Buttons, ToProcess, ToPage, Phases
<1>5. ButtonsOK'
  BY <1>1, <1>2 DEF ButtonsOK
<1>6. ASSUME NEW p \in Pid PROVE Sound(p)'
  <2>1. Sound(p)
    BY DEF IInv
  <2>2. Shown(p)' /\ Untouched(p)'
    BY <1>1, <1>2 DEF Shown, Untouched
  <2>3. Fresh(p)'
    BY <1>1, <2>1 DEF Sound, Fresh
  <2>4. OneFolder(p)'
    BY <1>0, <1>1, <1>2, <1>3, <2>1, OneFolderStep DEF Sound
  <2>5. Hidden(p)'
    <3> SUFFICES ASSUME ~g_mount'.mounted, ~refused, p \in Live, processes[p]
                 PROVE  Going(p)'
      BY <1>1, <1>3 DEF Hidden
    <3>2. CASE g_mount.mounted
      <4>1. p \in Reached
        BY <1>2, <3>2 DEF Throws, Reached
      <4>2. phase[p] \in {"set up", "ended"}
        BY <2>1, Types DEF Sound, NewHasNothing, New, NotBegun, Live, Known, Phases
      <4>3. Says(toProcess'[p], "unmount", TRUE)
        BY <1>0, <1>3, <3>2, <4>1 DEF Says
      <4> QED
        BY <1>1, <4>2, <4>3 DEF Going
    <3>3. CASE ~g_mount.mounted
      <4>1. ~g_mount.available
        BY <1>1, <2>1, <3>3 DEF IInv, ButtonsOK, Sound, Fresh
      <4> QED
        BY <1>3, <2>1, <3>3, <4>1 DEF Sound, Hidden
    <3> QED
      BY <3>2, <3>3
  <2> QED
    BY <1>3, <2>2, <2>3, <2>4, <2>5 DEF Sound
<1> QED
  BY <1>4, <1>5, <1>6 DEF IInv

\* A step of the page that sends nothing.
LEMMA PageAlone ==
    ASSUME IInv, UNCHANGED <<processes, phase, told, local, toProcess, toPage, refused>>,
           g_mount' \in Record, g_mount'.available = g_mount.available,
           g_mount'.mounted = g_mount.mounted,
           ui' \in Buttons, shown' \in {"not yet", "yes", "never"},
           choosing' \in {"no", "dialog", "stores"}, clicks' \in 0 .. MaxClicks,
           replaced' \in BOOLEAN, ButtonsOK',
           \A p \in Pid : Untouched(p)' /\ Fresh(p)' /\ OneFolder(p)'
    PROVE  IInv'
<1>1. TypeOK'
  BY Types, Zenon DEF TypeOK, Record, Buttons, ToProcess, ToPage, Phases
<1>2. ASSUME NEW p \in Pid PROVE Sound(p)'
  <2>1. Sound(p)
    BY DEF IInv
  <2>2. (Believed(p) /\ BeginsEmpty(p) /\ NewHasNothing(p))'
    BY <2>1 DEF Sound, Believed, BeginsEmpty, NewHasNothing, New, NotBegun, Mounted
  <2>3. (Coming(p)' <=> Coming(p)) /\ (Going(p)' <=> Going(p)) /\ (p \in Live' <=> p \in Live)
    BY DEF Coming, Going, Live, Known
  <2>4. Shown(p)' /\ Hidden(p)'
    BY <2>1, <2>3 DEF Sound, Shown, Hidden
  <2> QED
    BY <2>2, <2>4 DEF Sound
<1> QED
  BY <1>1, <1>2 DEF IInv

LEMMA ChooseFolderClickedStep ==
    ASSUME IInv, chooseFolderClicked
    PROVE  IInv'
<1>1. /\ UNCHANGED <<g_mount, shown, ui, replaced, processes, phase, told, local, toProcess,
                     toPage, refused>>
      /\ choosing' = "dialog" /\ clicks' \in 0 .. MaxClicks
  BY ClickStep DEF chooseFolderClicked
<1>2. ButtonsOK'
  BY <1>1 DEF IInv, ButtonsOK
<1>3. \A p \in Pid : Untouched(p)' /\ Fresh(p)' /\ OneFolder(p)'
  BY <1>1 DEF IInv, Sound, Untouched, Blank, Mounted, Fresh, OneFolder, Agrees, Live, Known
<1> QED
  BY <1>1, <1>2, <1>3, Types, PageAlone

LEMMA HandleChooseFolderStep ==
    ASSUME IInv, NEW f \in Folder, handleChooseFolder(f)
    PROVE  IInv'
<1>1. /\ UNCHANGED <<shown, ui, clicks, processes, phase, told, local, toProcess, toPage, refused>>
      /\ choosing' = "stores"
      /\ replaced' = (replaced \/ \E p \in Live : ~(Named(p) \subseteq {f, NoFolder}))
  BY DEF handleChooseFolder, process
<1>2. /\ g_mount' \in Record /\ g_mount'.folder = f
      /\ g_mount'.available = g_mount.available /\ g_mount'.mounted = g_mount.mounted
  <2>1. g_mount' = [available |-> g_mount.available, mounted |-> g_mount.mounted, entry |-> TRUE,
                    folder |-> f]
    BY Types, ChooseUpdate DEF handleChooseFolder
  <2> QED
    BY <2>1, Types, RecordTypes DEF Record, MayBe
<1>3. ButtonsOK'
  BY <1>1, <1>2 DEF IInv, ButtonsOK
<1>4. ASSUME NEW p \in Pid PROVE Untouched(p)' /\ Fresh(p)' /\ OneFolder(p)'
  <2>1. Untouched(p)' /\ Fresh(p)'
    BY <1>1, <1>2 DEF IInv, Sound, Untouched, Blank, Mounted, Fresh
  <2>2. ASSUME ~replaced', p \in Live PROVE Agrees(p)'
    <3>1. Named(p) \subseteq {f, NoFolder}
      BY <1>1, <2>2
    <3>2. local[p] \in {f, NoFolder} /\ told[p] \in {f, NoFolder}
      BY <3>1 DEF Named
    <3>3. \A m \in ToProcess : Has(toProcess[p], m) => m.folder \in {f, NoFolder}
      BY <3>1 DEF Named, Has
    <3> QED
      BY <1>1, <1>2, <3>2, <3>3 DEF Agrees
  <2>3. OneFolder(p)'
    BY <1>1, <2>2 DEF OneFolder, Live, Known
  <2> QED
    BY <2>1, <2>3
<1>5. replaced' \in BOOLEAN
  BY <1>1
<1> QED
  BY <1>1, <1>2, <1>3, <1>4, <1>5, Types, PageAlone

\* What populateMountControl draws.
LEMMA Drawn ==
    ASSUME IInv, NEW m, m \in Record, populateMountControl(m)
    PROVE  /\ ui' \in Buttons
           /\ shown = "yes" => ui'.unmount = m.mounted /\ (ui'.mount => ~m.mounted)
           /\ shown # "yes" => ui' = ui
  BY Types, RecordTypes DEF populateMountControl, Buttons

LEMMA FolderStoredStep ==
    ASSUME IInv, FolderStored
    PROVE  IInv'
<1>1. /\ UNCHANGED <<g_mount, shown, clicks, replaced, processes, phase, told, local, toProcess,
                     toPage, refused>>
      /\ choosing' = "no" /\ populateMountControl(g_mount)
  BY DEF FolderStored, process
<1>2. /\ ui' \in Buttons
      /\ shown = "yes" => ui'.unmount = g_mount.mounted /\ (ui'.mount => ~g_mount.mounted)
      /\ shown # "yes" => ui' = ui
  BY <1>1, Types, Drawn
<1>3. ButtonsOK'
  BY <1>1, <1>2 DEF IInv, ButtonsOK
<1>4. \A p \in Pid : Untouched(p)' /\ Fresh(p)' /\ OneFolder(p)'
  BY <1>1, <1>2 DEF IInv, Sound, Untouched, Blank, Mounted, Fresh, OneFolder, Agrees, Live, Known
<1> QED
  BY <1>1, <1>2, <1>3, <1>4, Types, PageAlone

LEMMA RestoreNoneStep ==
    ASSUME IInv, RestoreNone
    PROVE  IInv'
<1>1. /\ UNCHANGED <<g_mount, ui, choosing, clicks, replaced, processes, phase, told, local,
                     toProcess, toPage, refused>>
      /\ shown = "not yet" /\ shown' = "yes"
  BY DEF RestoreNone, process
<1>2. ButtonsOK'
  BY <1>1 DEF IInv, ButtonsOK
<1>3. ~g_mount.available
  BY <1>1 DEF IInv, ButtonsOK
<1>4. \A p \in Pid : Untouched(p)' /\ Fresh(p)' /\ OneFolder(p)'
  BY <1>1, <1>3 DEF IInv, Sound, Untouched, Blank, Mounted, Fresh, OneFolder, Agrees, Live, Known
<1> QED
  BY <1>1, <1>2, <1>4, Types, PageAlone

\* Nobody has been told of a folder before.
LEMMA RestoreMountStep ==
    ASSUME IInv, NEW f \in Folder, restoreMount(f)
    PROVE  IInv'
<1> DEFINE m == Mount(f)
<1>0. m \in ToProcess /\ m.kind = "mount" /\ m.folder = f
  <2>1. f \in MayBe
    BY DEF MayBe
  <2> QED
    BY <2>1, MessageTypes
<1> HIDE DEF m
<1>1. /\ UNCHANGED <<ui, choosing, clicks, replaced, processes, phase, told, local, toPage, refused>>
      /\ shown = "not yet" /\ shown' \in {"yes", "never"} /\ broadcastMessage(m)
  BY DEF restoreMount, process, m
<1>2. /\ g_mount' \in Record /\ g_mount'.available /\ ~g_mount'.mounted /\ g_mount'.folder = f
      /\ ~g_mount.available
  <2>1. g_mount' = [available |-> TRUE, mounted |-> g_mount.mounted, entry |-> TRUE, folder |-> f]
    BY Types, RestoreUpdate DEF restoreMount
  <2>2. ~g_mount.available /\ ~g_mount.mounted
    BY <1>1 DEF IInv, ButtonsOK
  <2> QED
    BY <2>1, <2>2, Types, RecordTypes DEF Record, MayBe
<1>3. /\ toProcess' \in [Pid -> Seq(ToProcess)] /\ Live' = Live
      /\ \A p \in Pid :
            /\ \A x : Has(toProcess'[p], x) <=> Has(toProcess[p], x) \/ (p \in Reached /\ m = x)
            /\ (Believed(p) /\ BeginsEmpty(p) /\ NewHasNothing(p))'
  BY <1>0, <1>1, Broadcast
<1>4. TypeOK'
  BY <1>1, <1>2, <1>3, Types, Zenon DEF TypeOK, Record, Buttons, ToProcess, ToPage, Phases
<1>5. ButtonsOK'
  BY <1>1, <1>2 DEF IInv, ButtonsOK
<1>6. ASSUME NEW p \in Pid PROVE Sound(p)'
  <2>1. Sound(p) /\ Blank(p)
    BY <1>1, <1>2 DEF IInv, Sound, Untouched
  <2>2. Shown(p)' /\ Hidden(p)' /\ Untouched(p)'
    BY <1>2 DEF Shown, Hidden, Untouched
  <2>3. Fresh(p)'
    BY <1>1, <2>1 DEF Blank, Fresh
  <2>4. Agrees(p)'
    BY <1>0, <1>1, <1>2, <1>3, <2>1 DEF Blank, Mounted, Agrees
  <2>5. OneFolder(p)'
    BY <2>4 DEF OneFolder
  <2> QED
    BY <1>3, <2>2, <2>3, <2>5 DEF Sound
<1> QED
  BY <1>4, <1>5, <1>6 DEF IInv

-----------------------------------------------------------------------------
(* The steps of one process *)

Typed ==
    /\ processes \in [Pid -> BOOLEAN] /\ phase \in [Pid -> Phases]
    /\ local \in [Pid -> MayBe] /\ told \in [Pid -> MayBe]
    /\ toProcess \in [Pid -> Seq(ToProcess)] /\ toPage \in [Pid -> Seq(ToPage)]

Only(p) ==
    \A q \in Pid : q # p => /\ toPage'[q] = toPage[q] /\ toProcess'[q] = toProcess[q]
                            /\ processes'[q] = processes[q] /\ local'[q] = local[q]
                            /\ phase'[q] = phase[q] /\ told'[q] = told[q]

\* A step of one process leaves what is known of the others.
LEMMA Others ==
    ASSUME IInv, NEW p \in Pid, NEW q \in Pid, q # p, Only(p), UNCHANGED page,
           refused => refused'
    PROVE  Sound(q)'
<1>1. /\ toPage'[q] = toPage[q] /\ toProcess'[q] = toProcess[q] /\ local'[q] = local[q]
      /\ processes'[q] = processes[q] /\ phase'[q] = phase[q] /\ told'[q] = told[q]
  BY DEF Only
<1>2. /\ Coming(q)' <=> Coming(q)
      /\ Going(q)' <=> Going(q)
      /\ Blank(q)' <=> Blank(q)
      /\ q \in Live' <=> q \in Live
  BY <1>1 DEF Coming, Going, Blank, Mounted, Live, Known
<1>3. g_mount' = g_mount /\ shown' = shown /\ ui' = ui /\ replaced' = replaced
  BY DEF page
<1>4. Sound(q)
  BY DEF IInv
<1>5. (Believed(q) /\ BeginsEmpty(q) /\ NewHasNothing(q))'
  BY <1>1, <1>4 DEF Sound, Believed, BeginsEmpty, NewHasNothing, New, NotBegun, Mounted
<1>6. (Shown(q) /\ Hidden(q) /\ Untouched(q) /\ Fresh(q))'
  BY <1>1, <1>2, <1>3, <1>4 DEF Sound, Shown, Hidden, Untouched, Fresh
<1>7. OneFolder(q)'
  BY <1>1, <1>2, <1>3, <1>4 DEF Sound, OneFolder, Agrees
<1> QED
  BY <1>5, <1>6, <1>7 DEF Sound

\* A step of one process, which leaves the page alone.
LEMMA Frame ==
    ASSUME IInv, NEW p \in Pid, UNCHANGED page,
           refused' \in BOOLEAN, refused => refused', Typed', Only(p), Sound(p)'
    PROVE  IInv'
<1>1. /\ g_mount' = g_mount /\ shown' = shown /\ ui' = ui /\ choosing' = choosing
      /\ clicks' = clicks /\ replaced' = replaced
  BY DEF page
<1>2. ButtonsOK'
  BY <1>1 DEF IInv, ButtonsOK
<1>3. TypeOK'
  BY <1>1, Types, Zenon DEF TypeOK, Typed, Record, Buttons, ToProcess, ToPage, Phases
<1>4. \A q \in Pid : Sound(q)'
  BY Others
<1> QED
  BY <1>2, <1>3, <1>4 DEF IInv

LEMMA NewImageStep ==
    ASSUME IInv, NEW p \in Pid, NewImage(p)
    PROVE  IInv'
<1>1. /\ UNCHANGED page /\ UNCHANGED refused
      /\ phase' = [phase EXCEPT ![p] = "starts"]
      /\ processes' = [processes EXCEPT ![p] = FALSE]
      /\ told' = [told EXCEPT ![p] = NoFolder]
      /\ local' = [local EXCEPT ![p] = NoFolder]
      /\ toProcess' = [toProcess EXCEPT ![p] = <<>>]
      /\ toPage' = [toPage EXCEPT ![p] = <<>>]
  BY DEF NewImage
<1>2. Typed'
  <2>1. <<>> \in Seq(ToProcess) /\ <<>> \in Seq(ToPage) /\ NoFolder \in MayBe
    BY DEF MayBe
  <2>2. "starts" \in Phases
    BY DEF Phases
  <2>3. processes' \in [Pid -> BOOLEAN] /\ phase' \in [Pid -> Phases]
    BY <1>1, <2>2, Types
  <2>4. local' \in [Pid -> MayBe] /\ told' \in [Pid -> MayBe]
    BY <1>1, <2>1, Types
  <2>5. toProcess' \in [Pid -> Seq(ToProcess)] /\ toPage' \in [Pid -> Seq(ToPage)]
    BY <1>1, <2>1, Types
  <2> QED
    BY <2>3, <2>4, <2>5 DEF Typed
<1>3. Only(p)
  BY <1>1, Types DEF Only
<1>4. Sound(p)'
  <2>1. /\ phase'[p] = "starts" /\ ~processes'[p] /\ local'[p] = NoFolder /\ told'[p] = NoFolder
        /\ toProcess'[p] = <<>> /\ toPage'[p] = <<>>
    BY <1>1, Types
  <2>2. ~Mounted(p)' /\ processes'[p] = Mounted(p)'
    <3>1. processes'[p] = FALSE
      BY <1>1, Types
    <3> QED
      BY <2>1, <3>1 DEF Mounted
  <2>3. Believes(<<>>, processes'[p], Mounted(p)')
    BY <2>2, BelievesEmpty
  <2>4. Believed(p)'
    BY <2>1, <2>3 DEF Believed
  <2>5. /\ \A m : ~Has(toProcess'[p], m) /\ ~Has(toPage'[p], m)
        /\ \A k, o : ~Says(toProcess'[p], k, o)
    BY <2>1, HasEmpty DEF Says
  <2>6. (BeginsEmpty(p) /\ NewHasNothing(p) /\ Shown(p) /\ Hidden(p) /\ Fresh(p))'
    BY <2>1, <2>2, <2>5 DEF BeginsEmpty, NewHasNothing, Shown, Hidden, Fresh, Coming
  <2>7. Untouched(p)' /\ OneFolder(p)'
    BY <2>1, <2>2, <2>5 DEF Untouched, Blank, OneFolder, Agrees
  <2> QED
    BY <2>4, <2>6, <2>7 DEF Sound
<1> QED
  BY <1>1, <1>2, <1>3, <1>4, Types, Frame

\* A process that goes on with what it had, and hears and says no more than that,
\* keeps what does not depend on its phase.
LEMMA Keeps ==
    ASSUME IInv, NEW p \in Pid, UNCHANGED page, p \in Live' => p \in Live,
           processes'[p] => processes[p], local'[p] = local[p],
           told'[p] = told[p] \/ told'[p] = NoFolder,
           \A m \in ToProcess : Has(toProcess'[p], m) => Has(toProcess[p], m)
    PROVE  Fresh(p)' /\ OneFolder(p)'
<1>1. g_mount' = g_mount /\ shown' = shown /\ ui' = ui /\ replaced' = replaced
  BY DEF page
<1>2. Fresh(p) /\ OneFolder(p)
  BY DEF IInv, Sound
<1>3. Fresh(p)'
  BY <1>1, <1>2 DEF Fresh
<1>4. OneFolder(p)'
  BY <1>1, <1>2 DEF OneFolder, Agrees
<1> QED
  BY <1>3, <1>4

\* And it stays blank if it does not get an answer that names a folder.
LEMMA KeepsBlank ==
    ASSUME IInv, NEW p \in Pid, UNCHANGED page,
           processes'[p] => processes[p], local'[p] = local[p],
           told'[p] = told[p] \/ told'[p] = NoFolder,
           phase[p] # "yes" => phase'[p] # "yes",
           \A m \in ToProcess : Has(toProcess'[p], m) => Has(toProcess[p], m),
           \A r \in Reporting : Has(toPage'[p], r) => Has(toPage[p], r)
    PROVE  Untouched(p)'
<1>1. g_mount' = g_mount /\ shown' = shown
  BY DEF page
<1>2. Untouched(p)
  BY DEF IInv, Sound
<1> QED
  BY <1>1, <1>2 DEF Untouched, Blank, Mounted

\* The first message to the page, of a process that has begun, is read.
LEMMA PageReads ==
    ASSUME IInv, NEW p \in Pid, toPage[p] # <<>>,
           toPage' = [toPage EXCEPT ![p] = Tail(@)]
    PROVE  /\ toPage' \in [Pid -> Seq(ToPage)]
           /\ \A q \in Pid : q # p => toPage'[q] = toPage[q]
           /\ toPage'[p] = Tail(toPage[p])
           /\ ~NotBegun(p)
           /\ \A m : Has(toPage[p], m) <=> Head(toPage[p]) = m \/ Has(toPage'[p], m)
           /\ Head(toPage[p]) \in ToPage
<1>1. toPage \in [Pid -> Seq(ToPage)] /\ toPage[p] \in Seq(ToPage)
  BY Types
<1>2. Tail(toPage[p]) \in Seq(ToPage) /\ Head(toPage[p]) \in ToPage
  BY <1>1
<1>3. ~NotBegun(p)
  BY DEF IInv, Sound, BeginsEmpty
<1>4. toPage'[p] = Tail(toPage[p]) /\ \A q \in Pid : q # p => toPage'[q] = toPage[q]
  BY <1>1
<1>5. toPage' \in [Pid -> Seq(ToPage)]
  BY <1>1, <1>2
<1> QED
  BY <1>1, <1>2, <1>3, <1>4, <1>5, HasTail

\* What a process is believed to have does not change with other messages.
LEMMA ReadsOther ==
    ASSUME IInv, NEW p \in Pid, toPage[p] # <<>>, Head(toPage[p]) \notin Reporting,
           toPage' = [toPage EXCEPT ![p] = Tail(@)], UNCHANGED <<processes, local>>
    PROVE  /\ Believed(p)'
           /\ \A r \in Reporting : Has(toPage'[p], r) <=> Has(toPage[p], r)
<1>1. toPage[p] \in Seq(ToPage) /\ toPage'[p] = Tail(toPage[p])
  BY PageReads, Types
<1>2. Believes(toPage[p], processes[p], Mounted(p))
  BY DEF IInv, Sound, Believed
<1>3. PICK b : b = processes[p]
  OBVIOUS
<1>4. PICK l : l = Mounted(p)
  OBVIOUS
<1>5. Believes(Tail(toPage[p]), b, l)
  BY <1>1, <1>2, <1>3, <1>4, BelievesTail
<1>6. Believed(p)'
  BY <1>1, <1>3, <1>4, <1>5 DEF Believed, Mounted
<1>7. \A r \in Reporting : Has(toPage'[p], r) <=> Has(toPage[p], r)
  BY PageReads
<1> QED
  BY <1>6, <1>7

\* The process manager answers a process.
LEMMA AnswerStep ==
    ASSUME IInv, NEW p \in Pid, toPage[p] # <<>>, Head(toPage[p]) = "mountfs",
           toPage' = [toPage EXCEPT ![p] = Tail(@)],
           UNCHANGED page, UNCHANGED <<told, local, refused>>, handleMessageMountFs_(p)
    PROVE  IInv'
<1> DEFINE m == Reply(g_mount.available, g_mount.folder)
<1>0. /\ m \in ToProcess /\ m.kind = "reply" /\ m.on = g_mount.available
      /\ m.folder \in {g_mount.folder, NoFolder} /\ (~g_mount.available => m.folder = NoFolder)
  <2>1. g_mount.available \in BOOLEAN /\ g_mount.folder \in MayBe
    BY Types, RecordTypes
  <2> QED
    BY <2>1, MessageTypes
<1> HIDE DEF m
<1>1. /\ toPage' \in [Pid -> Seq(ToPage)] /\ \A q \in Pid : q # p => toPage'[q] = toPage[q]
      /\ ~NotBegun(p)
  BY PageReads
<1>2. /\ UNCHANGED <<processes, phase>>
      /\ toProcess' = [toProcess EXCEPT ![p] = Append(toProcess[p], m)]
  BY DEF handleMessageMountFs_, m
<1>3. toProcess[p] \in Seq(ToProcess) /\ Append(toProcess[p], m) \in Seq(ToProcess)
  <2>1. toProcess[p] \in Seq(ToProcess)
    BY Types
  <2> QED
    BY <1>0, <2>1
<1>4. /\ toProcess' \in [Pid -> Seq(ToProcess)]
      /\ \A q \in Pid : q # p => toProcess'[q] = toProcess[q]
      /\ toProcess'[p] = Append(toProcess[p], m)
  BY <1>2, <1>3, Types
<1>5. \A x : Has(toProcess'[p], x) <=> Has(toProcess[p], x) \/ m = x
  BY <1>0, <1>3, <1>4, HasAppend
<1>6. Typed' /\ Only(p)
  BY <1>1, <1>2, <1>4, Types DEF Typed, Only
<1>7. /\ Believed(p)'
      /\ \A r \in Reporting : Has(toPage'[p], r) <=> Has(toPage[p], r)
  BY <1>2, ReadsOther DEF Reporting
<1>8. Sound(p) /\ g_mount' = g_mount /\ shown' = shown /\ ui' = ui /\ replaced' = replaced
  BY DEF IInv, page
<1>9. Sound(p)'
  <2>1. BeginsEmpty(p)' /\ NewHasNothing(p)' /\ (p \in Live' <=> p \in Live)
    BY <1>1, <1>2, <1>7, <1>8 DEF Sound, BeginsEmpty, NewHasNothing, NotBegun, New, Mounted,
                                  Live, Known
  <2>2. Says(toProcess[p], "unmount", TRUE) => Says(toProcess'[p], "unmount", TRUE)
    BY <1>5 DEF Says
  <2>3. Going(p) => Going(p)'
    BY <1>2, <1>7, <2>2 DEF Going
  <2>4. g_mount.available /\ Says(toProcess'[p], "reply", FALSE) => Says(toProcess[p], "reply", FALSE)
    BY <1>0, <1>5 DEF Says
  <2>5. g_mount.available /\ Coming(p) => Coming(p)'
    BY <1>2, <1>7, <2>4 DEF Coming, Reporting
  <2>6. Shown(p)' /\ Hidden(p)'
    BY <1>2, <1>8, <2>1, <2>3, <2>5 DEF Sound, Shown, Hidden
  <2>7. Untouched(p)'
    BY <1>0, <1>2, <1>5, <1>7, <1>8 DEF Sound, Untouched, Blank, Mounted
  <2>8. Fresh(p)'
    BY <1>2, <1>8 DEF Sound, Fresh
  <2>9. OneFolder(p)'
    BY <1>0, <1>2, <1>5, <1>8, OneFolderStep DEF Sound
  <2> QED
    BY <1>7, <2>1, <2>6, <2>7, <2>8, <2>9 DEF Sound
<1> QED
  BY <1>6, <1>8, <1>9, Types, Frame

\* A process ends: it says no more, and takes no more messages.
LEMMA ExitStep ==
    ASSUME IInv, NEW p \in Pid, toPage[p] # <<>>, Head(toPage[p]) = "exited",
           toPage' = [toPage EXCEPT ![p] = Tail(@)],
           UNCHANGED page, UNCHANGED <<told, local, refused>>, exit(p)
    PROVE  IInv'
<1>1. /\ toPage' \in [Pid -> Seq(ToPage)] /\ \A q \in Pid : q # p => toPage'[q] = toPage[q]
      /\ ~NotBegun(p)
  BY PageReads
<1>2. PICK end \in {"zombie", "gone"} : phase' = [phase EXCEPT ![p] = end]
  BY DEF exit
<1>3. toProcess' = [toProcess EXCEPT ![p] = <<>>] /\ UNCHANGED processes
  BY DEF exit
<1>4. Typed' /\ Only(p)
  <2>1. <<>> \in Seq(ToProcess)
    OBVIOUS
  <2>2. toProcess' \in [Pid -> Seq(ToProcess)]
    BY <1>3, <2>1, Types
  <2>3. \A q \in Pid : q # p => toProcess'[q] = toProcess[q] /\ phase'[q] = phase[q]
    BY <1>2, <1>3, Types
  <2>4. end \in Phases
    BY <1>2 DEF Phases
  <2>5. phase' \in [Pid -> Phases]
    BY <1>2, <2>4, Types
  <2> QED
    BY <1>1, <1>3, <2>2, <2>3, <2>5, Types DEF Typed, Only
<1>5. phase'[p] \in {"zombie", "gone"} /\ toProcess'[p] = <<>>
  BY <1>2, <1>3, Types
<1>6. /\ Believed(p)'
      /\ \A r \in Reporting : Has(toPage'[p], r) <=> Has(toPage[p], r)
  BY <1>3, ReadsOther DEF Reporting
<1>7. p \notin Live' /\ ~NotBegun(p)' /\ ~New(p)'
  BY <1>5 DEF Live, Known, NotBegun, New
<1>8. \A m \in ToProcess : Has(toProcess'[p], m) => Has(toProcess[p], m)
  BY <1>5, HasEmpty
<1>9. Fresh(p)'
  BY <1>3 DEF IInv, Sound, Fresh, page
<1>10. Untouched(p)'
  BY <1>3, <1>5, <1>6, <1>8, KeepsBlank
<1>11. Sound(p)'
  BY <1>6, <1>7, <1>9, <1>10 DEF Sound, BeginsEmpty, NewHasNothing, Shown, Hidden, OneFolder
<1> QED
  BY <1>4, <1>11, Types, Frame

\* A process says that the file system has refused.
LEMMA FailedStep ==
    ASSUME IInv, NEW p \in Pid, toPage[p] # <<>>, Head(toPage[p]) = "failed",
           toPage' = [toPage EXCEPT ![p] = Tail(@)],
           UNCHANGED page, UNCHANGED <<told, local, refused, processes, toProcess, phase>>
    PROVE  IInv'
<1>1. /\ toPage' \in [Pid -> Seq(ToPage)] /\ \A q \in Pid : q # p => toPage'[q] = toPage[q]
      /\ ~NotBegun(p)
  BY PageReads
<1>2. Typed' /\ Only(p)
  BY <1>1, Types DEF Typed, Only
<1>3. /\ Believed(p)'
      /\ \A r \in Reporting : Has(toPage'[p], r) <=> Has(toPage[p], r)
  BY ReadsOther DEF Reporting
<1>4. /\ NotBegun(p)' <=> NotBegun(p)
      /\ New(p)' <=> New(p)
      /\ p \in Live' <=> p \in Live
      /\ Mounted(p)' <=> Mounted(p)
  BY DEF NotBegun, New, Live, Known, Mounted
<1>5. (Coming(p) => Coming(p)') /\ (Going(p) => Going(p)')
  BY <1>3 DEF Coming, Going, Reporting
<1>6. Sound(p) /\ g_mount' = g_mount
  BY DEF IInv, page
<1>7. (BeginsEmpty(p) /\ NewHasNothing(p) /\ Shown(p) /\ Hidden(p))'
  BY <1>1, <1>3, <1>4, <1>5, <1>6 DEF Sound, BeginsEmpty, NewHasNothing, Shown, Hidden
<1>8. Fresh(p)' /\ OneFolder(p)'
  BY <1>4, Keeps
<1>9. Untouched(p)'
  BY <1>3, KeepsBlank
<1> QED
  BY <1>2, <1>3, <1>7, <1>8, <1>9, Types, Frame DEF Sound

\* A report: the page counts who has the folder, and draws the buttons.
LEMMA ReportStep ==
    ASSUME IInv, NEW p \in Pid, NEW mounted \in BOOLEAN, toPage[p] # <<>>,
           Head(toPage[p]) \in Reporting, mounted = (Head(toPage[p]) = "mounted"),
           toPage' = [toPage EXCEPT ![p] = Tail(@)],
           UNCHANGED <<shown, choosing, clicks, replaced, told, local, refused>>,
           Report(p, mounted)
    PROVE  IInv'
<1>1. /\ toPage' \in [Pid -> Seq(ToPage)] /\ toPage'[p] = Tail(toPage[p])
      /\ \A q \in Pid : q # p => toPage'[q] = toPage[q]
      /\ ~NotBegun(p)
      /\ \A m : Has(toPage[p], m) <=> Head(toPage[p]) = m \/ Has(toPage'[p], m)
  BY PageReads
<1>2. /\ UNCHANGED <<toProcess, phase>>
      /\ processes' = [processes EXCEPT ![p] = mounted]
      /\ syncMountStatus_(processes')
  BY DEF Report
<1>3. /\ processes' \in [Pid -> BOOLEAN] /\ processes'[p] = mounted
      /\ \A q \in Pid : q # p => processes'[q] = processes[q]
  BY <1>2, Types
<1>4. Known' = Known /\ Live' = Live /\ Live \subseteq Known /\ Known \subseteq Pid
  BY <1>2 DEF Live, Known
<1> DEFINE v == IF g_mount.available THEN \A q \in Known : processes'[q]
                ELSE \E q \in Known : processes'[q]
<1>5. /\ g_mount' = [available |-> g_mount.available, mounted |-> v,
                     entry |-> g_mount.entry, folder |-> g_mount.folder]
      /\ populateMountControl(g_mount')
      /\ v \in BOOLEAN
  <2>1. v \in BOOLEAN
    BY <1>3, <1>4
  <2>2. g_mount' = [g_mount EXCEPT !.mounted = v] /\ populateMountControl(g_mount')
    BY <1>2 DEF syncMountStatus_
  <2> HIDE DEF v
  <2> QED
    BY <2>1, <2>2, Types, MountedUpdate
<1>6. /\ g_mount' \in Record
      /\ g_mount'.available = g_mount.available /\ g_mount'.mounted = v
      /\ g_mount'.folder = g_mount.folder
  <2>1. g_mount.available \in BOOLEAN /\ g_mount.entry \in BOOLEAN /\ g_mount.folder \in MayBe
    BY Types, RecordTypes
  <2> HIDE DEF v
  <2> QED
    BY <1>5, <2>1 DEF Record
<1>7. /\ ui' \in Buttons
      /\ shown = "yes" => ui'.unmount = v /\ (ui'.mount => ~v)
      /\ shown # "yes" => ui' = ui
  <2>1. PICK m : m = g_mount'
    OBVIOUS
  <2>2. m \in Record /\ populateMountControl(m) /\ m.mounted = v
    BY <1>5, <1>6, <2>1
  <2> HIDE DEF v
  <2> QED
    BY <2>2, Drawn
<1>8. TypeOK'
  <2>1. UNCHANGED <<choosing, told, local, phase, toProcess, clicks, refused, shown, replaced>>
    BY <1>2
  <2> HIDE DEF v
  <2> QED
    BY <1>1, <1>3, <1>6, <1>7, <2>1, Types, Zenon
       DEF TypeOK, Record, Buttons, ToProcess, ToPage, Phases
\* The process has something to say: the page is not new.
<1>9. ~New(p) /\ (shown = "yes" \/ g_mount.available)
  <2>1. \E r \in Reporting : Has(toPage[p], r)
    BY <1>1
  <2> QED
    BY <2>1 DEF IInv, Sound, NewHasNothing, Untouched, Blank
<1>10. ButtonsOK'
  <2>1. shown # "not yet"
    BY <1>9 DEF IInv, ButtonsOK
  <2>2. CASE shown = "yes"
    <3> HIDE DEF v
    <3> QED
      BY <1>6, <1>7, <2>1, <2>2 DEF ButtonsOK
  <2>3. CASE shown # "yes"
    <3> HIDE DEF v
    <3> QED
      BY <1>6, <1>7, <2>1, <2>3 DEF IInv, ButtonsOK
  <2> QED
    BY <2>2, <2>3
<1>11. ASSUME NEW q \in Pid
       PROVE  Believed(q)' /\ BeginsEmpty(q)' /\ NewHasNothing(q)'
  <2>1. Sound(q) /\ Sound(p)
    BY DEF IInv
  <2>2. CASE q # p
    BY <1>1, <1>2, <1>3, <2>1, <2>2 DEF Sound, Believed, BeginsEmpty, NewHasNothing, NotBegun,
                                        New, Mounted
  <2>3. CASE q = p
    <3>1. PICK b : b = processes[p]
      OBVIOUS
    <3>2. PICK l : l = Mounted(p)
      OBVIOUS
    <3>3. Believes(toPage[p], b, l) /\ toPage[p] \in Seq(ToPage)
      BY <2>1, <3>1, <3>2, Types DEF Sound, Believed
    <3>4. Believes(Tail(toPage[p]), mounted, l)
      BY <3>3, BelievesTail
    <3>5. Believed(p)'
      BY <1>1, <1>3, <3>2, <3>4 DEF Believed, Mounted
    <3>6. BeginsEmpty(p)' /\ NewHasNothing(p)'
      BY <1>1, <1>2, <1>9 DEF BeginsEmpty, NewHasNothing, NotBegun, New
    <3> QED
      BY <2>3, <3>5, <3>6
  <2> QED
    BY <2>2, <2>3
<1>12. ASSUME NEW q \in Pid
       PROVE  Shown(q)' /\ Hidden(q)'
  BY <1>4, <1>6 DEF Shown, Hidden
<1>13. ASSUME NEW q \in Pid
       PROVE  Untouched(q)' /\ Fresh(q)' /\ OneFolder(q)'
  <2> HIDE DEF v
  <2>1. Untouched(q)'
    BY <1>6, <1>9 DEF Untouched
  <2>2. Fresh(q)'
    BY <1>7 DEF Fresh
  <2>3. OneFolder(q)'
    BY <1>2, <1>4, <1>6 DEF IInv, Sound, OneFolder, Agrees
  <2> QED
    BY <2>1, <2>2, <2>3
<1> HIDE DEF v
<1> QED
  BY <1>8, <1>10, <1>11, <1>12, <1>13 DEF IInv, Sound

LEMMA HandleMessageStep ==
    ASSUME IInv, NEW p \in Pid, handleMessage(p)
    PROVE  IInv'
<1>1. CASE Head(toPage[p]) = "overlay" /\ NewImage(p)
  BY <1>1, NewImageStep
<1>2. CASE /\ toPage' = [toPage EXCEPT ![p] = Tail(@)]
           /\ UNCHANGED <<shown, choosing, clicks, replaced, told, local, refused>>
           /\ \/ Head(toPage[p]) = "mounted" /\ Report(p, TRUE)
              \/ Head(toPage[p]) = "unmounted" /\ Report(p, FALSE)
  BY <1>2, ReportStep DEF handleMessage, Reporting
<1>3. CASE /\ toPage' = [toPage EXCEPT ![p] = Tail(@)]
           /\ UNCHANGED <<shown, choosing, clicks, replaced, told, local, refused>>
           /\ Head(toPage[p]) = "mountfs" /\ handleMessageMountFs_(p)
  <2>1. UNCHANGED page /\ toPage[p] # <<>>
    BY <1>3 DEF handleMessage, handleMessageMountFs_, page
  <2> QED
    BY <1>3, <2>1, AnswerStep
<1>4. CASE /\ toPage' = [toPage EXCEPT ![p] = Tail(@)]
           /\ UNCHANGED <<shown, choosing, clicks, replaced, told, local, refused>>
           /\ Head(toPage[p]) = "failed"
           /\ UNCHANGED <<g_mount, ui, processes, toProcess, phase>>
  <2>1. UNCHANGED page /\ toPage[p] # <<>>
    BY <1>4 DEF handleMessage, page
  <2> QED
    BY <1>4, <2>1, FailedStep
<1>5. CASE /\ toPage' = [toPage EXCEPT ![p] = Tail(@)]
           /\ UNCHANGED <<shown, choosing, clicks, replaced, told, local, refused>>
           /\ Head(toPage[p]) = "exited" /\ exit(p)
  <2>1. UNCHANGED page /\ toPage[p] # <<>>
    BY <1>5 DEF handleMessage, exit, page
  <2> QED
    BY <1>5, <2>1, ExitStep
<1> QED
  BY <1>1, <1>2, <1>3, <1>4, <1>5 DEF handleMessage

LEMMA CollectStep ==
    ASSUME IInv, NEW p \in Pid, Collect(p)
    PROVE  IInv'
<1>1. /\ UNCHANGED page /\ UNCHANGED <<processes, told, local, toProcess, toPage, refused>>
      /\ phase[p] = "zombie" /\ phase' = [phase EXCEPT ![p] = "gone"]
  BY DEF Collect
<1>2. Typed' /\ Only(p) /\ phase'[p] = "gone"
  <2>1. "gone" \in Phases
    BY DEF Phases
  <2> QED
    BY <1>1, <2>1, Types DEF Typed, Only
<1>3. Sound(p) /\ ~NotBegun(p)' /\ ~New(p)' /\ p \notin Live'
  BY <1>2 DEF IInv, NotBegun, New, Live, Known
<1>4. Believed(p)' /\ Fresh(p)'
  BY <1>1, <1>3 DEF Sound, Believed, Mounted, Fresh, page
<1>5. Untouched(p)'
  BY <1>1, <1>2, KeepsBlank
<1>6. Sound(p)'
  BY <1>3, <1>4, <1>5 DEF Sound, BeginsEmpty, NewHasNothing, Shown, Hidden, OneFolder
<1> QED
  BY <1>1, <1>2, <1>6, Types, Frame

\* A process says something.
LEMMA Tells ==
    ASSUME IInv, NEW p \in Pid, NEW m \in ToPage, Tell(p, m), NEW now,
           m \in Reporting => now = (m = "mounted"),
           m \notin Reporting => now = Mounted(p)
    PROVE  /\ toPage' \in [Pid -> Seq(ToPage)]
           /\ \A q \in Pid : q # p => toPage'[q] = toPage[q]
           /\ Believes(toPage'[p], processes[p], now)
           /\ \A x : Has(toPage'[p], x) <=> Has(toPage[p], x) \/ m = x
<1>1. toPage \in [Pid -> Seq(ToPage)] /\ toPage[p] \in Seq(ToPage)
  BY Types
<1>2. Append(toPage[p], m) \in Seq(ToPage)
  BY <1>1
<1>3. /\ toPage' \in [Pid -> Seq(ToPage)] /\ toPage'[p] = Append(toPage[p], m)
      /\ \A q \in Pid : q # p => toPage'[q] = toPage[q]
  BY <1>1, <1>2 DEF Tell
<1>4. Believes(toPage[p], processes[p], Mounted(p))
  BY DEF IInv, Sound, Believed
<1>5. Believes(Append(toPage[p], m), processes[p], now)
  <2>1. PICK b : b = processes[p]
    OBVIOUS
  <2>2. PICK l : l = Mounted(p)
    OBVIOUS
  <2>3. Believes(toPage[p], b, l)
    BY <1>4, <2>1, <2>2
  <2>4. Believes(Append(toPage[p], m), b, now)
    BY <1>1, <2>2, <2>3, BelievesAppend
  <2> QED
    BY <2>1, <2>4
<1> QED
  BY <1>1, <1>3, <1>5, HasAppend

\* A process that says something which is not about a folder.
LEMMA TellsOther ==
    ASSUME IInv, NEW p \in Pid, NEW m \in ToPage, m \notin Reporting, Tell(p, m),
           UNCHANGED <<processes, local>>
    PROVE  /\ toPage' \in [Pid -> Seq(ToPage)]
           /\ \A q \in Pid : q # p => toPage'[q] = toPage[q]
           /\ Believed(p)'
           /\ \A r \in Reporting : Has(toPage'[p], r) <=> Has(toPage[p], r)
<1>1. PICK l : l = Mounted(p)
  OBVIOUS
<1>2. Believes(toPage'[p], processes[p], l)
  BY <1>1, Tells
<1>3. Believed(p)'
  BY <1>1, <1>2 DEF Believed, Mounted
<1>4. \A x : Has(toPage'[p], x) <=> Has(toPage[p], x) \/ m = x
  BY <1>1, Tells
<1> QED
  BY <1>1, <1>3, <1>4, Tells

LEMMA AskMountFsStep ==
    ASSUME IInv, NEW p \in Pid, AskMountFs(p)
    PROVE  IInv'
<1>1. /\ UNCHANGED page /\ UNCHANGED <<processes, told, local, toProcess, refused>>
      /\ phase[p] = "starts" /\ phase' = [phase EXCEPT ![p] = "asks"]
      /\ Tell(p, "mountfs")
  BY DEF AskMountFs
<1>2. "mountfs" \in ToPage /\ "mountfs" \notin Reporting
  BY DEF ToPage, Reporting
<1>3. /\ toPage' \in [Pid -> Seq(ToPage)] /\ \A q \in Pid : q # p => toPage'[q] = toPage[q]
      /\ Believed(p)'
      /\ \A r \in Reporting : Has(toPage'[p], r) <=> Has(toPage[p], r)
  BY <1>1, <1>2, TellsOther
<1>4. Typed' /\ Only(p) /\ phase'[p] = "asks"
  <2>1. "asks" \in Phases
    BY DEF Phases
  <2> QED
    BY <1>1, <1>3, <2>1, Types DEF Typed, Only
<1>5. Sound(p) /\ NotBegun(p) /\ New(p)
  BY <1>1 DEF IInv, NotBegun, New
<1>6. BeginsEmpty(p)' /\ NewHasNothing(p)'
  BY <1>1, <1>3, <1>4, <1>5 DEF Sound, BeginsEmpty, NewHasNothing, NotBegun, Mounted
<1>7. ~Says(toProcess'[p], "reply", FALSE)
  BY <1>1, <1>5 DEF Sound, BeginsEmpty
<1>8. Shown(p)' /\ Hidden(p)'
  BY <1>1, <1>4, <1>5, <1>7 DEF Sound, NewHasNothing, Shown, Hidden, Coming
<1>9. Fresh(p)' /\ OneFolder(p)'
  <2>1. p \in Live
    BY <1>1 DEF Live, Known
  <2> QED
    BY <1>1, <2>1, Keeps
<1>10. Untouched(p)'
  BY <1>1, <1>3, <1>4, KeepsBlank
<1> QED
  BY <1>1, <1>3, <1>4, <1>6, <1>8, <1>9, <1>10, Types, Frame DEF Sound

LEMMA EndStep ==
    ASSUME IInv, NEW p \in Pid, End(p)
    PROVE  IInv'
<1>1. /\ UNCHANGED page /\ UNCHANGED <<processes, told, local, toProcess, refused>>
      /\ p \in Live /\ phase' = [phase EXCEPT ![p] = "ended"]
      /\ Tell(p, "exited")
  BY DEF End
<1>2. "exited" \in ToPage /\ "exited" \notin Reporting
  BY DEF ToPage, Reporting
<1>3. /\ toPage' \in [Pid -> Seq(ToPage)] /\ \A q \in Pid : q # p => toPage'[q] = toPage[q]
      /\ Believed(p)'
      /\ \A r \in Reporting : Has(toPage'[p], r) <=> Has(toPage[p], r)
  BY <1>1, <1>2, TellsOther
<1>4. Typed' /\ Only(p) /\ phase'[p] = "ended"
  <2>1. "ended" \in Phases
    BY DEF Phases
  <2> QED
    BY <1>1, <1>3, <2>1, Types DEF Typed, Only
<1>5. Sound(p) /\ ~NotBegun(p)' /\ ~New(p)' /\ Coming(p)' /\ Going(p)'
  BY <1>4 DEF IInv, NotBegun, New, Coming, Going
<1>6. Fresh(p)' /\ OneFolder(p)'
  BY <1>1, Keeps
<1>7. Untouched(p)'
  BY <1>1, <1>3, <1>4, KeepsBlank
<1>8. Sound(p)'
  BY <1>3, <1>5, <1>6, <1>7 DEF Sound, BeginsEmpty, NewHasNothing, Shown, Hidden
<1> QED
  BY <1>1, <1>4, <1>8, Types, Frame

LEMMA ExecStep ==
    ASSUME IInv, NEW p \in Pid, Exec(p)
    PROVE  IInv'
<1>1. /\ UNCHANGED page /\ UNCHANGED <<processes, phase, told, local, toProcess, refused>>
      /\ phase[p] = "set up" /\ Tell(p, "overlay")
  BY DEF Exec, process
<1>2. "overlay" \in ToPage /\ "overlay" \notin Reporting
  BY DEF ToPage, Reporting
<1>3. /\ toPage' \in [Pid -> Seq(ToPage)] /\ \A q \in Pid : q # p => toPage'[q] = toPage[q]
      /\ Believed(p)'
      /\ \A r \in Reporting : Has(toPage'[p], r) <=> Has(toPage[p], r)
  BY <1>1, <1>2, TellsOther
<1>4. Typed' /\ Only(p)
  BY <1>1, <1>3, Types DEF Typed, Only
<1>5. Sound(p) /\ g_mount' = g_mount
  BY <1>1 DEF IInv, page
<1>6. (Coming(p) => Coming(p)') /\ (Going(p) => Going(p)') /\ (p \in Live' <=> p \in Live)
  BY <1>1, <1>3 DEF Coming, Going, Live, Known, Reporting
<1>7. ~NotBegun(p)' /\ ~New(p)'
  BY <1>1 DEF NotBegun, New
<1>8. Shown(p)' /\ Hidden(p)'
  BY <1>1, <1>5, <1>6 DEF Sound, Shown, Hidden
<1>9. Fresh(p)' /\ OneFolder(p)'
  BY <1>1, <1>6, Keeps
<1>10. Untouched(p)'
  BY <1>1, <1>3, KeepsBlank
<1>11. Sound(p)'
  BY <1>3, <1>7, <1>8, <1>9, <1>10 DEF Sound, BeginsEmpty, NewHasNothing
<1> QED
  BY <1>1, <1>4, <1>11, Types, Frame

\* What a process says when it is to mount, or to unmount, the folder.
LEMMA Mounts ==
    ASSUME IInv, NEW p \in Pid, NEW f \in MayBe, MountLocalFs(p, f), UNCHANGED processes
    PROVE  /\ local' \in [Pid -> MayBe] /\ toPage' \in [Pid -> Seq(ToPage)]
           /\ refused' \in BOOLEAN /\ (refused => refused')
           /\ \A q \in Pid : q # p => toPage'[q] = toPage[q] /\ local'[q] = local[q]
           /\ local'[p] \in {local[p], f}
           /\ Believed(p)'
           /\ \A r \in Reporting : Has(toPage[p], r) => Has(toPage'[p], r)
           /\ refused' \/ Mounted(p) \/ Has(toPage'[p], "mounted")
<1>0. {"mounted", "failed"} \subseteq ToPage /\ "mounted" \in Reporting /\ "failed" \notin Reporting
  BY DEF ToPage, Reporting
<1>1. CASE /\ f # NoFolder /\ local[p] = NoFolder
           /\ local' = [local EXCEPT ![p] = f]
           /\ Tell(p, "mounted") /\ UNCHANGED refused
  <2>1. /\ local'[p] = f /\ local' \in [Pid -> MayBe]
        /\ \A q \in Pid : q # p => local'[q] = local[q]
    BY <1>1, Types
  <2>2. /\ toPage' \in [Pid -> Seq(ToPage)] /\ \A q \in Pid : q # p => toPage'[q] = toPage[q]
        /\ Believes(toPage'[p], processes[p], TRUE)
        /\ \A x : Has(toPage'[p], x) <=> Has(toPage[p], x) \/ "mounted" = x
    BY <1>0, <1>1, Tells
  <2>3. Believed(p)'
    <3>1. Mounted(p)' = TRUE
      BY <1>1, <2>1 DEF Mounted
    <3> QED
      BY <2>2, <3>1 DEF Believed
  <2> QED
    BY <1>1, <2>1, <2>2, <2>3, Types
<1>2. CASE /\ refused' = (refused \/ local[p] = NoFolder)
           /\ Tell(p, "failed") /\ UNCHANGED local
  <2>1. /\ toPage' \in [Pid -> Seq(ToPage)] /\ \A q \in Pid : q # p => toPage'[q] = toPage[q]
        /\ Believed(p)'
        /\ \A r \in Reporting : Has(toPage'[p], r) <=> Has(toPage[p], r)
    BY <1>0, <1>2, TellsOther
  <2> QED
    BY <1>2, <2>1, Types DEF Mounted
<1> QED
  BY <1>1, <1>2 DEF MountLocalFs

LEMMA Unmounts ==
    ASSUME IInv, NEW p \in Pid, UnmountLocalFs(p), UNCHANGED processes
    PROVE  /\ local' \in [Pid -> MayBe] /\ toPage' \in [Pid -> Seq(ToPage)]
           /\ refused' \in BOOLEAN /\ (refused => refused')
           /\ \A q \in Pid : q # p => toPage'[q] = toPage[q] /\ local'[q] = local[q]
           /\ local'[p] \in {local[p], NoFolder}
           /\ Believed(p)'
           /\ \A r \in Reporting : Has(toPage[p], r) => Has(toPage'[p], r)
           /\ refused' \/ ~Mounted(p) \/ Has(toPage'[p], "unmounted")
<1>0. /\ {"unmounted", "failed"} \subseteq ToPage /\ "unmounted" \in Reporting
      /\ "failed" \notin Reporting
  BY DEF ToPage, Reporting
<1>1. CASE /\ local[p] # NoFolder
           /\ local' = [local EXCEPT ![p] = NoFolder]
           /\ Tell(p, "unmounted") /\ UNCHANGED refused
  <2>1. /\ local'[p] = NoFolder /\ local' \in [Pid -> MayBe]
        /\ \A q \in Pid : q # p => local'[q] = local[q]
    <3>1. NoFolder \in MayBe
      BY DEF MayBe
    <3> QED
      BY <1>1, <3>1, Types
  <2>2. /\ toPage' \in [Pid -> Seq(ToPage)] /\ \A q \in Pid : q # p => toPage'[q] = toPage[q]
        /\ Believes(toPage'[p], processes[p], FALSE)
        /\ \A x : Has(toPage'[p], x) <=> Has(toPage[p], x) \/ "unmounted" = x
    BY <1>0, <1>1, Tells
  <2>3. Believed(p)'
    <3>1. Mounted(p)' = FALSE
      BY <2>1 DEF Mounted
    <3> QED
      BY <2>2, <3>1 DEF Believed
  <2> QED
    BY <1>1, <2>1, <2>2, <2>3, Types
<1>2. CASE /\ refused' = (refused \/ local[p] # NoFolder)
           /\ Tell(p, "failed") /\ UNCHANGED local
  <2>1. /\ toPage' \in [Pid -> Seq(ToPage)] /\ \A q \in Pid : q # p => toPage'[q] = toPage[q]
        /\ Believed(p)'
        /\ \A r \in Reporting : Has(toPage'[p], r) <=> Has(toPage[p], r)
    BY <1>0, <1>2, TellsOther
  <2> QED
    BY <1>2, <2>1, Types DEF Mounted
<1> QED
  BY <1>1, <1>2 DEF UnmountLocalFs

\* A process that may have a folder now which it was told of, and has no answer
\* left to act on, keeps to the folder that was chosen.
LEMMA KeepsFolder ==
    ASSUME IInv, NEW p \in Pid, NEW f, UNCHANGED page, p \in Live,
           replaced \/ f \in {NoFolder, g_mount.folder},
           local'[p] \in {local[p], f, NoFolder}, told'[p] \in {told[p], NoFolder},
           \A m \in ToProcess : Has(toProcess'[p], m) => Has(toProcess[p], m)
    PROVE  OneFolder(p)'
<1>1. g_mount' = g_mount /\ replaced' = replaced /\ OneFolder(p)
  BY DEF IInv, Sound, page
<1> QED
  BY <1>1 DEF OneFolder, Agrees

LEMMA FinishMountFsStep ==
    ASSUME IInv, NEW p \in Pid, FinishMountFs(p)
    PROVE  IInv'
<1>1. /\ UNCHANGED page /\ UNCHANGED <<processes, toProcess>>
      /\ phase[p] \in {"yes", "no"} /\ phase' = [phase EXCEPT ![p] = "set up"]
      /\ told' = [told EXCEPT ![p] = NoFolder]
      /\ g_mount' = g_mount /\ shown' = shown /\ ui' = ui
  BY DEF FinishMountFs, page
<1>2. /\ phase'[p] = "set up" /\ told'[p] = NoFolder
      /\ phase' \in [Pid -> Phases] /\ told' \in [Pid -> MayBe]
      /\ \A q \in Pid : q # p => phase'[q] = phase[q] /\ told'[q] = told[q]
  <2>1. "set up" \in Phases /\ NoFolder \in MayBe
    BY DEF Phases, MayBe
  <2> QED
    BY <1>1, <2>1, Types
<1>3. Sound(p) /\ New(p) /\ p \in Live /\ ~New(p)' /\ ~NotBegun(p)'
  BY <1>1, <1>2 DEF IInv, New, NotBegun, Live, Known
<1>4. ~Mounted(p) /\ ~processes[p] /\ \A r \in Reporting : ~Has(toPage[p], r)
  BY <1>3 DEF Sound, NewHasNothing
<1>5. Fresh(p)' /\ Hidden(p)'
  BY <1>1, <1>4 DEF Fresh, Hidden
<1>6. CASE phase[p] = "yes"
  <2>1. MountLocalFs(p, told[p]) /\ told[p] \in MayBe
    BY <1>6, Types DEF FinishMountFs
  <2>2. PICK f : f = told[p]
    OBVIOUS
  <2>3. /\ local' \in [Pid -> MayBe] /\ toPage' \in [Pid -> Seq(ToPage)]
        /\ refused' \in BOOLEAN /\ (refused => refused')
        /\ \A q \in Pid : q # p => toPage'[q] = toPage[q] /\ local'[q] = local[q]
        /\ local'[p] \in {local[p], f}
        /\ Believed(p)'
        /\ refused' \/ Has(toPage'[p], "mounted")
    BY <1>1, <1>4, <2>1, <2>2, Mounts
  <2>4. Typed' /\ Only(p)
    BY <1>1, <1>2, <2>3, Types DEF Typed, Only
  <2>5. Shown(p)'
    BY <2>3 DEF Shown, Coming
  <2>6. Untouched(p)'
    <3>1. ~Blank(p)
      BY <1>6 DEF Blank
    <3> QED
      BY <1>1, <1>3, <3>1 DEF Sound, Untouched
  <2>7. OneFolder(p)'
    <3>1. replaced \/ f \in {NoFolder, g_mount.folder}
      BY <1>3, <2>2 DEF Sound, OneFolder, Agrees
    <3> QED
      BY <1>1, <1>2, <1>3, <2>3, <3>1, KeepsFolder
  <2>8. Sound(p)'
    BY <1>3, <1>5, <2>3, <2>5, <2>6, <2>7 DEF Sound, BeginsEmpty, NewHasNothing
  <2> QED
    BY <1>1, <2>3, <2>4, <2>8, Frame
<1>7. CASE phase[p] = "no"
  <2>1. UNCHANGED <<local, toPage, refused>>
    BY <1>7 DEF FinishMountFs, Nothing
  <2>2. Typed' /\ Only(p)
    BY <1>1, <1>2, <2>1, Types DEF Typed, Only
  <2>3. ~Coming(p)
    BY <1>4, <1>7 DEF Coming, Reporting
  <2>4. Shown(p)'
    BY <1>1, <1>3, <1>4, <2>1, <2>3 DEF Sound, Shown
  <2>5. Believed(p)'
    BY <1>1, <1>3, <2>1 DEF Sound, Believed, Mounted
  <2>6. Untouched(p)'
    BY <1>1, <1>2, <2>1, KeepsBlank
  <2>7. OneFolder(p)'
    BY <1>1, <1>2, <1>3, <2>1, KeepsFolder
  <2>8. Sound(p)'
    BY <1>3, <1>5, <2>4, <2>5, <2>6, <2>7 DEF Sound, BeginsEmpty, NewHasNothing
  <2> QED
    BY <1>1, <2>1, <2>2, <2>8, Types, Frame
<1> QED
  BY <1>1, <1>6, <1>7

\* A message to a process is taken.
LEMMA Arrives ==
    ASSUME IInv, NEW p \in Pid, Deliver(p)
    PROVE  /\ UNCHANGED page /\ UNCHANGED processes
           /\ toProcess' \in [Pid -> Seq(ToProcess)]
           /\ \A q \in Pid : q # p => toProcess'[q] = toProcess[q]
           /\ \A x : Has(toProcess[p], x) <=> Head(toProcess[p]) = x \/ Has(toProcess'[p], x)
           /\ Head(toProcess[p]) \in ToProcess
           /\ Sound(p) /\ g_mount' = g_mount
<1>1. toProcess \in [Pid -> Seq(ToProcess)] /\ toProcess[p] \in Seq(ToProcess)
  BY Types
<1>2. toProcess[p] # <<>> /\ toProcess' = [toProcess EXCEPT ![p] = Tail(toProcess[p])]
  BY DEF Deliver
<1>3. Tail(toProcess[p]) \in Seq(ToProcess) /\ Head(toProcess[p]) \in ToProcess
  BY <1>1, <1>2
<1>4. /\ toProcess'[p] = Tail(toProcess[p]) /\ toProcess' \in [Pid -> Seq(ToProcess)]
      /\ \A q \in Pid : q # p => toProcess'[q] = toProcess[q]
  BY <1>1, <1>2, <1>3
<1>5. UNCHANGED page /\ UNCHANGED processes
  BY DEF Deliver
<1>6. \A x : Has(toProcess[p], x) <=> Head(toProcess[p]) = x \/ Has(toProcess'[p], x)
  BY <1>1, <1>2, <1>4, HasTail
<1> QED
  BY <1>3, <1>4, <1>5, <1>6 DEF IInv, page

\* The message a process takes, of a kind.
LEMMA Takes ==
    ASSUME IInv, NEW p \in Pid, Deliver(p), NEW kind, NEW on
    PROVE  /\ Says(toProcess'[p], kind, on) => Says(toProcess[p], kind, on)
           /\ Head(toProcess[p]).kind = kind /\ Head(toProcess[p]).on = on
                => Says(toProcess[p], kind, on)
           /\ Says(toProcess[p], kind, on) =>
                 \/ Head(toProcess[p]).kind = kind /\ Head(toProcess[p]).on = on
                 \/ Says(toProcess'[p], kind, on)
  BY Arrives DEF Says

LEMMA DeliverReply ==
    ASSUME IInv, NEW p \in Pid, Deliver(p), Head(toProcess[p]).kind = "reply", phase[p] = "asks",
           Nothing, phase' = [phase EXCEPT ![p] = IF Head(toProcess[p]).on THEN "yes" ELSE "no"],
           told' = [told EXCEPT ![p] = Head(toProcess[p]).folder]
    PROVE  IInv'
<1>0. PICK message \in ToProcess : message = Head(toProcess[p])
  BY Arrives
<1>1. UNCHANGED <<local, toPage, refused>> /\ UNCHANGED processes /\ UNCHANGED page
      /\ g_mount' = g_mount /\ shown' = shown /\ ui' = ui /\ replaced' = replaced
  BY Arrives DEF Nothing, page
<1>2. message.on \in BOOLEAN /\ message.folder \in MayBe /\ message.kind = "reply"
  BY <1>0 DEF ToProcess
<1>3. /\ phase'[p] = (IF message.on THEN "yes" ELSE "no") /\ told'[p] = message.folder
      /\ phase' \in [Pid -> Phases] /\ told' \in [Pid -> MayBe]
      /\ \A q \in Pid : q # p => phase'[q] = phase[q] /\ told'[q] = told[q]
  <2>1. PICK new : new = (IF message.on THEN "yes" ELSE "no")
    OBVIOUS
  <2>2. new \in Phases
    BY <2>1 DEF Phases
  <2>3. phase' = [phase EXCEPT ![p] = new] /\ told' = [told EXCEPT ![p] = message.folder]
    BY <1>0, <2>1
  <2>4. /\ phase'[p] = new /\ phase' \in [Pid -> Phases]
        /\ \A q \in Pid : q # p => phase'[q] = phase[q]
    BY <2>2, <2>3, Types
  <2>5. /\ told'[p] = message.folder /\ told' \in [Pid -> MayBe]
        /\ \A q \in Pid : q # p => told'[q] = told[q]
    BY <1>2, <2>3, Types
  <2> QED
    BY <2>1, <2>4, <2>5
<1>4. Typed' /\ Only(p)
  BY <1>1, <1>3, Types, Arrives DEF Typed, Only
<1>5. Sound(p) /\ New(p) /\ p \in Live /\ New(p)' /\ ~NotBegun(p)'
  BY <1>3, Arrives DEF New, NotBegun, Live, Known
<1>6. ~Mounted(p) /\ ~processes[p] /\ \A r \in Reporting : ~Has(toPage[p], r)
  BY <1>5 DEF Sound, NewHasNothing
<1>7. Believed(p)' /\ BeginsEmpty(p)' /\ NewHasNothing(p)' /\ Hidden(p)' /\ Fresh(p)'
  BY <1>1, <1>5, <1>6 DEF Sound, Believed, BeginsEmpty, NewHasNothing, Hidden, Fresh, Mounted
<1>8. Shown(p)'
  <2>1. CASE message.on
    BY <1>3, <2>1 DEF Shown, Coming
  <2>2. CASE ~message.on
    <3>1. Says(toProcess[p], "reply", FALSE)
      BY <1>0, <1>2, <2>2, Takes
    <3>2. ~Coming(p)
      BY <1>6, <3>1 DEF Coming, Reporting
    <3> QED
      BY <1>1, <1>5, <1>6, <3>2 DEF Sound, Shown
  <2> QED
    BY <2>1, <2>2
<1>9. \A m \in ToProcess : Has(toProcess'[p], m) => Has(toProcess[p], m)
  BY Arrives
<1>10. Has(toProcess[p], message)
  BY <1>0, Arrives
<1>11. Untouched(p)'
  <2>1. SUFFICES ASSUME shown # "yes", ~g_mount.available PROVE Blank(p)'
    BY <1>1 DEF Untouched
  <2>2. Blank(p)
    BY <1>5, <2>1 DEF Sound, Untouched
  <2>3. ~message.on /\ message.folder = NoFolder
    BY <1>10, <2>2 DEF Blank
  <2>4. phase'[p] = "no" /\ told'[p] = NoFolder
    BY <1>3, <2>3
  <2> QED
    BY <1>1, <1>9, <2>2, <2>4 DEF Blank, Mounted
<1>12. OneFolder(p)'
  <2>1. SUFFICES ASSUME ~replaced PROVE Agrees(p)'
    BY <1>1 DEF OneFolder
  <2>2. Agrees(p)
    BY <1>5, <2>1 DEF Sound, OneFolder
  <2>3. message.folder \in {NoFolder, g_mount.folder}
    BY <1>10, <2>2 DEF Agrees
  <2> QED
    BY <1>1, <1>3, <1>9, <2>2, <2>3 DEF Agrees
<1>13. Sound(p)'
  BY <1>7, <1>8, <1>11, <1>12 DEF Sound
<1> QED
  BY <1>1, <1>4, <1>13, Types, Frame

LEMMA DeliverHandled ==
    ASSUME IInv, NEW p \in Pid, Deliver(p), phase[p] = "set up", UNCHANGED <<phase, told>>,
           LET message == Head(toProcess[p])
           IN  \/ message.kind = "mount" /\ MountLocalFs(p, message.folder)
               \/ message.kind = "unmount" /\ message.on /\ UnmountLocalFs(p)
               \/ message.kind = "unmount" /\ ~message.on /\ Nothing
    PROVE  IInv'
<1>0. PICK message \in ToProcess : message = Head(toProcess[p])
  BY Arrives
<1>1. /\ \/ message.kind = "mount" /\ MountLocalFs(p, message.folder)
         \/ message.kind = "unmount" /\ message.on /\ UnmountLocalFs(p)
         \/ message.kind = "unmount" /\ ~message.on /\ Nothing
      /\ message.on \in BOOLEAN /\ message.folder \in MayBe
  BY <1>0 DEF ToProcess
<1>2. /\ UNCHANGED page /\ UNCHANGED processes /\ g_mount' = g_mount /\ shown' = shown
      /\ ui' = ui /\ replaced' = replaced
  BY Arrives DEF page
<1>3. Sound(p) /\ p \in Live /\ (p \in Live)' /\ ~NotBegun(p)' /\ ~New(p)'
  BY Arrives DEF Live, Known, NotBegun, New
<1>4. PICK f : f = message.folder
  OBVIOUS
<1>5. /\ local' \in [Pid -> MayBe] /\ toPage' \in [Pid -> Seq(ToPage)]
      /\ refused' \in BOOLEAN /\ (refused => refused')
      /\ \A q \in Pid : q # p => toPage'[q] = toPage[q] /\ local'[q] = local[q]
      /\ local'[p] \in {local[p], f, NoFolder}
      /\ Believed(p)'
      /\ \A r \in Reporting : Has(toPage[p], r) => Has(toPage'[p], r)
  <2>1. CASE Nothing
    BY <1>2, <1>3, <2>1, Types DEF Nothing, Sound, Believed, Mounted
  <2>2. CASE MountLocalFs(p, message.folder)
    BY <1>1, <1>2, <1>4, <2>2, Mounts
  <2>3. CASE UnmountLocalFs(p)
    BY <1>2, <2>3, Unmounts
  <2> QED
    BY <1>1, <2>1, <2>2, <2>3
<1>6. Typed' /\ Only(p)
  BY <1>2, <1>5, Types, Arrives DEF Typed, Only
<1>7. Coming(p) => Coming(p)'
  <2>1. Has(toPage[p], "mounted") => Has(toPage'[p], "mounted")
    BY <1>5 DEF Reporting
  <2> QED
    BY <2>1 DEF Coming
<1>8. processes[p] /\ Going(p) => refused' \/ Going(p)'
  <2>1. CASE \E r \in Reporting : Has(toPage[p], r)
    BY <1>5, <2>1 DEF Going
  <2>2. CASE Says(toProcess'[p], "unmount", TRUE)
    BY <2>2 DEF Going
  <2>3. CASE message.kind = "unmount" /\ message.on
    <3>1. UnmountLocalFs(p)
      BY <1>1, <2>3
    <3>2. CASE Mounted(p)
      BY <1>2, <3>1, <3>2, Unmounts DEF Going, Reporting
    <3>3. CASE ~Mounted(p) /\ \A r \in Reporting : ~Has(toPage[p], r)
      <4>1. PICK l : l = Mounted(p)
        OBVIOUS
      <4>2. PICK b : b = processes[p]
        OBVIOUS
      <4>3. Believes(toPage[p], b, l)
        BY <1>3, <4>1, <4>2 DEF Sound, Believed
      <4>4. b = l
        BY <3>3, <4>3, BelievesQuiet
      <4> QED
        BY <3>3, <4>1, <4>2, <4>4
    <3> QED
      BY <2>1, <3>2, <3>3
  <2>4. Says(toProcess[p], "unmount", TRUE)
          => (message.kind = "unmount" /\ message.on) \/ Says(toProcess'[p], "unmount", TRUE)
    BY <1>0, Takes
  <2> QED
    BY <2>1, <2>2, <2>3, <2>4 DEF Going
<1>9. Shown(p)' /\ Hidden(p)'
  BY <1>2, <1>3, <1>5, <1>7, <1>8 DEF Sound, Shown, Hidden
<1>10. Has(toProcess[p], message) /\ message.kind # "reply"
  BY <1>0, <1>1, Arrives
<1>11. Untouched(p)' /\ Fresh(p)'
  <2>1. ~Blank(p)
    BY <1>10 DEF Blank
  <2> QED
    BY <1>2, <1>3, <2>1 DEF Sound, Untouched, Fresh
<1>12. OneFolder(p)'
  <2>1. replaced \/ f \in {NoFolder, g_mount.folder}
    BY <1>3, <1>4, <1>10 DEF Sound, OneFolder, Agrees
  <2>2. \A m \in ToProcess : Has(toProcess'[p], m) => Has(toProcess[p], m)
    BY Arrives
  <2> QED
    BY <1>2, <1>3, <1>5, <2>1, <2>2, KeepsFolder
<1>13. Sound(p)'
  BY <1>3, <1>5, <1>9, <1>11, <1>12 DEF Sound, BeginsEmpty, NewHasNothing
<1> QED
  BY <1>2, <1>5, <1>6, <1>13, Frame

LEMMA DeliverIgnored ==
    ASSUME IInv, NEW p \in Pid, Deliver(p), Nothing, UNCHANGED <<phase, told>>,
           IF Head(toProcess[p]).kind = "reply" THEN phase[p] = "ended" ELSE phase[p] # "set up"
    PROVE  IInv'
<1>1. /\ UNCHANGED <<local, toPage, refused>> /\ UNCHANGED processes /\ UNCHANGED page
      /\ g_mount' = g_mount /\ Sound(p) /\ phase[p] # "set up"
  BY Arrives DEF Nothing
<1>2. Typed' /\ Only(p)
  BY <1>1, Types, Arrives DEF Typed, Only
<1>3. /\ NotBegun(p)' <=> NotBegun(p)
      /\ New(p)' <=> New(p)
      /\ p \in Live' <=> p \in Live
      /\ Mounted(p)' <=> Mounted(p)
  BY <1>1 DEF NotBegun, New, Live, Known, Mounted
<1>4. /\ \A k, o : Says(toProcess'[p], k, o) => Says(toProcess[p], k, o)
      /\ \A m \in ToProcess : Has(toProcess'[p], m) => Has(toProcess[p], m)
  BY Takes, Arrives
<1>5. (Coming(p) => Coming(p)') /\ (Going(p) => Going(p)')
  BY <1>1, <1>4 DEF Coming, Going
<1>6. Believed(p)' /\ BeginsEmpty(p)' /\ NewHasNothing(p)'
  <2>1. Believed(p)' /\ NewHasNothing(p)'
    BY <1>1, <1>3 DEF Sound, Believed, NewHasNothing, Mounted
  <2>2. BeginsEmpty(p)'
    BY <1>1, <1>3, <1>4 DEF Sound, BeginsEmpty
  <2> QED
    BY <2>1, <2>2
<1>7. Shown(p)' /\ Hidden(p)'
  BY <1>1, <1>3, <1>5 DEF Sound, Shown, Hidden
<1>8. Fresh(p)' /\ OneFolder(p)'
  BY <1>1, <1>3, <1>4, Keeps
<1>9. Untouched(p)'
  BY <1>1, <1>4, KeepsBlank
<1> QED
  BY <1>1, <1>2, <1>6, <1>7, <1>8, <1>9, Types, Frame DEF Sound

LEMMA DeliverStep ==
    ASSUME IInv, NEW p \in Pid, Deliver(p)
    PROVE  IInv'
  BY DeliverReply, DeliverHandled, DeliverIgnored DEF Deliver

LEMMA NextInv == IInv /\ [Next]_vars => IInv'
<1> SUFFICES ASSUME IInv, [Next]_vars PROVE IInv'
  OBVIOUS
<1>1. CASE User
  <2>1. CASE handleMount
    BY <2>1, HandleMountStep
  <2>2. CASE handleUnmount
    BY <2>2, HandleUnmountStep
  <2>3. CASE chooseFolderClicked
    BY <2>3, ChooseFolderClickedStep
  <2> QED
    BY <1>1, <2>1, <2>2, <2>3 DEF User
<1>2. CASE Browser
  <2>1. CASE FolderStored
    BY <2>1, FolderStoredStep
  <2>2. CASE RestoreNone
    BY <2>2, RestoreNoneStep
  <2>3. CASE \E f \in Folder : handleChooseFolder(f) \/ restoreMount(f)
    BY <2>3, HandleChooseFolderStep, RestoreMountStep
  <2> QED
    BY <1>2, <2>1, <2>2, <2>3 DEF Browser
<1>3. ASSUME NEW p \in Pid, Spawn(p) \/ handleMessage(p) \/ Collect(p)
      PROVE  IInv'
  <2>1. CASE Spawn(p)
    BY <2>1, NewImageStep DEF Spawn
  <2>2. CASE handleMessage(p)
    BY <2>2, HandleMessageStep
  <2>3. CASE Collect(p)
    BY <2>3, CollectStep
  <2> QED
    BY <1>3, <2>1, <2>2, <2>3
<1>4. ASSUME NEW p \in Pid,
             AskMountFs(p) \/ FinishMountFs(p) \/ Deliver(p) \/ End(p) \/ Exec(p)
      PROVE  IInv'
  <2>1. CASE AskMountFs(p)
    BY <2>1, AskMountFsStep
  <2>2. CASE FinishMountFs(p)
    BY <2>2, FinishMountFsStep
  <2>3. CASE Deliver(p)
    BY <2>3, DeliverStep
  <2>4. CASE End(p)
    BY <2>4, EndStep
  <2>5. CASE Exec(p)
    BY <2>5, ExecStep
  <2> QED
    BY <1>4, <2>1, <2>2, <2>3, <2>4, <2>5
<1>5. CASE UNCHANGED vars
  <2>1. /\ UNCHANGED page /\ UNCHANGED <<processes, phase, told, local, toProcess, toPage, refused>>
    BY <1>5 DEF vars, process
  <2>2. UNCHANGED <<g_mount, shown, ui, choosing, clicks, replaced>>
    BY <2>1 DEF page
  <2>3. TypeOK'
    BY <2>1, <2>2, ZenonT(60) DEF IInv, TypeOK
  <2>4. ButtonsOK'
    BY <2>2 DEF IInv, ButtonsOK
  <2>5. ASSUME NEW p \in Pid
        PROVE  Sound(p)'
    <3>1. /\ Coming(p)' <=> Coming(p)
          /\ Going(p)' <=> Going(p)
          /\ Blank(p)' <=> Blank(p)
          /\ Agrees(p)' <=> Agrees(p)
          /\ p \in Live' <=> p \in Live
      BY <2>1, <2>2 DEF Coming, Going, Blank, Agrees, Mounted, Live, Known
    <3>2. Sound(p)
      BY DEF IInv
    <3>3. (Believed(p) /\ BeginsEmpty(p) /\ NewHasNothing(p))'
      BY <2>1, <3>2 DEF Sound, Believed, BeginsEmpty, NewHasNothing, New, NotBegun, Mounted
    <3>4. (Shown(p) /\ Hidden(p) /\ Untouched(p) /\ Fresh(p) /\ OneFolder(p))'
      BY <2>1, <2>2, <3>1, <3>2 DEF Sound, Shown, Hidden, Untouched, Fresh, OneFolder
    <3> QED
      BY <3>3, <3>4 DEF Sound
  <2> QED
    BY <2>3, <2>4, <2>5 DEF IInv
<1> QED
  BY <1>1, <1>2, <1>3, <1>4, <1>5 DEF Next

-----------------------------------------------------------------------------
(* What the model promises *)

\* The invariant holds in every state the page, the process manager and the
\* processes can reach.
THEOREM Invariance == Spec => []IInv
  BY InitInv, NextInv, PTL DEF Spec

\* The variables keep their types.
THEOREM TypeCorrect == Spec => []TypeOK
<1>1. IInv => TypeOK
  BY DEF IInv
<1> QED
  BY <1>1, Invariance, PTL

LEMMA QuietBelief ==
    ASSUME IInv, NEW p \in Live, toPage[p] = <<>>
    PROVE  processes[p] <=> Mounted(p)
<1>1. p \in Pid
  BY Types
<1>2. PICK b : b = processes[p]
  OBVIOUS
<1>3. PICK l : l = Mounted(p)
  OBVIOUS
<1>4. Believes(<<>>, b, l)
  BY <1>1, <1>2, <1>3 DEF IInv, Sound, Believed
<1>5. b = l
  BY <1>4, BelievesEmpty
<1> QED
  BY <1>2, <1>3, <1>5

\* What the process manager notes of mounts (processes, naclprocess.js) agrees with
\* the mounts of every live process whose reports have arrived, however many
\* processes mount, unmount, miss a message that came before their handlers, or are
\* replaced, and whichever folders are chosen meanwhile.
THEOREM Reports == Spec => []ReportsAreTrue
<1>1. IInv => ReportsAreTrue
  BY QuietBelief DEF ReportsAreTrue, Mounted
<1> QED
  BY <1>1, Invariance, PTL

\* When nothing is under way, and the page shows the folder as mounted, every live
\* process has a folder, also one that was set up while the others mounted it; and
\* it has the folder that is shown, unless that took the place of one in use
\* (handleChooseFolder, bash.js).
THEOREM ShownIsMounted == Spec => []MountedEverywhere
<1>1. IInv => MountedEverywhere
  <2> SUFFICES ASSUME IInv, Quiet, g_mount.available, g_mount.mounted, ~refused, NEW p \in Live
               PROVE  local[p] # NoFolder /\ (~replaced => local[p] = g_mount.folder)
    BY DEF MountedEverywhere
  <2>1. p \in Pid /\ Sound(p)
    BY Types DEF IInv
  <2>2. phase[p] = "set up" /\ toPage[p] = <<>>
    BY DEF Quiet
  <2>3. ~Coming(p)
    BY <2>2, HasEmpty DEF Coming
  <2>4. processes[p]
    BY <2>1, <2>3 DEF Sound, Shown
  <2>5. local[p] # NoFolder
    BY <2>2, <2>4, QuietBelief DEF Mounted
  <2>6. ~replaced => local[p] \in {NoFolder, g_mount.folder}
    BY <2>1 DEF Sound, OneFolder, Agrees
  <2> QED
    BY <2>5, <2>6
<1> QED
  BY <1>1, Invariance, PTL

\* When nothing is under way, a folder that some live process has and the page
\* does not offer can be unmounted: the page has its buttons, and that one is
\* enabled.
THEOREM StillUnmountable == Spec => []CanBeUnmounted
<1>1. IInv => CanBeUnmounted
  <2> SUFFICES ASSUME IInv, Quiet, ~g_mount.available, ~refused, NEW p \in Live,
                      local[p] # NoFolder
               PROVE  shown = "yes" /\ ui.unmount
    BY DEF CanBeUnmounted
  <2>1. p \in Pid /\ Sound(p)
    BY Types DEF IInv
  <2>2. phase[p] = "set up" /\ toPage[p] = <<>> /\ toProcess[p] = <<>>
    BY DEF Quiet
  <2>3. ~Going(p)
    BY <2>2, HasEmpty DEF Going, Says
  <2>4. processes[p]
    BY <2>2, QuietBelief DEF Mounted
  <2>5. g_mount.mounted
    BY <2>1, <2>3, <2>4 DEF Sound, Hidden
  <2>6. shown = "yes"
    BY <2>1, <2>4 DEF Sound, Untouched, Blank
  <2> QED
    BY <2>5, <2>6 DEF IInv, ButtonsOK
<1> QED
  BY <1>1, Invariance, PTL
=============================================================================
