--------------------------- MODULE ProcessManager ---------------------------
(***************************************************************************)
(* The process manager (build_tools/naclprocess.js): the tables that stand *)
(* for a Unix kernel while every process is an <object> element of a page. *)
(*                                                                         *)
(* JavaScript runs one handler at a time, so a handler is one action.  What *)
(* interleaves is everything around it: spawn() answers from a callback,   *)
(* waitpid() answers when a child exits, the elements send messages, crash  *)
(* and are closed by the user in any order, and an image that is replaced  *)
(* (P_OVERLAY) leaves its element behind in variables that still name it.  *)
(*                                                                         *)
(* An element is known by the order of its creation.  When a handler throws *)
(* the reply is never sent: the thread that waits for it stays in          *)
(* `requests` for good, with the mode "lost", or "refused" when it asked for *)
(* a dead process and the browser has no PNaCl.                            *)
(***************************************************************************)
EXTENDS Integers, Sequences, FiniteSets

CONSTANTS MaxPid,       \* bound: process ids
          MaxElement,   \* bound: elements created in a behaviour
          Thread,       \* the threads of an image
          AllowOverlay, \* whether images replace themselves (P_OVERLAY)
          AnyGroup      \* whether setpgid may name a group with no other member

ASSUME ProcessManagerAssumption ==
    /\ MaxPid \in Nat \ {0} /\ MaxElement \in Nat
    /\ AllowOverlay \in BOOLEAN /\ AnyGroup \in BOOLEAN

VARIABLES processes,         \* pid -> the entry of a process, running or zombie
          processGroups,     \* pgid -> [sid, processes]
          waiters,           \* key -> the waitpid calls filed under it
          pid,               \* the next process id
          foregroundProcess, \* the element that gets the input, 0 if there is none
          elements,          \* element -> its pid (-1 when terminated), parent, place
                             \* and popup window
          requests           \* the calls that have not been answered

vars == <<processes, processGroups, waiters, pid, foregroundProcess, elements,
          requests>>

-----------------------------------------------------------------------------
(* Data *)

INIT_PID == 1

Pid     == 2 .. MaxPid
Key     == Pid \cup {-1} \cup {-g : g \in Pid}  \* what waitpid can wait for
Element == 1 .. MaxElement

Process == [domElement : Element, exited : BOOLEAN, pgid : Pid, ppid : Pid \cup {INIT_PID}]
Group   == [sid : Pid, processes : SUBSET Pid]
Waiter  == [srcPid : Pid \cup {INIT_PID}, elem : Element \cup {0}, thread : Thread]
Node    == [pid : Pid \cup {-1}, parent : Element \cup {0}, attached : BOOLEAN,
            popup : {"none", "opening", "open"}]
Request == [elem : Element, thread : Thread, pid : Pid,
            mode : {"new", "overlay", "dead", "lost", "refused"}]

\* The thread is not going to be answered.
Hung == {"lost", "refused"}

Exists(p)  == p \in DOMAIN processes
Running(p) == Exists(p) /\ ~processes[p].exited
Zombie(p)  == Exists(p) /\ processes[p].exited

\* processGroups[processes[p].pgid] is there, and it lists p.
Grouped(p) == Exists(p) /\ processes[p].pgid \in DOMAIN processGroups
InGroup(p) == Grouped(p) /\ p \in processGroups[processes[p].pgid].processes

Sid(p) == processGroups[processes[p].pgid].sid

\* The waits that the exit of a process with this pid and group answers.
KeysOf(p, pgid) == {p, -1, -pgid}

Matches(p, key) == key \in KeysOf(p, processes[p].pgid)

\* A thread that can issue a call: its element is in the page, and it is not
\* blocked in waitpid or spawn.
Ready(e, t) ==
    /\ e \in DOMAIN elements /\ elements[e].attached
    /\ \A r \in requests : ~(r.elem = e /\ r.thread = t)
    /\ \A k \in Key : \A w \in waiters[k] : ~(w.elem = e /\ w.thread = t)

Without(f, x) == [y \in DOMAIN f \ {x} |-> f[y]]

With(f, x, v) == [y \in DOMAIN f \cup {x} |-> IF y = x THEN v ELSE f[y]]

-----------------------------------------------------------------------------
(* Process groups *)

\* Mutant: a group without processes stays in the table.
LeftKeepsEmpty(p) == [processGroups EXCEPT ![processes[p].pgid].processes = @ \ {p}]

\* deleteProcessFromGroup, for a process that is in its group.
Left(p) ==
    LET g    == processes[p].pgid
        rest == processGroups[g].processes \ {p}
    IN  IF rest = {} THEN Without(processGroups, g)
                     ELSE [processGroups EXCEPT ![g].processes = rest]

\* createProcessGroup
NewGroup(leader, sid) == [sid |-> sid, processes |-> {leader}]

Related(src, p) == Running(p) /\ (src = p \/ src = processes[p].ppid)

SameSession(p, g) == g \in DOMAIN processGroups => processGroups[g].sid = Sid(p)

\* Mutant: the session of the new group is not checked.
SetPGIDAnySession(src, p, g) ==
    Related(src, p) /\ Grouped(p) /\ Grouped(src) /\ Sid(src) = Sid(p) /\ Sid(p) # p

\* The checks of setpgid(p, g) called by process src.
SetPGIDAllowed(src, p, g) ==
    /\ Related(src, p) /\ Grouped(p) /\ Grouped(src)
    /\ SameSession(p, g)
    /\ Sid(src) = Sid(p)
    /\ Sid(p) # p

\* A group the callers of setpgid name: their own, or one that is in use.
Sensible(p, g) ==
    g = p \/ (g \in DOMAIN processGroups /\ processGroups[g].processes \ {p} # {})

SetPGID(e, t, p, g) ==
    /\ Ready(e, t)
    /\ SetPGIDAllowed(elements[e].pid, p, g) /\ InGroup(p)
    /\ AnyGroup \/ Sensible(p, g)
    /\ LET groups == Left(p)
       IN  processGroups' =
             IF g \in DOMAIN groups
             THEN [groups EXCEPT ![g].processes = @ \cup {p}]
             ELSE With(groups, g, NewGroup(g, Sid(p)))
    /\ processes' = [processes EXCEPT ![p].pgid = g]
    /\ UNCHANGED <<waiters, pid, foregroundProcess, elements, requests>>

SetSID(e, t) ==
    LET p == elements[e].pid
    IN  /\ Ready(e, t)
        /\ p \notin DOMAIN processGroups
        /\ InGroup(p)
        /\ processGroups' = With(Left(p), p, NewGroup(p, p))
        /\ processes' = [processes EXCEPT ![p].pgid = p]
        /\ UNCHANGED <<waiters, pid, foregroundProcess, elements, requests>>

\* setpgid or setsid finds a process that is not in its group and throws.
SetIdThrows(e, t, p, g) ==
    LET src == elements[e].pid
    IN  /\ Ready(e, t)
        /\ \/ /\ Related(src, p)
              /\ \/ ~Grouped(p)
                 \/ Grouped(p) /\ SameSession(p, g) /\ ~Grouped(src)
                 \/ SetPGIDAllowed(src, p, g) /\ ~InGroup(p)
           \/ src \notin DOMAIN processGroups /\ ~InGroup(src)
        /\ requests' = requests \cup
               {[elem |-> e, thread |-> t, pid |-> src, mode |-> "lost"]}
        /\ UNCHANGED <<processes, processGroups, waiters, pid, foregroundProcess,
                       elements>>

-----------------------------------------------------------------------------
(* spawn *)

\* The root process, spawned by the page and waited for by the page.
SpawnRoot ==
    /\ elements = <<>>
    /\ MaxElement > 0 /\ pid <= MaxPid
    /\ processes' = With(processes, pid,
           [domElement |-> 1, exited |-> FALSE, pgid |-> pid, ppid |-> INIT_PID])
    /\ processGroups' = With(processGroups, pid, NewGroup(pid, pid))
    /\ elements' = <<[pid |-> pid, parent |-> 0, attached |-> TRUE, popup |-> "none"]>>
    /\ foregroundProcess' = 1
    /\ \E t \in Thread : waiters' = [waiters EXCEPT ![pid] =
           @ \cup {[srcPid |-> INIT_PID, elem |-> 0, thread |-> t]}]
    /\ pid' = pid + 1
    /\ UNCHANGED <<requests>>

\* A thread sends nacl_spawn or nacl_deadpid and blocks.  The page asks the
\* browser for the architecture and the manifest and goes on later.
Request_(e, t, mode) ==
    /\ Ready(e, t)
    /\ mode = "overlay" => AllowOverlay
    /\ mode # "overlay" =>
          pid + Cardinality({r \in requests : r.mode \in {"new", "dead"}}) <= MaxPid
    /\ Len(elements) + Cardinality({r \in requests : r.mode \notin Hung}) < MaxElement
    /\ requests' = requests \cup
           {[elem |-> e, thread |-> t, pid |-> elements[e].pid, mode |-> mode]}
    /\ UNCHANGED <<processes, processGroups, waiters, pid, foregroundProcess,
                   elements>>

\* The thread of request r never hears of it again.
Lost(r) == (requests \ {r}) \cup {[r EXCEPT !.mode = "lost"]}

\* The entry of a process that request r creates.
Child(r) == LET ppid == elements[r.elem].pid
            IN  [domElement |-> Len(elements) + 1, exited |-> FALSE,
                 pgid |-> processes[ppid].pgid, ppid |-> ppid]

HasRoom == pid <= MaxPid /\ Len(elements) < MaxElement

\* A new element takes the input from the element that spawned it, unless its
\* standard input is a pipe.
Foreground(r, new, routesStdin) ==
    IF ~routesStdin /\ foregroundProcess \in {0, r.elem} THEN new ELSE foregroundProcess

\* The element of an image that starts: in the page at once, or in a window of its
\* own (NACL_SPAWN_MODE=popup) when that window is there.
Image(p, parent, inPopup) ==
    [pid |-> p, parent |-> parent, attached |-> ~inPopup,
     popup |-> IF inPopup THEN "opening" ELSE "none"]

\* An element that is in no page and has no process.
Gone(parent) == [pid |-> -1, parent |-> parent, attached |-> FALSE, popup |-> "none"]

\* The callback of spawn() creates a process.
SpawnNew(r, routesStdin, inPopup) ==
    LET ppid == elements[r.elem].pid
    IN  /\ r.mode = "new" /\ Grouped(ppid) /\ HasRoom
        /\ processes' = With(processes, pid, Child(r))
        /\ processGroups' = [processGroups EXCEPT
               ![processes[ppid].pgid].processes = @ \cup {pid}]
        /\ elements' = Append(elements, Image(pid, r.elem, inPopup))
        /\ foregroundProcess' = Foreground(r, Len(elements) + 1, routesStdin)
        /\ pid' = pid + 1
        /\ requests' = requests \ {r}
        /\ UNCHANGED <<waiters>>

\* The callback throws: the process that asked has gone, or only its group has,
\* in which case the new process is in the table already.
SpawnThrows(r) ==
    LET ppid == elements[r.elem].pid
    IN  /\ r.mode \in {"new", "dead"} /\ ~Grouped(ppid) /\ HasRoom
        /\ processes' = IF Exists(ppid) THEN With(processes, pid, Child(r)) ELSE processes
        /\ elements' = IF Exists(ppid)
                       THEN Append(elements, Gone(0))
                       ELSE elements
        /\ pid' = pid + 1
        /\ requests' = Lost(r)
        /\ UNCHANGED <<processGroups, waiters, foregroundProcess>>

\* In overlay mode the element of the process is replaced.
SpawnOverlay(r, routesStdin, inPopup) ==
    /\ r.mode = "overlay" /\ Len(elements) < MaxElement
    /\ Exists(r.pid) /\ elements[processes[r.pid].domElement].attached
    /\ LET old == processes[r.pid].domElement
           new == Len(elements) + 1
       IN  /\ elements' = Append([elements EXCEPT ![old].attached = FALSE],
                  Image(r.pid, elements[old].parent, inPopup))
           /\ processes' = [processes EXCEPT ![r.pid].domElement = new]
           /\ foregroundProcess' = Foreground(r, new, routesStdin)
    /\ requests' = requests \ {r}
    /\ UNCHANGED <<processGroups, waiters, pid>>

\* The process to be replaced has exited meanwhile or another thread has replaced
\* it by an image whose window is not there yet: the element is in no page, or the
\* entry is deleted.
OverlayThrows(r) ==
    /\ r.mode = "overlay"
    /\ ~(Exists(r.pid) /\ elements[processes[r.pid].domElement].attached)
    /\ requests' = Lost(r)
    /\ UNCHANGED <<processes, processGroups, waiters, pid, foregroundProcess,
                   elements>>

\* Mutant: the caller is not told.
SpawnRefusedSilently(r) ==
    /\ r.mode \in {"new", "overlay"}
    /\ requests' = Lost(r)
    /\ UNCHANGED <<processes, processGroups, waiters, pid, foregroundProcess,
                   elements>>

\* The popup of element e opens and takes the element in.  (The window of a process
\* that ended before is left out: its image has no pid to act for.)
PopupOpens(e) ==
    /\ elements[e].popup = "opening" /\ elements[e].pid # -1
    /\ elements' = [elements EXCEPT ![e].popup = "open", ![e].attached = TRUE]
    /\ UNCHANGED <<processes, processGroups, waiters, pid, foregroundProcess, requests>>

\* No such program, or a browser that cannot run it: the caller gets an error.
SpawnRefused(r) ==
    /\ r.mode \in {"new", "overlay"}
    /\ requests' = requests \ {r}
    /\ UNCHANGED <<processes, processGroups, waiters, pid, foregroundProcess,
                   elements>>

-----------------------------------------------------------------------------
(* exit *)

\* The calls that the exit of a child of ppid answers.
Answered(p, pgid, ppid) ==
    {w \in UNION {waiters[k] : k \in KeysOf(p, pgid)} : w.srcPid = ppid}

\* The waiters that stay.
StillWaiting(p, pgid, ppid) ==
    [k \in Key |-> IF k \in KeysOf(p, pgid)
                   THEN {w \in waiters[k] : w.srcPid # ppid} ELSE waiters[k]]

\* The table after process p exits: the entry stays if nobody got the status.
Buried(p, got) == IF got # {} THEN Without(processes, p)
                              ELSE [processes EXCEPT ![p].exited = TRUE]

\* Mutant: the parent, whether or not it is still there.
Parent(e) == elements[e].parent

\* The nearest ancestor of element e that is not terminated, 0 if there is none.
LiveAncestor(e) ==
    LET up[x \in 0 .. Len(elements)] ==
          IF x = 0 THEN 0
          ELSE IF elements[x].pid # -1 THEN x ELSE up[elements[x].parent]
    IN  up[elements[e].parent]

\* What exit leaves of an element.
Ended(node) == [node EXCEPT !.pid = -1, !.attached = FALSE,
                            !.popup = IF @ = "opening" THEN @ ELSE "none"]

\* The end of the process of element e.  A popup whose window is not there yet
\* throws when it is destroyed, which is before the input is handed on.
Exit(e) ==
    LET p    == elements[e].pid
        proc == processes[p]
        got  == Answered(p, proc.pgid, proc.ppid)
    IN  /\ InGroup(p)
        /\ processGroups' = Left(p)
        /\ waiters' = StillWaiting(p, proc.pgid, proc.ppid)
        /\ processes' = Buried(p, got)
        /\ elements' = [elements EXCEPT ![e] = Ended(@)]
        /\ foregroundProcess' =
              IF foregroundProcess = e /\ elements[e].popup # "opening"
              THEN LiveAncestor(e) ELSE foregroundProcess
        /\ UNCHANGED <<pid, requests>>

\* The module says it has exited, crashes, fails to load, does not load in time or
\* is closed.
ModuleEnds(e) == (elements[e].attached \/ elements[e].popup = "opening") /\ Exit(e)

\* The user closes the window of an image that exec has replaced.
PopupCloses(e) == elements[e].popup = "open" /\ ~elements[e].attached /\ Exit(e)

\* The end of a process that is not in its group: exit throws, the process stays
\* in the tables and its threads are gone.
ModuleEndsUnheard(e) ==
    /\ elements[e].attached /\ ~InGroup(elements[e].pid)
    /\ requests' = requests \cup {[elem |-> e, thread |-> t, pid |-> elements[e].pid,
                                   mode |-> "lost"] : t \in Thread}
    /\ UNCHANGED <<processes, processGroups, waiters, pid, foregroundProcess,
                   elements>>

\* Control-C kills the foreground process, but not the root.  The element in
\* front may be one that exec has taken out of the page, or whose window is not
\* there yet.
Sigint(e) ==
    /\ foregroundProcess = e /\ elements[e].parent # 0 /\ ~elements[e].attached
    /\ Exit(e)

\* nacl_deadpid: a child that is created and exits in one step.
DeadPid(r) ==
    LET child == Child(r)
        got   == Answered(pid, child.pgid, child.ppid)
    IN  /\ r.mode = "dead" /\ Grouped(elements[r.elem].pid) /\ HasRoom
        /\ waiters' = StillWaiting(pid, child.pgid, child.ppid)
        /\ processes' = IF got # {} THEN processes
                        ELSE With(processes, pid, [child EXCEPT !.exited = TRUE])
        /\ elements' = Append(elements, Gone(r.elem))
        /\ foregroundProcess' = Foreground(r, r.elem, FALSE)
        /\ pid' = pid + 1
        /\ requests' = requests \ {r}
        /\ UNCHANGED processGroups

\* A browser without PNaCl refuses it: the callback is handed no element and throws
\* in exit, before it answers.
DeadPidRefused(r) ==
    /\ r.mode = "dead"
    /\ requests' = (requests \ {r}) \cup {[r EXCEPT !.mode = "refused"]}
    /\ UNCHANGED <<processes, processGroups, waiters, pid, foregroundProcess,
                   elements>>

-----------------------------------------------------------------------------
(* waitpid *)

\* The key under which waitpid(arg) by process src looks.
KeyFor(src, arg) == IF arg = 0 THEN -processes[src].pgid ELSE arg

IsChild(p, src) == Exists(p) /\ processes[p].ppid = src

\* A finished child answers the call and leaves the table: the one that is
\* named, or the one with the smallest pid.
WaitCollects(e, t, arg) ==
    LET src  == elements[e].pid
        done == {p \in DOMAIN processes : /\ Zombie(p) /\ IsChild(p, src)
                                          /\ Matches(p, KeyFor(src, arg))}
    IN  /\ Ready(e, t)
        /\ arg = 0 => Exists(src)
        /\ \E p \in done : /\ \A q \in done : p <= q
                           /\ processes' = Without(processes, p)
        /\ UNCHANGED <<processGroups, waiters, pid, foregroundProcess, elements, requests>>

\* Mutant: the finished children are not looked at.
WaitBlocksBlindly(e, t, arg) ==
    /\ Ready(e, t)
    /\ arg = 0 => Exists(elements[e].pid)
    /\ arg > 0 => IsChild(arg, elements[e].pid) /\ Running(arg)
    /\ waiters' = [waiters EXCEPT ![KeyFor(elements[e].pid, arg)] = @ \cup
           {[srcPid |-> elements[e].pid, elem |-> e, thread |-> t]}]
    /\ UNCHANGED <<processes, processGroups, pid, foregroundProcess, elements,
                   requests>>

\* Without WNOHANG the call is filed until a child exits.
WaitBlocks(e, t, arg) ==
    LET src == elements[e].pid
        key == KeyFor(src, arg)
    IN  /\ Ready(e, t)
        /\ arg = 0 => Exists(src)
        /\ arg > 0 => IsChild(arg, src)
        /\ \A p \in DOMAIN processes :
              Zombie(p) /\ IsChild(p, src) => ~Matches(p, key)
        /\ waiters' = [waiters EXCEPT ![key] = @ \cup
               {[srcPid |-> src, elem |-> e, thread |-> t]}]
        /\ UNCHANGED <<processes, processGroups, pid, foregroundProcess, elements,
                       requests>>

-----------------------------------------------------------------------------
Init ==
    /\ processes = << >> /\ processGroups = << >>
    /\ waiters = [k \in Key |-> {}]
    /\ pid = 2
    /\ foregroundProcess = 0
    /\ elements = <<>>
    /\ requests = {}

\* The browser calls back for request r.
Complete(r) ==
    \/ \E routesStdin, inPopup \in BOOLEAN : SpawnNew(r, routesStdin, inPopup)
    \/ SpawnThrows(r)
    \/ \E routesStdin, inPopup \in BOOLEAN : SpawnOverlay(r, routesStdin, inPopup)
    \/ OverlayThrows(r)
    \/ SpawnRefused(r)
    \/ DeadPid(r)
    \/ DeadPidRefused(r)

Next ==
    \/ SpawnRoot
    \/ \E e \in DOMAIN elements, t \in Thread :
          \/ \E mode \in {"new", "overlay", "dead"} : Request_(e, t, mode)
          \/ \E p, g \in Pid : SetPGID(e, t, p, g) \/ SetIdThrows(e, t, p, g)
          \/ SetSID(e, t)
          \/ \E arg \in Key \cup {0} : WaitCollects(e, t, arg) \/ WaitBlocks(e, t, arg)
    \/ \E r \in requests : Complete(r)
    \/ \E e \in DOMAIN elements :
          \/ ModuleEnds(e) \/ ModuleEndsUnheard(e) \/ Sigint(e)
          \/ PopupOpens(e) \/ PopupCloses(e)

Spec == Init /\ [][Next]_vars

\* The browser answers every question the page asks it.
Fairness == \A r \in Request : WF_vars(r \in requests /\ Complete(r))

FairSpec == Spec /\ Fairness

-----------------------------------------------------------------------------
(* Properties *)

\* The types of the variables (build_tools/naclprocess.js:159-209).
TypeOK ==
    /\ DOMAIN processes \subseteq Pid /\ processes \in [DOMAIN processes -> Process]
    /\ DOMAIN processGroups \subseteq Pid
    /\ processGroups \in [DOMAIN processGroups -> Group]
    /\ waiters \in [Key -> SUBSET Waiter]
    /\ pid \in 2 .. (MaxPid + 1)
    /\ elements \in Seq(Node) /\ Len(elements) <= MaxElement
    /\ foregroundProcess \in 0 .. Len(elements)
    /\ requests \subseteq Request

\* Nobody waits for what has already happened: no call is filed under a key
\* that a zombie child of the caller matches, in whatever order the child
\* exits, changes its group and the parent calls waitpid.
NoMissedExit ==
    \A k \in Key : \A w \in waiters[k] : \A p \in DOMAIN processes :
        Zombie(p) /\ processes[p].ppid = w.srcPid => ~Matches(p, k)

\* A call that waits for one pid waits for a child that still runs.
WaitedChildRuns ==
    \A p \in Pid : \A w \in waiters[p] : Running(p) /\ processes[p].ppid = w.srcPid

\* A group lists exactly the running processes that name it, and none is empty
\* (build_tools/naclprocess.js:174-175).
GroupMembership ==
    /\ \A p \in DOMAIN processes : ~processes[p].exited => InGroup(p)
    /\ \A g \in DOMAIN processGroups :
          /\ processGroups[g].processes # {}
          /\ \A p \in processGroups[g].processes : Running(p) /\ processes[p].pgid = g

\* The only way out of a session is to lead a new one: joining a group, moving
\* a child or the end of a group's leader never carries a process across.
SessionKept ==
    [][\A p \in DOMAIN processes \cap DOMAIN processes' :
          InGroup(p) /\ InGroup(p)' => Sid(p)' \in {Sid(p), p}]_vars

\* Exit has thrown on element e: its window was asked for and was not there.
StuckPopup(e) == elements[e].pid = -1 /\ elements[e].popup = "opening"

\* Unless exit threw on it, the element that gets the input has a process that
\* runs, it is the one the entry of its process names, and it is in a page or its
\* window is about to open (build_tools/naclprocess.js:1043-1056).
ForegroundRuns ==
    foregroundProcess # 0 =>
        \/ StuckPopup(foregroundProcess)
        \/ /\ \/ elements[foregroundProcess].attached
              \/ elements[foregroundProcess].popup = "opening"
           /\ Running(elements[foregroundProcess].pid)
           /\ processes[elements[foregroundProcess].pid].domElement = foregroundProcess

\* "The process which gets the input from the user."
\* (build_tools/naclprocess.js:168) is a process.
InputHasAProcess ==
    foregroundProcess # 0 => Running(elements[foregroundProcess].pid)

\* A thread that has asked for a process is told what became of it, unless its
\* own image ends first or it asked for a dead one where that is refused
\* (build_tools/naclprocess.js:652-701, 844-859).
SpawnAnswered ==
    \A e \in Element, t \in Thread :
        (\E r \in requests : r.elem = e /\ r.thread = t /\ r.mode # "refused")
          ~> \/ \A r \in requests : r.elem = e /\ r.thread = t => r.mode = "refused"
             \/ ~elements[e].attached
=============================================================================
