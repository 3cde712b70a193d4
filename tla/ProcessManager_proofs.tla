------------------------ MODULE ProcessManager_proofs ------------------------
(***************************************************************************)
(* Theorems about waitpid and exit, for every number of processes, threads *)
(* and elements, with and without exec, whatever setpgid is called with.   *)
(***************************************************************************)
EXTENDS ProcessManager, SequenceTheorems, WellFoundedInduction, TLAPS

USE ProcessManagerAssumption

\* The part of the types the argument needs.
TablesOK ==
    /\ DOMAIN processes \subseteq Pid /\ processes \in [DOMAIN processes -> Process]
    /\ DOMAIN processGroups \subseteq Pid
    /\ processGroups \in [DOMAIN processGroups -> Group]
    /\ waiters \in [Key -> SUBSET Waiter]
    /\ pid \in 2 .. (MaxPid + 1)
    /\ elements \in Seq(Node) /\ Len(elements) <= MaxElement
    /\ requests \subseteq Request

\* A pid is given out once, and every entry has its element.
EntriesOK ==
    \A p \in DOMAIN processes : p < pid /\ processes[p].domElement \in 1 .. Len(elements)

\* An element in the page has a pid.
AttachedHasPid == \A e \in DOMAIN elements : elements[e].attached => elements[e].pid # -1

\* Whoever is listed in a group is running and names that group, unless it is the
\* process whose id the group has (createProcessGroup lists that one unasked).
MembersRun ==
    \A g \in DOMAIN processGroups : \A p \in processGroups[g].processes :
        p = g \/ (Running(p) /\ processes[p].pgid = g)

IInv == /\ TablesOK /\ EntriesOK /\ AttachedHasPid /\ MembersRun
        /\ NoMissedExit /\ WaitedChildRuns

-----------------------------------------------------------------------------
(* Operators *)

LEMMA KeyFacts ==
    ASSUME NEW p \in Pid, NEW g \in Pid
    PROVE  /\ p \in Key /\ -1 \in Key /\ -g \in Key
           /\ -g \notin Pid /\ -1 \notin Pid
           /\ p # -1 /\ p # -g
  BY DEF Pid, Key

LEMMA LeftFacts ==
    ASSUME IInv, NEW p, InGroup(p)
    PROVE  /\ DOMAIN Left(p) \subseteq DOMAIN processGroups
           /\ Left(p) \in [DOMAIN Left(p) -> Group]
           /\ \A g \in DOMAIN Left(p) :
                 /\ Left(p)[g].processes \subseteq processGroups[g].processes
                 /\ g = processes[p].pgid => p \notin Left(p)[g].processes
<1> DEFINE h    == processes[p].pgid
           rest == processGroups[h].processes \ {p}
<1>1. /\ h \in DOMAIN processGroups /\ processGroups \in [DOMAIN processGroups -> Group]
      /\ rest \in SUBSET Pid
  BY DEF InGroup, Grouped, IInv, TablesOK, Group
<1>2. CASE rest = {}
  <2>1. Left(p) = [g \in DOMAIN processGroups \ {h} |-> processGroups[g]]
    BY <1>2 DEF Left, Without
  <2> QED
    BY <1>1, <2>1
<1>3. CASE rest # {}
  <2>1. Left(p) = [processGroups EXCEPT ![h].processes = rest]
    BY <1>3 DEF Left
  <2>2. /\ [processGroups[h] EXCEPT !.processes = rest] \in Group
        /\ [processGroups[h] EXCEPT !.processes = rest].processes = rest
    BY <1>1 DEF Group
  <2> HIDE DEF h, rest
  <2>3. \A g \in DOMAIN processGroups : Left(p)[g] =
           IF g = h THEN [processGroups[h] EXCEPT !.processes = rest] ELSE processGroups[g]
    BY <1>1, <2>1
  <2>4. DOMAIN Left(p) = DOMAIN processGroups
    BY <2>1
  <2>5. rest \subseteq processGroups[h].processes /\ p \notin rest
    BY DEF rest
  <2>6. Left(p) \in [DOMAIN Left(p) -> Group]
    BY <1>1, <2>1, <2>2
  <2> QED
    BY <1>1, <2>2, <2>3, <2>4, <2>5, <2>6 DEF h
<1> QED
  BY <1>2, <1>3

LEMMA ReadyFacts ==
    ASSUME IInv, NEW e, NEW t, Ready(e, t)
    PROVE  e \in Element /\ elements[e] \in Node /\ elements[e].pid \in Pid
<1>1. e \in DOMAIN elements /\ elements[e].attached /\ elements \in Seq(Node)
      /\ Len(elements) <= MaxElement /\ elements[e].pid # -1
  BY DEF Ready, IInv, TablesOK, AttachedHasPid
<1>2. e \in 1 .. Len(elements) /\ Len(elements) \in Nat
  BY <1>1
<1>3. elements[e] \in Node
  BY <1>1, <1>2
<1> QED
  BY <1>1, <1>2, <1>3 DEF Element, Node

\* Filing no call and finishing no child keeps the waits sound.
LEMMA WaitsKept ==
    ASSUME IInv, waiters' = waiters,
           \A p \in DOMAIN processes :
              /\ p \in DOMAIN processes'
              /\ processes'[p].ppid = processes[p].ppid
              /\ processes'[p].exited = processes[p].exited
              /\ processes[p].exited => processes'[p].pgid = processes[p].pgid,
           \A p \in DOMAIN processes' \ DOMAIN processes : ~processes'[p].exited
    PROVE  NoMissedExit' /\ WaitedChildRuns'
<1>1. NoMissedExit'
  BY DEF IInv, NoMissedExit, Zombie, Exists, Matches, KeysOf
<1>2. WaitedChildRuns'
  BY DEF IInv, WaitedChildRuns, Running, Exists
<1> QED
  BY <1>1, <1>2

-----------------------------------------------------------------------------
(* The inductive step, one lemma for each action *)

LEMMA InitInv == Init => IInv
<1> SUFFICES ASSUME Init PROVE IInv
  OBVIOUS
<1>1. TablesOK
  <2>1. /\ DOMAIN processes = {} /\ processes \in [DOMAIN processes -> Process]
        /\ DOMAIN processGroups = {} /\ processGroups \in [DOMAIN processGroups -> Group]
    BY DEF Init
  <2>2. elements \in Seq(Node) /\ Len(elements) = 0
    BY DEF Init
  <2> QED
    BY <2>1, <2>2 DEF Init, TablesOK
<1>2. EntriesOK /\ AttachedHasPid /\ MembersRun
  BY DEF Init, EntriesOK, AttachedHasPid, MembersRun
<1>3. NoMissedExit
  BY DEF Init, NoMissedExit
<1>4. WaitedChildRuns
  BY DEF Init, WaitedChildRuns, Key
<1> QED
  BY <1>1, <1>2, <1>3, <1>4 DEF IInv

LEMMA SetPGIDStep ==
    ASSUME IInv, NEW e, NEW t, NEW p \in Pid, NEW g \in Pid, SetPGID(e, t, p, g)
    PROVE  IInv'
<1> DEFINE groups == Left(p)
<1>1. /\ InGroup(p) /\ Running(p) /\ p \in DOMAIN processes
      /\ processes \in [DOMAIN processes -> Process]
  BY DEF SetPGID, SetPGIDAllowed, Related, Running, Exists, IInv, TablesOK
<1>2. processes' = [processes EXCEPT ![p].pgid = g]
  BY DEF SetPGID
<1>3. processGroups' = IF g \in DOMAIN groups
                       THEN [groups EXCEPT ![g].processes = @ \cup {p}]
                       ELSE With(groups, g, NewGroup(g, Sid(p)))
  BY DEF SetPGID
<1>4. UNCHANGED <<waiters, pid, elements, requests>>
  BY DEF SetPGID
<1>5. Sid(p) \in Pid
  BY <1>1 DEF InGroup, Grouped, Sid, IInv, TablesOK, Group
<1>6. /\ DOMAIN groups \subseteq Pid /\ groups \in [DOMAIN groups -> Group]
      /\ \A h \in DOMAIN groups :
            /\ h \in DOMAIN processGroups
            /\ groups[h].processes \subseteq processGroups[h].processes
            /\ h = processes[p].pgid => p \notin groups[h].processes
  BY <1>1, LeftFacts DEF IInv, TablesOK
<1> HIDE DEF groups
<1>7. /\ DOMAIN processes' = DOMAIN processes
      /\ processes' \in [DOMAIN processes -> Process]
      /\ processes'[p].pgid = g
      /\ \A q \in DOMAIN processes :
            /\ processes'[q].exited = processes[q].exited
            /\ processes'[q].ppid = processes[q].ppid
            /\ processes'[q].domElement = processes[q].domElement
            /\ q # p => processes'[q] = processes[q]
  BY <1>1, <1>2 DEF Process
<1>8. /\ DOMAIN processGroups' \subseteq Pid
      /\ processGroups' \in [DOMAIN processGroups' -> Group]
      /\ \A h \in DOMAIN processGroups' : \A q \in processGroups'[h].processes :
            (h = g /\ q \in {p, g}) \/ (h \in DOMAIN groups /\ q \in groups[h].processes)
  <2>1. CASE g \in DOMAIN groups
    <3>1. processGroups' = [groups EXCEPT ![g].processes = @ \cup {p}]
      BY <1>3, <2>1
    <3> QED
      BY <1>6, <2>1, <3>1 DEF Group
  <2>2. CASE g \notin DOMAIN groups
    <3>1. processGroups' = [h \in DOMAIN groups \cup {g} |->
                              IF h = g THEN NewGroup(g, Sid(p)) ELSE groups[h]]
      BY <1>3, <2>2 DEF With
    <3>2. NewGroup(g, Sid(p)) \in Group /\ NewGroup(g, Sid(p)).processes = {g}
      BY <1>5 DEF NewGroup, Group
    <3> QED
      BY <1>6, <3>1, <3>2
  <2> QED
    BY <2>1, <2>2
<1>9. TablesOK'
  BY <1>4, <1>7, <1>8 DEF IInv, TablesOK
<1>10. EntriesOK' /\ AttachedHasPid'
  BY <1>4, <1>7 DEF IInv, EntriesOK, AttachedHasPid
<1>11. MembersRun'
  <2> SUFFICES ASSUME NEW h \in DOMAIN processGroups', NEW q \in processGroups'[h].processes,
                      q # h
               PROVE  Running(q)' /\ processes'[q].pgid = h
    BY DEF MembersRun
  <2>1. CASE h = g /\ q = p
    BY <1>1, <1>7, <2>1 DEF Running, Exists
  <2>2. CASE h \in DOMAIN groups /\ q \in groups[h].processes
    <3>1. Running(q) /\ processes[q].pgid = h
      BY <1>6, <2>2 DEF IInv, MembersRun
    <3>2. q # p
      BY <1>6, <2>2, <3>1
    <3> QED
      BY <1>7, <3>1, <3>2 DEF Running, Exists
  <2> QED
    BY <1>8, <2>1, <2>2
<1>12. NoMissedExit' /\ WaitedChildRuns'
  BY <1>1, <1>4, <1>7, WaitsKept DEF Running
<1> QED
  BY <1>9, <1>10, <1>11, <1>12 DEF IInv

LEMMA SetSIDStep ==
    ASSUME IInv, NEW e, NEW t, SetSID(e, t)
    PROVE  IInv'
<1> DEFINE p == elements[e].pid
           groups == Left(p)
<1>1. /\ p \in Pid /\ InGroup(p) /\ p \in DOMAIN processes
      /\ p \notin DOMAIN processGroups
      /\ processes \in [DOMAIN processes -> Process]
  BY ReadyFacts DEF SetSID, InGroup, Grouped, Exists, IInv, TablesOK
<1>2. Running(p) /\ processes[p].pgid # p
  BY <1>1 DEF InGroup, Grouped, IInv, MembersRun
<1>3. /\ processGroups' = With(groups, p, NewGroup(p, p))
      /\ processes' = [processes EXCEPT ![p].pgid = p]
      /\ UNCHANGED <<waiters, pid, elements, requests>>
  BY DEF SetSID
<1>4. /\ DOMAIN groups \subseteq Pid /\ groups \in [DOMAIN groups -> Group]
      /\ \A h \in DOMAIN groups :
            /\ h \in DOMAIN processGroups
            /\ groups[h].processes \subseteq processGroups[h].processes
            /\ h = processes[p].pgid => p \notin groups[h].processes
  BY <1>1, LeftFacts DEF IInv, TablesOK
<1> HIDE DEF groups, p
<1>5. /\ DOMAIN processes' = DOMAIN processes
      /\ processes' \in [DOMAIN processes -> Process]
      /\ \A q \in DOMAIN processes :
            /\ processes'[q].exited = processes[q].exited
            /\ processes'[q].ppid = processes[q].ppid
            /\ processes'[q].domElement = processes[q].domElement
            /\ q # p => processes'[q] = processes[q]
  BY <1>1, <1>3 DEF Process
<1>6. /\ DOMAIN processGroups' \subseteq Pid
      /\ processGroups' \in [DOMAIN processGroups' -> Group]
      /\ \A h \in DOMAIN processGroups' : \A q \in processGroups'[h].processes :
            (h = p /\ q = p) \/ (h \in DOMAIN groups /\ q \in groups[h].processes)
  <2>1. processGroups' = [h \in DOMAIN groups \cup {p} |->
                            IF h = p THEN NewGroup(p, p) ELSE groups[h]]
    BY <1>3 DEF With
  <2>2. NewGroup(p, p) \in Group /\ NewGroup(p, p).processes = {p}
    BY <1>1 DEF NewGroup, Group
  <2> QED
    BY <1>1, <1>4, <2>1, <2>2
<1>7. TablesOK'
  BY <1>3, <1>5, <1>6 DEF IInv, TablesOK
<1>8. EntriesOK' /\ AttachedHasPid'
  BY <1>3, <1>5 DEF IInv, EntriesOK, AttachedHasPid
<1>9. MembersRun'
  <2> SUFFICES ASSUME NEW h \in DOMAIN processGroups', NEW q \in processGroups'[h].processes,
                      q # h
               PROVE  Running(q)' /\ processes'[q].pgid = h
    BY DEF MembersRun
  <2>1. h \in DOMAIN groups /\ q \in groups[h].processes
    BY <1>6
  <2>2. Running(q) /\ processes[q].pgid = h
    BY <1>4, <2>1 DEF IInv, MembersRun
  <2>3. q # p
    BY <1>4, <2>1, <2>2
  <2> QED
    BY <1>5, <2>2, <2>3 DEF Running, Exists
<1>10. NoMissedExit' /\ WaitedChildRuns'
  BY <1>2, <1>3, <1>5, WaitsKept DEF Running
<1> QED
  BY <1>7, <1>8, <1>9, <1>10 DEF IInv

\* The actions that touch no table but the requests.
LEMMA RequestsStep ==
    ASSUME IInv, requests' \subseteq Request,
           UNCHANGED <<processes, processGroups, waiters, pid, elements>>
    PROVE  IInv'
  BY DEF IInv, TablesOK, EntriesOK, AttachedHasPid, MembersRun, NoMissedExit,
         WaitedChildRuns, Running, Zombie, Exists, Matches

LEMMA LostType ==
    ASSUME IInv, NEW r \in requests
    PROVE  Lost(r) \subseteq Request /\ requests \ {r} \subseteq Request
<1>1. r \in Request
  BY DEF IInv, TablesOK
<1>2. [r EXCEPT !.mode = "lost"] \in Request
  BY <1>1 DEF Request
<1> QED
  BY <1>2 DEF Lost, IInv, TablesOK

\* Adding a running process that nothing waits for yet.
LEMMA NewProcess ==
    ASSUME IInv, NEW entry \in Process, ~entry.exited, pid <= MaxPid,
           processes' = With(processes, pid, entry), waiters' = waiters
    PROVE  /\ DOMAIN processes' = DOMAIN processes \cup {pid}
           /\ DOMAIN processes' \subseteq Pid
           /\ processes' \in [DOMAIN processes' -> Process]
           /\ pid \notin DOMAIN processes
           /\ processes'[pid] = entry
           /\ \A p \in DOMAIN processes : processes'[p] = processes[p]
           /\ NoMissedExit' /\ WaitedChildRuns'
<1>1. processes' = [p \in DOMAIN processes \cup {pid} |->
                      IF p = pid THEN entry ELSE processes[p]]
  BY DEF With
<1>2. pid \in Pid /\ pid \notin DOMAIN processes
  BY DEF IInv, TablesOK, EntriesOK, Pid
<1>3. /\ DOMAIN processes' = DOMAIN processes \cup {pid}
      /\ processes'[pid] = entry
      /\ \A p \in DOMAIN processes : processes'[p] = processes[p]
  BY <1>1, <1>2
<1>4. NoMissedExit' /\ WaitedChildRuns'
  BY <1>3, WaitsKept
<1> QED
  BY <1>1, <1>2, <1>3, <1>4 DEF IInv, TablesOK

LEMMA ElementAdded ==
    ASSUME IInv, NEW n \in Node, n.attached => n.pid # -1,
           Len(elements) < MaxElement, elements' = Append(elements, n)
    PROVE  /\ elements' \in Seq(Node) /\ Len(elements') <= MaxElement
           /\ Len(elements') = Len(elements) + 1
           /\ AttachedHasPid'
<1>1. elements \in Seq(Node) /\ Len(elements) \in Nat /\ DOMAIN elements = 1 .. Len(elements)
  BY DEF IInv, TablesOK
<1>2. /\ elements' \in Seq(Node) /\ Len(elements') = Len(elements) + 1
      /\ DOMAIN elements' = 1 .. (Len(elements) + 1)
      /\ \A i \in 1 .. Len(elements) : elements'[i] = elements[i]
      /\ elements'[Len(elements) + 1] = n
  BY <1>1
<1>3. AttachedHasPid'
  BY <1>1, <1>2 DEF IInv, AttachedHasPid
<1> QED
  BY <1>1, <1>2, <1>3 DEF Element

\* Processes that run keep doing so, and the groups list nobody new.
LEMMA MembersKept ==
    ASSUME IInv,
           \A p \in DOMAIN processes : p \in DOMAIN processes' /\ processes'[p] = processes[p],
           \A g \in DOMAIN processGroups' :
              g \in DOMAIN processGroups /\ processGroups'[g] = processGroups[g]
    PROVE  MembersRun'
  BY DEF IInv, MembersRun, Running, Exists

LEMMA ChildType ==
    ASSUME IInv, NEW r \in requests, Exists(elements[r.elem].pid),
           Len(elements) < MaxElement
    PROVE  /\ Child(r) \in Process /\ ~Child(r).exited
           /\ Child(r).pgid = processes[elements[r.elem].pid].pgid
           /\ r.elem \in Element
           /\ Child(r).domElement = Len(elements) + 1
<1> DEFINE ppid == elements[r.elem].pid
<1>1. ppid \in Pid /\ processes[ppid] \in Process
  BY DEF Exists, IInv, TablesOK
<1>2. Len(elements) + 1 \in Element
  BY DEF IInv, TablesOK, Element
<1> HIDE DEF ppid
<1>3. Child(r) = [domElement |-> Len(elements) + 1, exited |-> FALSE,
                  pgid |-> processes[ppid].pgid, ppid |-> ppid]
  BY DEF Child, ppid
<1>4. r.elem \in Element
  BY DEF IInv, TablesOK, Request
<1> QED
  BY <1>1, <1>2, <1>3, <1>4 DEF Process, ppid

LEMMA ImageFacts ==
    ASSUME NEW p \in Pid, NEW parent \in Element \cup {0}, NEW w \in BOOLEAN
    PROVE  /\ Image(p, parent, w) \in Node
           /\ Image(p, parent, w).pid = p /\ p # -1
           /\ Image(p, parent, w).parent = parent
           /\ Image(p, parent, w).attached \/ Image(p, parent, w).popup = "opening"
<1>1. p # -1
  BY DEF Pid
<1>2. /\ Image(p, parent, w).pid = p /\ Image(p, parent, w).parent = parent
      /\ Image(p, parent, w) \in Node
  BY DEF Image, Node
<1>3. w => Image(p, parent, w).popup = "opening"
  BY DEF Image
<1>4. ~w => Image(p, parent, w).attached = TRUE
  BY DEF Image
<1>5. Image(p, parent, w).attached \/ Image(p, parent, w).popup = "opening"
  BY <1>3, <1>4
<1> QED
  BY <1>1, <1>2, <1>5

LEMMA GoneFacts ==
    ASSUME NEW parent \in Element \cup {0}
    PROVE  /\ Gone(parent) \in Node
           /\ Gone(parent).pid = -1 /\ ~Gone(parent).attached
           /\ Gone(parent).parent = parent
  BY DEF Gone, Node

LEMMA EndedFacts ==
    ASSUME NEW n \in Node
    PROVE  /\ Ended(n) \in Node
           /\ Ended(n).pid = -1 /\ ~Ended(n).attached
           /\ Ended(n).parent = n.parent
           /\ n.popup = "opening" => Ended(n).popup = "opening"
  BY DEF Ended, Node

LEMMA SpawnRootStep == ASSUME IInv, SpawnRoot PROVE IInv'
<1> DEFINE entry == [domElement |-> 1, exited |-> FALSE, pgid |-> pid, ppid |-> INIT_PID]
           node  == [pid |-> pid, parent |-> 0, attached |-> TRUE, popup |-> "none"]
<1>1. /\ pid \in Pid /\ pid \in Nat /\ pid # -1
      /\ entry \in Process /\ ~entry.exited /\ node \in Node /\ 1 \in Element
      /\ NewGroup(pid, pid) \in Group /\ NewGroup(pid, pid).processes = {pid}
  BY DEF SpawnRoot, IInv, TablesOK, Pid, Process, Node, Element, NewGroup, Group, INIT_PID
<1>2. PICK t \in Thread : waiters' = [waiters EXCEPT ![pid] =
                             @ \cup {[srcPid |-> INIT_PID, elem |-> 0, thread |-> t]}]
  BY DEF SpawnRoot
<1>3. /\ elements = <<>> /\ elements' = <<node>>
      /\ processGroups' = With(processGroups, pid, NewGroup(pid, pid))
      /\ processes' = With(processes, pid, entry)
      /\ pid' = pid + 1 /\ requests' = requests
  BY DEF SpawnRoot
<1>4. [srcPid |-> INIT_PID, elem |-> 0, thread |-> t] \in Waiter
  BY DEF Waiter
<1> DEFINE w0 == [srcPid |-> INIT_PID, elem |-> 0, thread |-> t]
<1>5. w0 \in Waiter /\ w0.srcPid = INIT_PID
  BY <1>4
<1> HIDE DEF entry, node, w0
<1>6. /\ waiters' \in [Key -> SUBSET Waiter]
      /\ \A k \in Key : \A w \in waiters'[k] :
            w \in waiters[k] \/ (k = pid /\ w.srcPid = INIT_PID)
  <2>1. waiters' = [waiters EXCEPT ![pid] = @ \cup {w0}]
    BY <1>2 DEF w0
  <2>2. waiters \in [Key -> SUBSET Waiter]
    BY DEF IInv, TablesOK
  <2> QED
    BY <1>5, <2>1, <2>2
<1>7. /\ DOMAIN processes' = DOMAIN processes \cup {pid}
      /\ DOMAIN processes' \subseteq Pid
      /\ processes' \in [DOMAIN processes' -> Process]
      /\ pid \notin DOMAIN processes
      /\ processes'[pid] = entry
      /\ \A p \in DOMAIN processes : processes'[p] = processes[p]
  <2>1. processes' = [p \in DOMAIN processes \cup {pid} |->
                        IF p = pid THEN entry ELSE processes[p]]
    BY <1>3 DEF With
  <2>2. pid \notin DOMAIN processes
    BY <1>1 DEF IInv, EntriesOK
  <2> QED
    BY <1>1, <2>1, <2>2 DEF IInv, TablesOK
<1>8. /\ DOMAIN processGroups' \subseteq Pid
      /\ processGroups' \in [DOMAIN processGroups' -> Group]
      /\ \A g \in DOMAIN processGroups' : \A p \in processGroups'[g].processes :
            (g = pid /\ p = pid) \/ (g \in DOMAIN processGroups /\ p \in processGroups[g].processes)
  <2>1. processGroups' = [g \in DOMAIN processGroups \cup {pid} |->
                            IF g = pid THEN NewGroup(pid, pid) ELSE processGroups[g]]
    BY <1>3 DEF With
  <2> QED
    BY <1>1, <2>1 DEF IInv, TablesOK
<1>9. elements' \in Seq(Node) /\ Len(elements') <= MaxElement /\ AttachedHasPid'
  <2>1. elements' \in Seq(Node) /\ Len(elements') = 1
        /\ DOMAIN elements' = {1} /\ elements'[1] = node
    BY <1>1, <1>3
  <2>2. MaxElement >= 1 /\ node.pid # -1
    BY <1>1 DEF SpawnRoot, node
  <2> QED
    BY <2>1, <2>2 DEF AttachedHasPid
<1>10. TablesOK'
  BY <1>1, <1>3, <1>6, <1>7, <1>8, <1>9 DEF IInv, TablesOK, Pid
<1>11. EntriesOK'
  <2>1. Len(elements) = 0 /\ Len(elements') = 1 /\ entry.domElement = 1
    BY <1>3 DEF entry
  <2> QED
    BY <1>1, <1>3, <1>7, <2>1 DEF IInv, EntriesOK
<1>12. MembersRun'
  BY <1>7, <1>8 DEF IInv, MembersRun, Running, Exists
<1>13. entry.exited = FALSE /\ entry.ppid = INIT_PID
  BY DEF entry
<1>14. NoMissedExit'
  <2> SUFFICES ASSUME NEW k \in Key, NEW w \in waiters'[k], NEW p \in DOMAIN processes',
                      Zombie(p)', processes'[p].ppid = w.srcPid, Matches(p, k)'
               PROVE  FALSE
    BY DEF NoMissedExit
  <2>1. p # pid /\ p \in DOMAIN processes /\ processes'[p] = processes[p]
    BY <1>7, <1>13 DEF Zombie
  <2>2. k # pid
    BY <1>1, <1>7, <2>1 DEF Matches, KeysOf, IInv, TablesOK, Process, Pid
  <2>3. w \in waiters[k]
    BY <1>6, <2>2
  <2> QED
    BY <2>1, <2>3 DEF IInv, NoMissedExit, Zombie, Exists, Matches
<1>15. WaitedChildRuns'
  <2> SUFFICES ASSUME NEW p \in Pid, NEW w \in waiters'[p]
               PROVE  Running(p)' /\ processes'[p].ppid = w.srcPid
    BY DEF WaitedChildRuns
  <2>1. p \in Key
    BY DEF Key
  <2>2. CASE p = pid /\ w.srcPid = INIT_PID
    BY <1>7, <1>13, <2>2 DEF Running, Exists
  <2>3. CASE w \in waiters[p]
    BY <1>7, <2>3 DEF IInv, WaitedChildRuns, Running, Exists
  <2> QED
    BY <1>6, <2>1, <2>2, <2>3
<1> QED
  BY <1>9, <1>10, <1>11, <1>12, <1>14, <1>15 DEF IInv

LEMMA SpawnNewStep ==
    ASSUME IInv, NEW r \in requests, NEW b, NEW o \in BOOLEAN, SpawnNew(r, b, o)
    PROVE  IInv'
<1> DEFINE ppid  == elements[r.elem].pid
           h     == processes[ppid].pgid
           entry == Child(r)
           node  == Image(pid, r.elem, o)
<1>1. /\ Grouped(ppid) /\ pid <= MaxPid /\ Len(elements) < MaxElement
      /\ processes' = With(processes, pid, entry)
      /\ processGroups' = [processGroups EXCEPT ![h].processes = @ \cup {pid}]
      /\ elements' = Append(elements, node)
      /\ pid' = pid + 1 /\ requests' = requests \ {r} /\ waiters' = waiters
  BY DEF SpawnNew, HasRoom
<1>2. pid \in Pid /\ pid # -1 /\ h \in DOMAIN processGroups
  BY SMTT(30), <1>1 DEF IInv, TablesOK, Pid, Grouped
<1>3. /\ entry \in Process /\ ~entry.exited /\ entry.pgid = h /\ r.elem \in Element
      /\ entry.domElement = Len(elements) + 1
  BY <1>1, ChildType DEF Grouped
<1>4. node \in Node /\ node.pid # -1
  BY <1>2, <1>3, ImageFacts
<1> HIDE DEF entry, node, h
<1>5. /\ DOMAIN processes' = DOMAIN processes \cup {pid}
      /\ DOMAIN processes' \subseteq Pid
      /\ processes' \in [DOMAIN processes' -> Process]
      /\ pid \notin DOMAIN processes
      /\ processes'[pid] = entry
      /\ \A p \in DOMAIN processes : processes'[p] = processes[p]
      /\ NoMissedExit' /\ WaitedChildRuns'
  BY <1>1, <1>3, NewProcess
<1>6. /\ elements' \in Seq(Node) /\ Len(elements') <= MaxElement /\ AttachedHasPid'
      /\ Len(elements') = Len(elements) + 1 /\ Len(elements) \in Nat
  BY <1>1, <1>4, ElementAdded DEF IInv, TablesOK
<1>7. /\ DOMAIN processGroups' = DOMAIN processGroups
      /\ processGroups' \in [DOMAIN processGroups -> Group]
      /\ \A g \in DOMAIN processGroups : \A p \in processGroups'[g].processes :
            p \in processGroups[g].processes \/ (g = h /\ p = pid)
  BY <1>1, <1>2 DEF IInv, TablesOK, Group
<1>8. TablesOK'
  BY SMTT(30), <1>1, <1>2, <1>5, <1>6, <1>7, LostType DEF IInv, TablesOK, Pid
<1>9. EntriesOK'
  BY <1>1, <1>2, <1>3, <1>5, <1>6 DEF IInv, EntriesOK, TablesOK, Pid
<1>10. MembersRun'
  BY <1>3, <1>5, <1>7 DEF IInv, MembersRun, Running, Exists
<1> QED
  BY <1>5, <1>6, <1>8, <1>9, <1>10 DEF IInv

LEMMA SpawnThrowsStep ==
    ASSUME IInv, NEW r \in requests, SpawnThrows(r)
    PROVE  IInv'
<1> DEFINE ppid == elements[r.elem].pid
           node == Gone(0)
<1>1. /\ pid <= MaxPid /\ Len(elements) < MaxElement
      /\ processes' = IF Exists(ppid) THEN With(processes, pid, Child(r)) ELSE processes
      /\ elements' = IF Exists(ppid) THEN Append(elements, node) ELSE elements
      /\ pid' = pid + 1 /\ requests' = Lost(r)
      /\ waiters' = waiters /\ processGroups' = processGroups
  BY DEF SpawnThrows, HasRoom
<1>2. pid \in Nat /\ pid + 1 \in 2 .. (MaxPid + 1)
  BY <1>1 DEF IInv, TablesOK
<1>3. node \in Node /\ ~node.attached
  BY GoneFacts
<1>4. Lost(r) \subseteq Request
  BY LostType
<1> HIDE DEF node, ppid
<1>5. CASE Exists(ppid)
  <2>1. Child(r) \in Process /\ ~Child(r).exited /\ Child(r).domElement = Len(elements) + 1
    BY <1>1, <1>5, ChildType DEF ppid
  <2>2. processes' = With(processes, pid, Child(r)) /\ elements' = Append(elements, node)
    BY <1>1, <1>5
  <2>3. /\ DOMAIN processes' = DOMAIN processes \cup {pid}
        /\ DOMAIN processes' \subseteq Pid
        /\ processes' \in [DOMAIN processes' -> Process]
        /\ processes'[pid] = Child(r)
        /\ \A p \in DOMAIN processes : processes'[p] = processes[p]
        /\ NoMissedExit' /\ WaitedChildRuns'
    BY <1>1, <2>1, <2>2, NewProcess
  <2>4. /\ elements' \in Seq(Node) /\ Len(elements') <= MaxElement /\ AttachedHasPid'
        /\ Len(elements') = Len(elements) + 1 /\ Len(elements) \in Nat
    BY <1>1, <1>3, <2>2, ElementAdded DEF IInv, TablesOK
  <2>5. TablesOK'
    BY <1>1, <1>2, <1>4, <2>3, <2>4 DEF IInv, TablesOK
  <2>6. EntriesOK'
    BY <1>1, <1>2, <2>1, <2>3, <2>4 DEF IInv, EntriesOK, TablesOK, Pid
  <2>7. MembersRun'
    BY <1>1, <2>3, MembersKept
  <2> QED
    BY <2>3, <2>4, <2>5, <2>6, <2>7 DEF IInv
<1>6. CASE ~Exists(ppid)
  <2>1. UNCHANGED <<processes, elements, waiters, processGroups>>
    BY <1>1, <1>6
  <2>2. TablesOK'
    BY <1>1, <1>2, <1>4, <2>1 DEF IInv, TablesOK
  <2>3. EntriesOK'
    BY <1>1, <1>2, <2>1 DEF IInv, EntriesOK, TablesOK, Pid
  <2>4. AttachedHasPid' /\ MembersRun' /\ NoMissedExit' /\ WaitedChildRuns'
    BY <2>1 DEF IInv, AttachedHasPid, MembersRun, NoMissedExit, WaitedChildRuns,
                Running, Zombie, Exists, Matches
  <2> QED
    BY <2>2, <2>3, <2>4 DEF IInv
<1> QED
  BY <1>5, <1>6

LEMMA SpawnOverlayStep ==
    ASSUME IInv, NEW r \in requests, NEW b, NEW o \in BOOLEAN, SpawnOverlay(r, b, o)
    PROVE  IInv'
<1> DEFINE old  == processes[r.pid].domElement
           new  == Len(elements) + 1
           moved == [elements EXCEPT ![old].attached = FALSE]
           node == Image(r.pid, elements[old].parent, o)
<1>1. /\ Len(elements) < MaxElement
      /\ r.pid \in DOMAIN processes
      /\ elements' = Append(moved, node)
      /\ processes' = [processes EXCEPT ![r.pid].domElement = new]
      /\ requests' = requests \ {r}
      /\ UNCHANGED <<processGroups, waiters, pid>>
  BY DEF SpawnOverlay, Exists
<1>2. /\ elements \in Seq(Node) /\ Len(elements) \in Nat
      /\ r.pid \in Pid /\ processes[r.pid] \in Process /\ new \in Element
      /\ requests' \subseteq Request
  BY <1>1, LostType DEF IInv, TablesOK, Element
<1>3. old \in 1 .. Len(elements) /\ elements[old] \in Node
  BY <1>1, <1>2 DEF IInv, EntriesOK
<1>4. /\ moved \in Seq(Node) /\ Len(moved) = Len(elements)
      /\ \A i \in 1 .. Len(elements) :
            /\ moved[i].pid = elements[i].pid
            /\ moved[i].attached => elements[i].attached
  <2>1. /\ [elements[old] EXCEPT !.attached = FALSE] \in Node
        /\ [elements[old] EXCEPT !.attached = FALSE].pid = elements[old].pid
        /\ ~[elements[old] EXCEPT !.attached = FALSE].attached
    BY <1>3 DEF Node
  <2> HIDE DEF old
  <2> QED
    BY <1>2, <1>3, <2>1
<1>5. node \in Node /\ node.pid # -1
  <2>1. elements[old].parent \in Element \cup {0}
    BY <1>3 DEF Node
  <2>2. r.pid \in Pid
    BY <1>2
  <2> QED
    BY <2>1, <2>2, ImageFacts
<1> HIDE DEF moved, node, old
<1>6. /\ elements' \in Seq(Node) /\ Len(elements') = Len(elements) + 1
      /\ Len(elements') <= MaxElement /\ AttachedHasPid'
  <2>1. /\ elements' \in Seq(Node) /\ Len(elements') = Len(elements) + 1
        /\ DOMAIN elements' = 1 .. (Len(elements) + 1)
        /\ \A i \in 1 .. Len(elements) : elements'[i] = moved[i]
        /\ elements'[Len(elements) + 1] = node
    BY <1>1, <1>2, <1>4, <1>5
  <2>2. \A i \in 1 .. Len(elements) : elements[i].attached => elements[i].pid # -1
    BY <1>2 DEF IInv, AttachedHasPid
  <2>3. Len(elements') <= MaxElement
    BY <1>1, <1>2, <2>1 DEF IInv, TablesOK
  <2>4. AttachedHasPid'
    BY <1>2, <1>4, <1>5, <2>1, <2>2 DEF AttachedHasPid
  <2> QED
    BY <2>1, <2>3, <2>4
<1>7. /\ DOMAIN processes' = DOMAIN processes
      /\ processes' \in [DOMAIN processes -> Process]
      /\ \A p \in DOMAIN processes :
            /\ processes'[p].exited = processes[p].exited
            /\ processes'[p].ppid = processes[p].ppid
            /\ processes'[p].pgid = processes[p].pgid
  BY <1>1, <1>2 DEF Process, IInv, TablesOK
<1>8. TablesOK'
  BY <1>1, <1>2, <1>6, <1>7 DEF IInv, TablesOK
<1>9. EntriesOK'
  <2>1. processes'[r.pid].domElement = new
    BY <1>1, <1>2 DEF Process
  <2>2. \A p \in DOMAIN processes : p # r.pid => processes'[p] = processes[p]
    BY <1>1
  <2> QED
    BY <1>1, <1>2, <1>6, <1>7, <2>1, <2>2 DEF IInv, EntriesOK, new
<1>10. MembersRun'
  BY <1>1, <1>7 DEF IInv, MembersRun, Running, Exists
<1>11. NoMissedExit' /\ WaitedChildRuns'
  BY <1>1, <1>7, WaitsKept
<1> QED
  BY <1>6, <1>8, <1>9, <1>10, <1>11 DEF IInv

\* What exit leaves of the waiters: nothing the process could still answer, and
\* nothing else is touched.
LEMMA StillWaitingFacts ==
    ASSUME IInv, NEW p \in Pid, NEW g \in Pid, NEW ppid
    PROVE  /\ StillWaiting(p, g, ppid) \in [Key -> SUBSET Waiter]
           /\ \A k \in Key : StillWaiting(p, g, ppid)[k] \subseteq waiters[k]
           /\ \A k \in KeysOf(p, g) \cap Key : \A w \in StillWaiting(p, g, ppid)[k] :
                 w.srcPid # ppid
  BY DEF StillWaiting, IInv, TablesOK

LEMMA ExitStep ==
    ASSUME IInv, NEW e \in DOMAIN elements, Exit(e)
    PROVE  IInv'
<1> DEFINE p    == elements[e].pid
           g    == processes[p].pgid
           ppid == processes[p].ppid
           got  == Answered(p, g, ppid)
<1>1. /\ InGroup(p) /\ p \in DOMAIN processes
      /\ processGroups' = Left(p)
      /\ waiters' = StillWaiting(p, g, ppid)
      /\ processes' = Buried(p, got)
      /\ elements' = [elements EXCEPT ![e] = Ended(elements[e])]
      /\ UNCHANGED <<pid, requests>>
  BY DEF Exit, InGroup, Grouped, Exists
<1>2. /\ p \in Pid /\ g \in Pid /\ processes[p] \in Process
      /\ processes \in [DOMAIN processes -> Process]
  BY <1>1 DEF IInv, TablesOK, Process
<1>3. /\ elements' \in Seq(Node) /\ Len(elements') = Len(elements) /\ AttachedHasPid'
      /\ Len(elements) \in Nat
  <2>1. /\ elements \in Seq(Node) /\ Len(elements) \in Nat
        /\ DOMAIN elements = 1 .. Len(elements) /\ elements[e] \in Node
    BY DEF IInv, TablesOK
  <2> DEFINE n == Ended(elements[e])
  <2>2. n \in Node /\ ~n.attached
    BY <2>1, EndedFacts
  <2>3. elements' = [elements EXCEPT ![e] = n]
    BY <1>1
  <2> HIDE DEF n
  <2> QED
    BY <2>1, <2>2, <2>3 DEF IInv, AttachedHasPid
<1> HIDE DEF p, g, ppid, got
<1>4. /\ waiters' \in [Key -> SUBSET Waiter]
      /\ \A k \in Key : waiters'[k] \subseteq waiters[k]
      /\ \A k \in KeysOf(p, g) \cap Key : \A w \in waiters'[k] : w.srcPid # ppid
  BY <1>1, <1>2, StillWaitingFacts
<1>5. /\ DOMAIN processes' \subseteq DOMAIN processes
      /\ processes' \in [DOMAIN processes' -> Process]
      /\ \A q \in DOMAIN processes : q # p =>
            q \in DOMAIN processes' /\ processes'[q] = processes[q]
      /\ p \in DOMAIN processes' =>
            /\ processes'[p].exited
            /\ processes'[p].pgid = processes[p].pgid
            /\ processes'[p].ppid = processes[p].ppid
            /\ processes'[p].domElement = processes[p].domElement
  <2>1. CASE got # {}
    <3>1. processes' = [q \in DOMAIN processes \ {p} |-> processes[q]]
      BY <1>1, <2>1 DEF Buried, Without
    <3> QED
      BY <1>2, <3>1
  <2>2. CASE got = {}
    <3>1. processes' = [processes EXCEPT ![p].exited = TRUE]
      BY <1>1, <2>2 DEF Buried
    <3> QED
      BY ZenonT(40), <1>1, <1>2, <3>1 DEF Process
  <2> QED
    BY <2>1, <2>2
<1>6. /\ DOMAIN processGroups' \subseteq DOMAIN processGroups
      /\ processGroups' \in [DOMAIN processGroups' -> Group]
      /\ \A h \in DOMAIN processGroups' :
            /\ processGroups'[h].processes \subseteq processGroups[h].processes
            /\ h = g => p \notin processGroups'[h].processes
  BY <1>1, LeftFacts DEF g
<1>7. TablesOK'
  BY <1>1, <1>3, <1>4, <1>5, <1>6 DEF IInv, TablesOK
<1>8. EntriesOK'
  BY <1>1, <1>3, <1>5 DEF IInv, EntriesOK
<1>9. MembersRun'
  <2> SUFFICES ASSUME NEW h \in DOMAIN processGroups', NEW q \in processGroups'[h].processes,
                      q # h
               PROVE  Running(q)' /\ processes'[q].pgid = h
    BY DEF MembersRun
  <2>1. Running(q) /\ processes[q].pgid = h
    BY <1>6 DEF IInv, MembersRun
  <2>2. q # p
    BY <1>6, <2>1 DEF g
  <2> QED
    BY <1>5, <2>1, <2>2 DEF Running, Exists
<1>10. NoMissedExit'
  <2> SUFFICES ASSUME NEW k \in Key, NEW w \in waiters'[k], NEW q \in DOMAIN processes',
                      Zombie(q)', processes'[q].ppid = w.srcPid, Matches(q, k)'
               PROVE  FALSE
    BY DEF NoMissedExit
  <2>1. w \in waiters[k] /\ q \in DOMAIN processes
    BY <1>4, <1>5
  <2>2. CASE q = p
    <3>1. k \in KeysOf(p, g) /\ w.srcPid = ppid
      BY <1>5, <2>2 DEF Matches, g, ppid, KeysOf
    <3> QED
      BY <1>4, <3>1
  <2>3. CASE q # p
    BY <1>5, <2>1, <2>3 DEF IInv, NoMissedExit, Zombie, Exists, Matches
  <2> QED
    BY <2>2, <2>3
<1>11. WaitedChildRuns'
  <2> SUFFICES ASSUME NEW q \in Pid, NEW w \in waiters'[q]
               PROVE  Running(q)' /\ processes'[q].ppid = w.srcPid
    BY DEF WaitedChildRuns
  <2>1. q \in Key /\ w \in waiters[q]
    BY <1>4 DEF Key
  <2>2. Running(q) /\ processes[q].ppid = w.srcPid
    BY <2>1 DEF IInv, WaitedChildRuns
  <2>3. q # p
    BY <1>4, <2>1, <2>2 DEF KeysOf, ppid
  <2> QED
    BY <1>5, <2>2, <2>3 DEF Running, Exists
<1> QED
  BY <1>3, <1>7, <1>8, <1>9, <1>10, <1>11 DEF IInv

LEMMA DeadPidStep ==
    ASSUME IInv, NEW r \in requests, DeadPid(r)
    PROVE  IInv'
<1> DEFINE child == Child(r)
           g     == child.pgid
           ppid  == child.ppid
           entry == [child EXCEPT !.exited = TRUE]
           node  == Gone(r.elem)
           got   == Answered(pid, g, ppid)
<1>1. /\ Exists(elements[r.elem].pid) /\ pid <= MaxPid /\ Len(elements) < MaxElement
      /\ waiters' = StillWaiting(pid, g, ppid)
      /\ processes' = IF got # {} THEN processes ELSE With(processes, pid, entry)
      /\ elements' = Append(elements, node)
      /\ pid' = pid + 1 /\ requests' = requests \ {r}
      /\ processGroups' = processGroups
  BY DEF DeadPid, HasRoom, Grouped
<1>2. child \in Process /\ child.domElement = Len(elements) + 1 /\ r.elem \in Element
  BY <1>1, ChildType
<1>3. /\ pid \in Pid /\ g \in Pid /\ pid \notin DOMAIN processes
      /\ pid \in Nat /\ pid + 1 \in 2 .. (MaxPid + 1)
  BY <1>1, <1>2 DEF Process, Pid, IInv, TablesOK, EntriesOK
<1>4. /\ entry \in Process /\ entry.pgid = g /\ entry.ppid = ppid
      /\ entry.domElement = Len(elements) + 1
  BY <1>2 DEF Process
<1>5. node \in Node /\ ~node.attached
  BY <1>2, GoneFacts
<1> HIDE DEF child, g, ppid, entry, node, got
<1>6. /\ elements' \in Seq(Node) /\ Len(elements') <= MaxElement /\ AttachedHasPid'
      /\ Len(elements') = Len(elements) + 1 /\ Len(elements) \in Nat
  BY <1>1, <1>5, ElementAdded DEF IInv, TablesOK
<1>7. /\ waiters' \in [Key -> SUBSET Waiter]
      /\ \A k \in Key : waiters'[k] \subseteq waiters[k]
      /\ \A k \in KeysOf(pid, g) \cap Key : \A w \in waiters'[k] : w.srcPid # ppid
  BY <1>1, <1>3, StillWaitingFacts
<1>8. /\ DOMAIN processes' \subseteq DOMAIN processes \cup {pid}
      /\ processes' \in [DOMAIN processes' -> Process]
      /\ \A q \in DOMAIN processes : q \in DOMAIN processes' /\ processes'[q] = processes[q]
      /\ pid \in DOMAIN processes' => processes'[pid] = entry
  <2>1. CASE got # {}
    BY <1>1, <1>3, <2>1 DEF IInv, TablesOK
  <2>2. CASE got = {}
    <3>1. processes' = [q \in DOMAIN processes \cup {pid} |->
                          IF q = pid THEN entry ELSE processes[q]]
      BY <1>1, <2>2 DEF With
    <3> QED
      BY <1>3, <1>4, <3>1 DEF IInv, TablesOK
  <2> QED
    BY <2>1, <2>2
<1>9. TablesOK'
  BY <1>1, <1>3, <1>6, <1>7, <1>8, LostType DEF IInv, TablesOK
<1>10. EntriesOK'
  <2>1. pid' = pid + 1
    BY <1>1
  <2>2. ASSUME NEW q \in DOMAIN processes'
        PROVE  q < pid' /\ processes'[q].domElement \in 1 .. Len(elements')
    <3>1. CASE q = pid
      BY <1>3, <1>4, <1>6, <1>8, <2>1, <3>1
    <3>2. CASE q \in DOMAIN processes
      <4>1. q < pid /\ processes'[q].domElement \in 1 .. Len(elements) /\ q \in Nat
        BY <1>8, <3>2 DEF IInv, EntriesOK, TablesOK, Pid
      <4> QED
        BY <1>3, <1>6, <2>1, <4>1
    <3> QED
      BY <1>8, <2>2, <3>1, <3>2
  <2> QED
    BY <2>2 DEF EntriesOK
<1>11. MembersRun'
  BY <1>1, <1>8, MembersKept
<1>12. NoMissedExit'
  <2> SUFFICES ASSUME NEW k \in Key, NEW w \in waiters'[k], NEW q \in DOMAIN processes',
                      Zombie(q)', processes'[q].ppid = w.srcPid, Matches(q, k)'
               PROVE  FALSE
    BY DEF NoMissedExit
  <2>1. CASE q = pid
    <3>1. k \in KeysOf(pid, g) /\ w.srcPid = ppid
      BY <1>4, <1>8, <2>1 DEF Matches, KeysOf
    <3> QED
      BY <1>7, <3>1
  <2>2. CASE q # pid
    BY <1>7, <1>8, <2>2 DEF IInv, NoMissedExit, Zombie, Exists, Matches
  <2> QED
    BY <2>1, <2>2
<1>13. WaitedChildRuns'
  <2> SUFFICES ASSUME NEW q \in Pid, NEW w \in waiters'[q]
               PROVE  Running(q)' /\ processes'[q].ppid = w.srcPid
    BY DEF WaitedChildRuns
  <2>1. q \in Key /\ w \in waiters[q]
    BY <1>7 DEF Key
  <2> QED
    BY <1>8, <2>1 DEF IInv, WaitedChildRuns, Running, Exists
<1> QED
  BY <1>6, <1>9, <1>10, <1>11, <1>12, <1>13 DEF IInv

LEMMA WaitCollectsStep ==
    ASSUME IInv, NEW e, NEW t, NEW arg, WaitCollects(e, t, arg)
    PROVE  IInv'
<1>1. PICK p \in DOMAIN processes : Zombie(p) /\ processes' = Without(processes, p)
  BY DEF WaitCollects
<1>2. UNCHANGED <<processGroups, waiters, pid, elements, requests>>
  BY DEF WaitCollects
<1>3. /\ DOMAIN processes' = DOMAIN processes \ {p}
      /\ processes' \in [DOMAIN processes' -> Process]
      /\ \A q \in DOMAIN processes' : processes'[q] = processes[q]
  <2>1. processes' = [q \in DOMAIN processes \ {p} |-> processes[q]]
    BY <1>1 DEF Without
  <2> QED
    BY <2>1 DEF IInv, TablesOK
<1>4. TablesOK'
  BY <1>2, <1>3 DEF IInv, TablesOK
<1>5. EntriesOK' /\ AttachedHasPid'
  BY <1>2, <1>3 DEF IInv, EntriesOK, AttachedHasPid
<1>6. MembersRun'
  BY <1>1, <1>2, <1>3 DEF IInv, MembersRun, Running, Zombie, Exists
<1>7. NoMissedExit'
  BY <1>2, <1>3 DEF IInv, NoMissedExit, Zombie, Exists, Matches
<1>8. WaitedChildRuns'
  BY <1>1, <1>2, <1>3 DEF IInv, WaitedChildRuns, Running, Zombie, Exists
<1> QED
  BY <1>4, <1>5, <1>6, <1>7, <1>8 DEF IInv

LEMMA WaitBlocksStep ==
    ASSUME IInv, NEW e, NEW t \in Thread, NEW arg \in Key \cup {0}, WaitBlocks(e, t, arg)
    PROVE  IInv'
<1> DEFINE src == elements[e].pid
           key == KeyFor(src, arg)
           w0  == [srcPid |-> src, elem |-> e, thread |-> t]
<1>1. /\ Ready(e, t)
      /\ arg = 0 => Exists(src)
      /\ arg > 0 => IsChild(arg, src)
      /\ \A p \in DOMAIN processes : Zombie(p) /\ IsChild(p, src) => ~Matches(p, key)
      /\ waiters' = [waiters EXCEPT ![key] = @ \cup {w0}]
      /\ UNCHANGED <<processes, processGroups, pid, elements, requests>>
  BY DEF WaitBlocks
<1>2. e \in Element /\ src \in Pid
  BY <1>1, ReadyFacts
<1>3. w0 \in Waiter /\ w0.srcPid = src
  BY <1>2 DEF Waiter
<1>4. key \in Key /\ (key \in Pid => key = arg /\ arg > 0)
  <2>1. CASE arg = 0
    <3>1. processes[src].pgid \in Pid
      BY <1>1, <2>1 DEF Exists, IInv, TablesOK, Process
    <3> QED
      BY <2>1, <3>1 DEF KeyFor, Key, Pid
  <2>2. CASE arg # 0
    BY <2>2 DEF KeyFor, Key, Pid
  <2> QED
    BY <2>1, <2>2
<1> HIDE DEF src, key, w0
<1>5. /\ waiters' \in [Key -> SUBSET Waiter]
      /\ \A k \in Key : \A w \in waiters'[k] : w \in waiters[k] \/ (k = key /\ w = w0)
  BY <1>1, <1>3, <1>4 DEF IInv, TablesOK
<1>6. TablesOK' /\ EntriesOK' /\ AttachedHasPid' /\ MembersRun'
  BY <1>1, <1>5 DEF IInv, TablesOK, EntriesOK, AttachedHasPid, MembersRun, Running, Exists
<1>7. NoMissedExit'
  <2> SUFFICES ASSUME NEW k \in Key, NEW w \in waiters'[k], NEW p \in DOMAIN processes,
                      Zombie(p), processes[p].ppid = w.srcPid, Matches(p, k)
               PROVE  FALSE
    BY <1>1 DEF NoMissedExit, Zombie, Exists, Matches
  <2>1. CASE w \in waiters[k]
    BY <2>1 DEF IInv, NoMissedExit
  <2>2. CASE k = key /\ w = w0
    BY <1>1, <1>3, <2>2 DEF IsChild, Exists
  <2> QED
    BY <1>5, <2>1, <2>2
<1>8. WaitedChildRuns'
  <2> SUFFICES ASSUME NEW p \in Pid, NEW w \in waiters'[p]
               PROVE  Running(p) /\ processes[p].ppid = w.srcPid
    BY <1>1 DEF WaitedChildRuns, Running, Exists
  <2>1. CASE w \in waiters[p]
    BY <2>1 DEF IInv, WaitedChildRuns
  <2>2. CASE p = key /\ w = w0
    <3>1. IsChild(p, src) /\ Matches(p, key)
      BY <1>1, <1>4, <2>2 DEF Matches, KeysOf
    <3> QED
      BY <1>1, <1>3, <2>2, <3>1 DEF IsChild, Running, Zombie, Exists
  <2> QED
    BY <1>5, <2>1, <2>2 DEF Key
<1> QED
  BY <1>6, <1>7, <1>8 DEF IInv

LEMMA CompleteStep ==
    ASSUME IInv, NEW r \in requests, Complete(r)
    PROVE  IInv'
<1>1. CASE OverlayThrows(r)
  BY <1>1, LostType, RequestsStep DEF OverlayThrows
<1>2. CASE SpawnRefused(r)
  BY <1>2, LostType, RequestsStep DEF SpawnRefused
<1>3. CASE DeadPidRefused(r)
  <2>1. [r EXCEPT !.mode = "refused"] \in Request
    BY DEF IInv, TablesOK, Request
  <2> QED
    BY <1>3, <2>1, RequestsStep DEF DeadPidRefused, IInv, TablesOK
<1> QED
  BY <1>1, <1>2, <1>3, SpawnNewStep, SpawnThrowsStep, SpawnOverlayStep, DeadPidStep DEF Complete

LEMMA PopupOpensStep ==
    ASSUME IInv, NEW e \in DOMAIN elements, PopupOpens(e)
    PROVE  IInv'
<1> DEFINE n == [elements[e] EXCEPT !.popup = "open", !.attached = TRUE]
<1>1. /\ elements' = [elements EXCEPT ![e].popup = "open", ![e].attached = TRUE]
      /\ elements[e].pid # -1
      /\ UNCHANGED <<processes, processGroups, waiters, pid, requests>>
  BY DEF PopupOpens
<1>2. elements \in Seq(Node) /\ elements[e] \in Node
  BY DEF IInv, TablesOK
<1>3. n \in Node /\ n.pid # -1
  BY <1>1, <1>2 DEF Node
<1>4. elements' = [elements EXCEPT ![e] = n]
  BY <1>1, <1>2 DEF Node
<1> HIDE DEF n
<1>5. elements' \in Seq(Node) /\ Len(elements') = Len(elements) /\ AttachedHasPid'
  BY <1>2, <1>3, <1>4 DEF IInv, AttachedHasPid
<1>6. TablesOK' /\ EntriesOK'
  BY <1>1, <1>5 DEF IInv, TablesOK, EntriesOK
<1>7. MembersRun'
  BY <1>1 DEF IInv, MembersRun, Running, Exists
<1>8. NoMissedExit' /\ WaitedChildRuns'
  BY <1>1, WaitsKept
<1> QED
  BY <1>5, <1>6, <1>7, <1>8 DEF IInv

\* The calls of a thread that only add requests.
LEMMA AskStep ==
    ASSUME IInv, NEW e \in DOMAIN elements, NEW t \in Thread
    PROVE  /\ \A mode \in {"new", "overlay", "dead"} : Request_(e, t, mode) => IInv'
           /\ \A p, g \in Pid : SetIdThrows(e, t, p, g) => IInv'
           /\ ModuleEndsUnheard(e) => IInv'
<1>1. /\ requests \subseteq Request
      /\ \A u \in Thread, mode \in {"new", "overlay", "dead", "lost"} :
            Ready(e, t) \/ elements[e].attached =>
              [elem |-> e, thread |-> u, pid |-> elements[e].pid, mode |-> mode] \in Request
  <2>1. elements \in Seq(Node) /\ Len(elements) <= MaxElement
    BY DEF IInv, TablesOK
  <2>2. e \in Element /\ elements[e] \in Node
    BY <2>1 DEF Element
  <2>3. Ready(e, t) \/ elements[e].attached => elements[e].pid \in Pid
    BY <2>2 DEF Ready, IInv, AttachedHasPid, Node
  <2> QED
    BY <2>2, <2>3 DEF Request, IInv, TablesOK
<1>2. ASSUME NEW mode \in {"new", "overlay", "dead"}, Request_(e, t, mode)
      PROVE  IInv'
  BY <1>1, <1>2, RequestsStep DEF Request_
<1>3. ASSUME NEW p \in Pid, NEW g \in Pid, SetIdThrows(e, t, p, g)
      PROVE  IInv'
  BY <1>1, <1>3, RequestsStep DEF SetIdThrows
<1>4. ASSUME ModuleEndsUnheard(e)
      PROVE  IInv'
  BY <1>1, <1>4, RequestsStep DEF ModuleEndsUnheard
<1> QED
  BY <1>2, <1>3, <1>4

LEMMA NextInv == IInv /\ [Next]_vars => IInv'
<1> SUFFICES ASSUME IInv, [Next]_vars PROVE IInv'
  OBVIOUS
<1>1. CASE UNCHANGED vars
  BY <1>1, RequestsStep DEF vars, IInv, TablesOK
<1>2. CASE SpawnRoot
  BY <1>2, SpawnRootStep
<1>3. ASSUME NEW e \in DOMAIN elements, NEW t \in Thread,
             \/ \E mode \in {"new", "overlay", "dead"} : Request_(e, t, mode)
             \/ \E p, g \in Pid : SetPGID(e, t, p, g) \/ SetIdThrows(e, t, p, g)
             \/ SetSID(e, t)
             \/ \E arg \in Key \cup {0} : WaitCollects(e, t, arg) \/ WaitBlocks(e, t, arg)
      PROVE  IInv'
  BY <1>3, AskStep, SetPGIDStep, SetSIDStep, WaitCollectsStep, WaitBlocksStep
<1>4. CASE \E r \in requests : Complete(r)
  BY <1>4, CompleteStep
<1>5. CASE \E e \in DOMAIN elements : ModuleEnds(e) \/ Sigint(e) \/ PopupCloses(e)
  BY <1>5, ExitStep DEF ModuleEnds, Sigint, PopupCloses
<1>7. CASE \E e \in DOMAIN elements : PopupOpens(e)
  BY <1>7, PopupOpensStep
<1>6. CASE \E e \in DOMAIN elements : ModuleEndsUnheard(e)
  <2>1. PICK e \in DOMAIN elements : ModuleEndsUnheard(e)
    BY <1>6
  <2>2. CASE Thread = {}
    BY <2>1, <2>2, RequestsStep DEF ModuleEndsUnheard, IInv, TablesOK
  <2>3. CASE Thread # {}
    BY <2>1, <2>3, AskStep
  <2> QED
    BY <2>2, <2>3
<1> QED
  BY <1>1, <1>2, <1>3, <1>4, <1>5, <1>6, <1>7 DEF Next

-----------------------------------------------------------------------------
(* Theorems *)

\* The tables of the process manager keep their types and the waits stay sound.
THEOREM Invariance == Spec => []IInv
  BY InitInv, NextInv, PTL DEF Spec

\* No waitpid call stays filed that a zombie child of its caller could answer
\* (waitpid and exit, with setpgid and setsid in between): an exit is never
\* missed, however the two race.
THEOREM ExitsAreNotMissed == Spec => []NoMissedExit
<1>1. IInv => NoMissedExit
  BY DEF IInv
<1> QED
  BY <1>1, Invariance, PTL

\* A call filed under a pid waits for a running child of its caller (waitpid,
\* exit): no call waits for a process that has gone or never was.
THEOREM WaitsAreForChildren == Spec => []WaitedChildRuns
<1>1. IInv => WaitedChildRuns
  BY DEF IInv
<1> QED
  BY <1>1, Invariance, PTL

-----------------------------------------------------------------------------
(* The tree of elements.  LiveAncestor climbs it by a recursive function;  *)
(* that the function is there, and what it finds, are shown by looking at  *)
(* the smallest element for which they would fail.                         *)

Lower == {ss \in Nat \X Nat : ss[1] < ss[2]}

LEMMA Least ==
    ASSUME NEW T, T \subseteq Nat, T # {}
    PROVE  \E x \in T : \A y \in T : ~(y < x)
<1>1. IsWellFoundedOn(Lower, Nat)
  BY NatLessThanWellFounded, Zenon DEF OpToRel, Lower
<1>2. PICK x \in T : \A y \in T : ~(<<y, x>> \in Lower)
  BY <1>1, WFMin
<1>3. \A y \in T : ~(y < x)
  BY <1>2 DEF Lower
<1> QED
  BY <1>3

Up(s, f, x) == IF x = 0 THEN 0 ELSE IF s[x].pid # -1 THEN x ELSE f[s[x].parent]

Climbs(s, f, n) == f = [x \in 0 .. n |-> Up(s, f, x)]

LEMMA ParentIsNumber ==
    ASSUME NEW s \in Seq(Node), NEW x \in 1 .. Len(s)
    PROVE  s[x].parent \in Nat
<1>1. s[x] \in Node
  OBVIOUS
<1>2. Element \cup {0} \subseteq Nat
  BY DEF Element
<1> QED
  BY <1>1, <1>2 DEF Node

LEMMA ClimbingExists ==
    ASSUME NEW s \in Seq(Node), \A x \in 1 .. Len(s) : s[x].parent < x
    PROVE  \E f : Climbs(s, f, Len(s))
<1> DEFINE T == {n \in 0 .. Len(s) : ~\E f : Climbs(s, f, n)}
<1> SUFFICES ASSUME ~\E f : Climbs(s, f, Len(s)) PROVE FALSE
  OBVIOUS
<1>1. T # {}
  <2>1. Len(s) \in 0 .. Len(s)
    OBVIOUS
  <2> QED
    BY <2>1
<1>2. T \subseteq Nat
  OBVIOUS
<1>3. PICK m \in T : \A n \in T : ~(n < m)
  <2> HIDE DEF T
  <2> QED
    BY <1>1, <1>2, Least
<1>4. m # 0
  <2> DEFINE f == [x \in 0 .. 0 |-> 0]
  <2>1. Climbs(s, f, 0)
    BY DEF Climbs, Up
  <2> QED
    BY <2>1
<1>5. m \in 1 .. Len(s) /\ m - 1 \in 0 .. Len(s) /\ m - 1 < m
  BY <1>4
<1>6. PICK g : Climbs(s, g, m - 1)
  BY <1>3, <1>5
<1>7. \A x \in 1 .. Len(s) : s[x].parent \in Nat /\ s[x].parent < x
  BY ParentIsNumber
<1> DEFINE h == [x \in 0 .. m |-> IF x = m THEN Up(s, g, m) ELSE g[x]]
<1>8. \A x \in 0 .. m - 1 : h[x] = g[x] /\ g[x] = Up(s, g, x)
  <2>1. \A x \in 0 .. m - 1 : g[x] = Up(s, g, x)
    BY <1>6 DEF Climbs
  <2>2. \A x \in 0 .. m - 1 : x \in 0 .. m /\ x # m
    BY <1>5
  <2> QED
    BY <2>1, <2>2
<1>9. h[m] = Up(s, g, m)
  BY <1>5
<1>10. h = [x \in 0 .. m |-> h[x]]
  OBVIOUS
<1> HIDE DEF h
<1>11. ASSUME NEW x \in 0 .. m
       PROVE  h[x] = Up(s, h, x)
  <2>1. x = 0 \/ (x \in 1 .. Len(s) /\ s[x].parent \in 0 .. m - 1)
    BY <1>5, <1>7
  <2>2. Up(s, g, x) = Up(s, h, x)
    BY <1>8, <2>1 DEF Up
  <2> QED
    BY <1>5, <1>8, <1>9, <2>2
<1>12. h = [x \in 0 .. m |-> Up(s, h, x)]
  BY <1>10, <1>11
<1> QED
  BY <1>12 DEF Climbs

LEMMA ClimbingFinds ==
    ASSUME NEW s \in Seq(Node), \A x \in 1 .. Len(s) : s[x].parent < x,
           NEW f, Climbs(s, f, Len(s))
    PROVE  \A x \in 0 .. Len(s) : f[x] = 0 \/ (f[x] \in 1 .. x /\ s[f[x]].pid # -1)
<1> DEFINE Good(x) == f[x] = 0 \/ (f[x] \in 1 .. x /\ s[f[x]].pid # -1)
           T == {x \in 0 .. Len(s) : ~Good(x)}
<1>1. SUFFICES ASSUME T # {} PROVE FALSE
  OBVIOUS
<1>2. T \subseteq Nat
  OBVIOUS
<1>3. PICK m \in T : \A n \in T : ~(n < m)
  <2> HIDE DEF T
  <2> QED
    BY <1>1, <1>2, Least
<1>4. f[m] = Up(s, f, m)
  BY DEF Climbs
<1>5. m # 0 /\ s[m].pid = -1 /\ f[m] = f[s[m].parent]
  BY <1>4 DEF Up
<1>6. s[m].parent \in 0 .. Len(s) /\ s[m].parent < m
  <2>1. m \in 1 .. Len(s)
    BY <1>5
  <2>2. s[m].parent \in Nat /\ s[m].parent < m
    BY <2>1, ParentIsNumber
  <2> QED
    BY <2>1, <2>2
<1>7. Good(s[m].parent)
  BY <1>3, <1>6
<1>8. Good(m)
  BY <1>5, <1>6, <1>7
<1> QED
  BY <1>8

\* A parent is older than its children, who asks and who is in front is there.
ParentsEarlier == \A e \in DOMAIN elements : elements[e].parent < e
Asked          == \A r \in requests : r.elem \in DOMAIN elements
FrontKnown     == foregroundProcess \in 0 .. Len(elements)
Tree           == ParentsEarlier /\ Asked /\ FrontKnown

\* Whoever gets the input when element e ends has not ended, and is older than e.
LEMMA AncestorFacts ==
    ASSUME IInv, ParentsEarlier, NEW e \in DOMAIN elements
    PROVE  /\ LiveAncestor(e) \in 0 .. Len(elements)
           /\ LiveAncestor(e) < e
           /\ LiveAncestor(e) # 0 => elements[LiveAncestor(e)].pid # -1
<1> DEFINE n  == Len(elements)
           up == CHOOSE f : Climbs(elements, f, n)
<1>1. elements \in Seq(Node) /\ n \in Nat /\ DOMAIN elements = 1 .. n
  BY DEF IInv, TablesOK
<1>2. \A x \in 1 .. n : elements[x].parent < x
  BY <1>1 DEF ParentsEarlier
<1>3. LiveAncestor(e) = up[elements[e].parent]
  BY DEF LiveAncestor, Climbs, Up
<1>4. Climbs(elements, up, n)
  BY <1>1, <1>2, ClimbingExists
<1> HIDE DEF up
<1>5. \A x \in 0 .. n : up[x] = 0 \/ (up[x] \in 1 .. x /\ elements[up[x]].pid # -1)
  BY <1>1, <1>2, <1>4, ClimbingFinds
<1>6. elements[e].parent \in 0 .. n /\ elements[e].parent < e
  <2>1. elements[e].parent \in Nat /\ elements[e].parent < e /\ e \in 1 .. n
    BY <1>1, <1>2, ParentIsNumber
  <2> QED
    BY <1>1, <2>1
<1> HIDE DEF n
<1>7. up[elements[e].parent] = 0 \/ (/\ up[elements[e].parent] \in 1 .. elements[e].parent
                                     /\ elements[up[elements[e].parent]].pid # -1)
  BY <1>5, <1>6
<1> QED
  BY <1>1, <1>3, <1>6, <1>7 DEF n

LEMMA TreeKept ==
    ASSUME Tree, UNCHANGED <<elements, foregroundProcess>>,
           \A r \in requests' : r.elem \in DOMAIN elements
    PROVE  Tree'
  BY DEF Tree, ParentsEarlier, Asked, FrontKnown

LEMMA TreeGrows ==
    ASSUME IInv, Tree, NEW n \in Node, elements' = Append(elements, n),
           n.parent \in 0 .. Len(elements),
           foregroundProcess' \in 0 .. Len(elements) + 1,
           \A r \in requests' : r.elem \in DOMAIN elements
    PROVE  Tree'
<1>1. elements \in Seq(Node) /\ Len(elements) \in Nat /\ DOMAIN elements = 1 .. Len(elements)
  BY DEF IInv, TablesOK
<1>2. /\ Len(elements') = Len(elements) + 1 /\ DOMAIN elements' = 1 .. Len(elements) + 1
      /\ \A i \in DOMAIN elements : elements'[i] = elements[i]
      /\ elements'[Len(elements) + 1] = n
  BY <1>1
<1>3. ASSUME NEW x \in DOMAIN elements'
      PROVE  elements'[x].parent < x
  <2>1. CASE x \in DOMAIN elements
    BY <1>2, <2>1 DEF Tree, ParentsEarlier
  <2>2. CASE x = Len(elements) + 1
    BY <1>1, <1>2, <2>2
  <2> QED
    BY <1>1, <1>2, <2>1, <2>2
<1>4. ParentsEarlier'
  BY <1>3 DEF ParentsEarlier
<1>5. Asked' /\ FrontKnown'
  BY <1>1, <1>2 DEF Asked, FrontKnown
<1> QED
  BY <1>4, <1>5 DEF Tree

LEMMA LostElem ==
    ASSUME IInv, NEW r \in requests, NEW x \in Lost(r)
    PROVE  \/ x \in requests
           \/ x.elem = r.elem /\ x.mode = "lost"
<1>1. r \in Request
  BY DEF IInv, TablesOK
<1>2. [r EXCEPT !.mode = "lost"].elem = r.elem /\ [r EXCEPT !.mode = "lost"].mode = "lost"
  BY <1>1 DEF Request
<1> QED
  BY <1>2 DEF Lost

LEMMA TreeComplete ==
    ASSUME IInv, Tree, NEW r \in requests, Complete(r)
    PROVE  Tree'
<1>1. r.elem \in 1 .. Len(elements) /\ DOMAIN elements = 1 .. Len(elements)
      /\ Len(elements) \in Nat /\ foregroundProcess \in 0 .. Len(elements)
      /\ elements \in Seq(Node)
  BY DEF IInv, TablesOK, Tree, Asked, FrontKnown
<1>2. \A x \in (requests \ {r}) \cup Lost(r) : x.elem \in DOMAIN elements
  BY LostElem DEF Tree, Asked
<1>3. ASSUME NEW b \in BOOLEAN, NEW o \in BOOLEAN, SpawnNew(r, b, o)
      PROVE  Tree'
  <2> DEFINE node == Image(pid, r.elem, o)
  <2>1. /\ elements' = Append(elements, node) /\ requests' = requests \ {r}
        /\ foregroundProcess' \in {foregroundProcess, Len(elements) + 1} /\ pid <= MaxPid
    BY <1>3 DEF SpawnNew, Foreground, HasRoom
  <2>2. node \in Node /\ node.parent = r.elem
    <3>1. pid \in Pid /\ r.elem \in Element
      BY <2>1 DEF IInv, TablesOK, Pid, Request
    <3> QED
      BY <3>1, ImageFacts
  <2> HIDE DEF node
  <2>3. foregroundProcess' \in 0 .. Len(elements) + 1 /\ node.parent \in 0 .. Len(elements)
    BY <1>1, <2>1, <2>2
  <2> QED
    BY <1>2, <2>1, <2>2, <2>3, TreeGrows
<1>4. CASE SpawnThrows(r)
  <2> DEFINE node == Gone(0)
  <2>1. /\ elements' = Append(elements, node) \/ elements' = elements
        /\ requests' = Lost(r) /\ foregroundProcess' = foregroundProcess
    BY <1>4 DEF SpawnThrows
  <2>2. node \in Node /\ node.parent = 0
    BY GoneFacts
  <2> HIDE DEF node
  <2>3. foregroundProcess' \in 0 .. Len(elements) + 1 /\ node.parent \in 0 .. Len(elements)
    BY <1>1, <2>1, <2>2
  <2> QED
    BY <1>2, <2>1, <2>2, <2>3, TreeGrows, TreeKept
<1>5. CASE DeadPid(r)
  <2> DEFINE node == Gone(r.elem)
  <2>1. /\ elements' = Append(elements, node) /\ requests' = requests \ {r}
        /\ foregroundProcess' \in {foregroundProcess, r.elem}
    BY <1>5 DEF DeadPid, Foreground
  <2>2. node \in Node /\ node.parent = r.elem
    <3>1. r.elem \in Element
      BY DEF IInv, TablesOK, Request
    <3> QED
      BY <3>1, GoneFacts
  <2> HIDE DEF node
  <2>3. foregroundProcess' \in 0 .. Len(elements) + 1 /\ node.parent \in 0 .. Len(elements)
    BY <1>1, <2>1, <2>2
  <2> QED
    BY <1>2, <2>1, <2>2, <2>3, TreeGrows
<1>6. CASE OverlayThrows(r) \/ SpawnRefused(r)
  <2>1. UNCHANGED <<elements, foregroundProcess>> /\ requests' \subseteq (requests \ {r}) \cup Lost(r)
    BY <1>6 DEF OverlayThrows, SpawnRefused
  <2> QED
    BY <1>2, <2>1, TreeKept
<1>8. CASE DeadPidRefused(r)
  <2>1. /\ UNCHANGED <<elements, foregroundProcess>>
        /\ requests' = (requests \ {r}) \cup {[r EXCEPT !.mode = "refused"]}
    BY <1>8 DEF DeadPidRefused
  <2>2. [r EXCEPT !.mode = "refused"].elem = r.elem
    BY DEF IInv, TablesOK, Request
  <2>3. \A x \in requests' : x.elem \in DOMAIN elements
    BY <2>1, <2>2 DEF Tree, Asked
  <2> QED
    BY <2>1, <2>3, TreeKept
<1>7. ASSUME NEW b \in BOOLEAN, NEW o \in BOOLEAN, SpawnOverlay(r, b, o)
      PROVE  Tree'
  <2> DEFINE old   == processes[r.pid].domElement
             moved == [elements EXCEPT ![old].attached = FALSE]
             node  == Image(r.pid, elements[old].parent, o)
  <2>1. /\ elements' = Append(moved, node) /\ requests' = requests \ {r}
        /\ foregroundProcess' \in {foregroundProcess, Len(elements) + 1}
        /\ r.pid \in DOMAIN processes
    BY <1>7 DEF SpawnOverlay, Foreground, Exists
  <2>2. old \in 1 .. Len(elements) /\ elements[old] \in Node
    BY <1>1, <2>1 DEF IInv, EntriesOK
  <2>3. /\ moved \in Seq(Node) /\ Len(moved) = Len(elements)
        /\ \A i \in 1 .. Len(elements) : moved[i].parent = elements[i].parent
    <3>1. /\ [elements[old] EXCEPT !.attached = FALSE] \in Node
          /\ [elements[old] EXCEPT !.attached = FALSE].parent = elements[old].parent
      BY <2>2 DEF Node
    <3> HIDE DEF old
    <3> QED
      BY <1>1, <2>2, <3>1
  <2>4. node \in Node /\ node.parent = elements[old].parent /\ elements[old].parent < old
        /\ elements[old].parent \in Nat
    <3>1. r.pid \in Pid /\ elements[old].parent \in Element \cup {0}
      BY <2>1, <2>2 DEF IInv, TablesOK, Node
    <3> HIDE DEF old
    <3>2. node \in Node /\ node.parent = elements[old].parent
      BY <3>1, ImageFacts
    <3>3. elements[old].parent < old /\ elements[old].parent \in Nat
      BY <1>1, <2>2, ParentIsNumber DEF Tree, ParentsEarlier
    <3> QED
      BY <3>2, <3>3
  <2> HIDE DEF moved, node, old
  <2>5. /\ Len(elements') = Len(elements) + 1 /\ DOMAIN elements' = 1 .. Len(elements) + 1
        /\ \A i \in 1 .. Len(elements) : elements'[i] = moved[i]
        /\ elements'[Len(elements) + 1] = node
    BY <1>1, <2>1, <2>3, <2>4
  <2>6. ASSUME NEW x \in DOMAIN elements'
        PROVE  elements'[x].parent < x
    <3>1. CASE x \in 1 .. Len(elements)
      BY <1>1, <2>3, <2>5, <3>1 DEF Tree, ParentsEarlier
    <3>2. CASE x = Len(elements) + 1
      BY <1>1, <2>2, <2>4, <2>5, <3>2
    <3> QED
      BY <1>1, <2>5, <3>1, <3>2
  <2>7. Asked' /\ FrontKnown'
    <3>1. \A x \in requests' : x.elem \in 1 .. Len(elements) + 1
      BY <1>1, <1>2, <2>1
    <3> QED
      BY <1>1, <2>1, <2>5, <3>1 DEF Asked, FrontKnown
  <2> QED
    BY <2>6, <2>7 DEF Tree, ParentsEarlier
<1> QED
  BY <1>3, <1>4, <1>5, <1>6, <1>7, <1>8 DEF Complete

LEMMA TreeExit ==
    ASSUME IInv, Tree, NEW e \in DOMAIN elements, Exit(e)
    PROVE  Tree'
<1>1. /\ elements' = [elements EXCEPT ![e] = Ended(elements[e])]
      /\ foregroundProcess' \in {LiveAncestor(e), foregroundProcess} /\ requests' = requests
  BY DEF Exit
<1>2. elements \in Seq(Node) /\ DOMAIN elements = 1 .. Len(elements) /\ elements[e] \in Node
  BY DEF IInv, TablesOK
<1>3. /\ DOMAIN elements' = DOMAIN elements /\ Len(elements') = Len(elements)
      /\ \A i \in DOMAIN elements : elements'[i].parent = elements[i].parent
  <2> DEFINE n == Ended(elements[e])
  <2>1. n.parent = elements[e].parent
    BY <1>2, EndedFacts
  <2>2. elements' = [elements EXCEPT ![e] = n]
    BY <1>1
  <2> HIDE DEF n
  <2> QED
    BY <1>2, <2>1, <2>2
<1>4. FrontKnown'
  BY <1>1, <1>3, AncestorFacts DEF Tree, FrontKnown
<1> QED
  BY <1>1, <1>3, <1>4 DEF Tree, ParentsEarlier, Asked

LEMMA TreePopup ==
    ASSUME IInv, Tree, NEW e \in DOMAIN elements, PopupOpens(e)
    PROVE  Tree'
<1> DEFINE n == [elements[e] EXCEPT !.popup = "open", !.attached = TRUE]
<1>1. /\ elements' = [elements EXCEPT ![e].popup = "open", ![e].attached = TRUE]
      /\ foregroundProcess' = foregroundProcess /\ requests' = requests
  BY DEF PopupOpens
<1>2. elements \in Seq(Node) /\ DOMAIN elements = 1 .. Len(elements) /\ elements[e] \in Node
  BY DEF IInv, TablesOK
<1>3. n.parent = elements[e].parent /\ elements' = [elements EXCEPT ![e] = n]
  BY <1>1, <1>2 DEF Node
<1> HIDE DEF n
<1>4. /\ DOMAIN elements' = DOMAIN elements /\ Len(elements') = Len(elements)
      /\ \A i \in DOMAIN elements : elements'[i].parent = elements[i].parent
  BY <1>2, <1>3
<1> QED
  BY <1>1, <1>4 DEF Tree, ParentsEarlier, Asked, FrontKnown

LEMMA TreeNext == IInv /\ Tree /\ [Next]_vars => Tree'
<1> SUFFICES ASSUME IInv, Tree, [Next]_vars PROVE Tree'
  OBVIOUS
<1>1. CASE SpawnRoot
  <2> DEFINE node == [pid |-> pid, parent |-> 0, attached |-> TRUE, popup |-> "none"]
  <2>1. /\ elements = <<>> /\ elements' = <<node>> /\ requests' = requests
        /\ foregroundProcess' = 1
    BY <1>1 DEF SpawnRoot
  <2>2. DOMAIN elements = {} /\ DOMAIN elements' = {1} /\ Len(elements') = 1
        /\ elements'[1].parent = 0
    BY <2>1
  <2> QED
    BY <2>1, <2>2 DEF Tree, ParentsEarlier, Asked, FrontKnown
<1>2. ASSUME NEW e \in DOMAIN elements, NEW t \in Thread,
             \/ \E mode \in {"new", "overlay", "dead"} : Request_(e, t, mode)
             \/ \E p, g \in Pid : SetPGID(e, t, p, g) \/ SetIdThrows(e, t, p, g)
             \/ SetSID(e, t)
             \/ \E arg \in Key \cup {0} : WaitCollects(e, t, arg) \/ WaitBlocks(e, t, arg)
             \/ ModuleEndsUnheard(e)
      PROVE  Tree'
  <2>1. /\ UNCHANGED <<elements, foregroundProcess>>
        /\ \A r \in requests' : r \in requests \/ r.elem = e
    BY <1>2 DEF Request_, SetPGID, SetIdThrows, SetSID, WaitCollects, WaitBlocks,
                ModuleEndsUnheard
  <2> QED
    BY <2>1, TreeKept DEF Tree, Asked
<1>3. CASE \E r \in requests : Complete(r)
  BY <1>3, TreeComplete
<1>4. CASE \E e \in DOMAIN elements : ModuleEnds(e) \/ Sigint(e) \/ PopupCloses(e)
  BY <1>4, TreeExit DEF ModuleEnds, Sigint, PopupCloses
<1>7. CASE \E e \in DOMAIN elements : PopupOpens(e)
  BY <1>7, TreePopup
<1>5. CASE \E e \in DOMAIN elements : ModuleEndsUnheard(e)
  <2>1. PICK e \in DOMAIN elements : ModuleEndsUnheard(e)
    BY <1>5
  <2>2. /\ UNCHANGED <<elements, foregroundProcess>>
        /\ \A r \in requests' : r \in requests \/ r.elem = e
    BY <2>1 DEF ModuleEndsUnheard
  <2> QED
    BY <2>2, TreeKept DEF Tree, Asked
<1>6. CASE UNCHANGED vars
  BY <1>6, TreeKept DEF vars, Tree, Asked
<1> QED
  BY <1>1, <1>2, <1>3, <1>4, <1>5, <1>6, <1>7 DEF Next

LEMMA TreeInit == Init => Tree
  BY DEF Init, Tree, ParentsEarlier, Asked, FrontKnown

\* The variables have their types in every reachable state; the element in front,
\* too, which exit finds by climbing the tree of elements.
THEOREM TypeCorrect == Spec => []TypeOK
<1>1. IInv /\ Tree => TypeOK
  BY DEF IInv, TablesOK, Tree, FrontKnown, TypeOK
<1>2. Spec => [](IInv /\ Tree)
  BY InitInv, NextInv, TreeInit, TreeNext, PTL DEF Spec
<1> QED
  BY <1>1, <1>2, PTL

-----------------------------------------------------------------------------
(* Groups and sessions *)

LEMMA LeftExactly ==
    ASSUME IInv, NEW p, InGroup(p)
    PROVE  /\ \A g \in DOMAIN Left(p) :
                 /\ g \in DOMAIN processGroups
                 /\ Left(p)[g].sid = processGroups[g].sid
                 /\ Left(p)[g].processes = {q \in processGroups[g].processes :
                                               ~(q = p /\ g = processes[p].pgid)}
                 /\ g = processes[p].pgid => Left(p)[g].processes # {}
           /\ \A g \in DOMAIN processGroups \ DOMAIN Left(p) :
                 g = processes[p].pgid /\ processGroups[g].processes \subseteq {p}
           /\ Left(p) \in [DOMAIN Left(p) -> Group]
<1> DEFINE h    == processes[p].pgid
           rest == processGroups[h].processes \ {p}
<1>1. /\ h \in DOMAIN processGroups /\ processGroups \in [DOMAIN processGroups -> Group]
      /\ rest \in SUBSET Pid /\ processGroups[h] \in Group
  BY DEF InGroup, Grouped, IInv, TablesOK, Group
<1>2. CASE rest = {}
  <2>1. Left(p) = [g \in DOMAIN processGroups \ {h} |-> processGroups[g]]
    BY <1>2 DEF Left, Without
  <2>2. processGroups[h].processes \subseteq {p}
    BY <1>2
  <2> HIDE DEF h
  <2>3. /\ DOMAIN Left(p) = DOMAIN processGroups \ {h}
        /\ \A g \in DOMAIN Left(p) : Left(p)[g] = processGroups[g]
    BY <2>1
  <2>4. ASSUME NEW g \in DOMAIN Left(p)
        PROVE  Left(p)[g].processes = {q \in processGroups[g].processes : ~(q = p /\ g = h)}
    BY <2>3
  <2> QED
    BY <1>1, <2>2, <2>3, <2>4, LeftFacts DEF h
<1>3. CASE rest # {}
  <2> DEFINE new == [processGroups[h] EXCEPT !.processes = rest]
  <2>1. Left(p) = [processGroups EXCEPT ![h] = new]
    BY <1>1, <1>3 DEF Left
  <2>2. new.processes = rest /\ new.sid = processGroups[h].sid
    BY <1>1 DEF Group
  <2>3. rest = {q \in processGroups[h].processes : ~(q = p /\ h = h)}
    OBVIOUS
  <2> HIDE DEF h, rest, new
  <2>4. /\ DOMAIN Left(p) = DOMAIN processGroups
        /\ Left(p)[h] = new
        /\ \A g \in DOMAIN processGroups : g # h => Left(p)[g] = processGroups[g]
    BY <1>1, <2>1
  <2>5. ASSUME NEW g \in DOMAIN processGroups
        PROVE  /\ Left(p)[g].sid = processGroups[g].sid
               /\ Left(p)[g].processes = {q \in processGroups[g].processes :
                                             ~(q = p /\ g = h)}
               /\ g = h => Left(p)[g].processes # {}
    <3>1. CASE g = h
      BY <1>3, <2>2, <2>3, <2>4, <3>1
    <3>2. CASE g # h
      BY <2>4, <3>2
    <3> QED
      BY <3>1, <3>2
  <2> QED
    BY <2>4, <2>5, LeftFacts DEF h
<1> QED
  BY <1>2, <1>3

\* A step does not carry a process into another session.
InSession == \A p \in DOMAIN processes \cap DOMAIN processes' :
                InGroup(p) /\ InGroup(p)' => Sid(p)' \in {Sid(p), p}

LEMMA SessionsSame ==
    ASSUME \A p \in DOMAIN processes \cap DOMAIN processes' :
              processes'[p].pgid = processes[p].pgid,
           \A g \in DOMAIN processGroups \cap DOMAIN processGroups' :
              processGroups'[g].sid = processGroups[g].sid
    PROVE  InSession
  BY DEF InSession, InGroup, Grouped, Sid

LEMMA MovedFacts ==
    ASSUME IInv, NEW p \in DOMAIN processes, NEW g, processes' = [processes EXCEPT ![p].pgid = g]
    PROVE  /\ DOMAIN processes' = DOMAIN processes
           /\ processes'[p].pgid = g
           /\ processes'[p].exited = processes[p].exited
           /\ processes'[p].domElement = processes[p].domElement
           /\ \A q \in DOMAIN processes : q # p => processes'[q] = processes[q]
<1>1. processes[p] \in Process
  BY DEF IInv, TablesOK
<1> QED
  BY <1>1 DEF Process

LEMMA SessionSetPGID ==
    ASSUME IInv, NEW e, NEW t, NEW p \in Pid, NEW g \in Pid, SetPGID(e, t, p, g)
    PROVE  InSession
<1> DEFINE groups == Left(p)
<1>1. InGroup(p) /\ p \in DOMAIN processes /\ SameSession(p, g)
  BY DEF SetPGID, SetPGIDAllowed, Related, Running, Exists
<1>2. /\ DOMAIN processes' = DOMAIN processes
      /\ processes'[p].pgid = g
      /\ \A q \in DOMAIN processes : q # p => processes'[q] = processes[q]
  BY <1>1, MovedFacts DEF SetPGID
<1>3. /\ \A h \in DOMAIN groups :
            /\ h \in DOMAIN processGroups
            /\ groups[h].sid = processGroups[h].sid
      /\ \A h \in DOMAIN processGroups \ DOMAIN groups :
            processGroups[h].processes \subseteq {p}
      /\ groups \in [DOMAIN groups -> Group]
  BY <1>1, LeftExactly
<1>4. processGroups' = IF g \in DOMAIN groups
                       THEN [groups EXCEPT ![g].processes = @ \cup {p}]
                       ELSE With(groups, g, NewGroup(g, Sid(p)))
  BY DEF SetPGID
<1> HIDE DEF groups
<1>5. /\ processGroups'[g].sid = Sid(p)
      /\ \A h \in DOMAIN processGroups' : h # g =>
            h \in DOMAIN groups /\ processGroups'[h].sid = processGroups[h].sid
      /\ g \in DOMAIN groups => processGroups'[g].sid = processGroups[g].sid
  <2>1. CASE g \in DOMAIN groups
    <3>1. processGroups' = [groups EXCEPT ![g] = [groups[g] EXCEPT !.processes = @ \cup {p}]]
      BY <1>4, <2>1
    <3>2. [groups[g] EXCEPT !.processes = @ \cup {p}].sid = groups[g].sid
      BY <1>3, <2>1 DEF Group
    <3>3. groups[g].sid = Sid(p)
      BY <1>1, <1>3, <2>1 DEF SameSession
    <3> QED
      BY <1>3, <2>1, <3>1, <3>2, <3>3
  <2>2. CASE g \notin DOMAIN groups
    <3>1. processGroups' = [h \in DOMAIN groups \cup {g} |->
                              IF h = g THEN NewGroup(g, Sid(p)) ELSE groups[h]]
      BY <1>4, <2>2 DEF With
    <3>2. NewGroup(g, Sid(p)).sid = Sid(p)
      BY DEF NewGroup
    <3> QED
      BY <1>3, <2>2, <3>1, <3>2
  <2> QED
    BY <2>1, <2>2
<1>6. ASSUME NEW q \in DOMAIN processes, InGroup(q), InGroup(q)'
      PROVE  Sid(q)' \in {Sid(q), q}
  <2>1. CASE q = p
    BY <1>2, <1>5, <2>1 DEF Sid
  <2>2. CASE q # p
    <3>1. processes'[q].pgid = processes[q].pgid
      BY <1>2, <2>2
    <3>2. processes[q].pgid \in DOMAIN processGroups /\ processes[q].pgid \in DOMAIN processGroups'
          /\ q \in processGroups[processes[q].pgid].processes
      BY <1>6, <3>1 DEF InGroup, Grouped
    <3>3. processes[q].pgid \in DOMAIN groups
      BY <1>3, <2>2, <3>2
    <3>4. processGroups'[processes[q].pgid].sid = processGroups[processes[q].pgid].sid
      BY <1>5, <3>2, <3>3
    <3> QED
      BY <3>1, <3>4 DEF Sid
  <2> QED
    BY <2>1, <2>2
<1> QED
  BY <1>2, <1>6 DEF InSession

LEMMA SessionSetSID ==
    ASSUME IInv, NEW e, NEW t, SetSID(e, t)
    PROVE  InSession
<1> DEFINE p == elements[e].pid
           groups == Left(p)
<1>1. InGroup(p) /\ p \in DOMAIN processes /\ p \notin DOMAIN processGroups
  BY DEF SetSID, InGroup, Grouped, Exists
<1>2. /\ processGroups' = With(groups, p, NewGroup(p, p))
      /\ processes' = [processes EXCEPT ![p].pgid = p]
  BY DEF SetSID
<1>3. \A h \in DOMAIN groups :
         h \in DOMAIN processGroups /\ groups[h].sid = processGroups[h].sid
  BY <1>1, LeftExactly
<1> HIDE DEF p, groups
<1>4. /\ DOMAIN processes' = DOMAIN processes
      /\ processes'[p].pgid = p
      /\ \A q \in DOMAIN processes : q # p => processes'[q] = processes[q]
  BY <1>1, <1>2, MovedFacts
<1>5. processGroups' = [h \in DOMAIN groups \cup {p} |->
                          IF h = p THEN NewGroup(p, p) ELSE groups[h]]
  BY <1>2 DEF With
<1>6. processGroups'[p].sid = p
  BY <1>5 DEF NewGroup
<1>7. ASSUME NEW q \in DOMAIN processes, InGroup(q), InGroup(q)'
      PROVE  Sid(q)' \in {Sid(q), q}
  <2>1. CASE q = p
    BY <1>4, <1>6, <2>1 DEF Sid
  <2>2. CASE q # p
    <3>1. processes'[q].pgid = processes[q].pgid
      BY <1>4, <2>2
    <3>2. processes[q].pgid \in DOMAIN processGroups /\ processes[q].pgid \in DOMAIN processGroups'
      BY <1>7, <3>1 DEF InGroup, Grouped
    <3> QED
      BY <1>1, <1>3, <1>5, <3>1, <3>2 DEF Sid
  <2> QED
    BY <2>1, <2>2
<1> QED
  BY <1>4, <1>7 DEF InSession

LEMMA SessionNext == IInv /\ [Next]_vars => InSession
<1> SUFFICES ASSUME IInv, [Next]_vars PROVE InSession
  OBVIOUS
<1>1. CASE SpawnRoot
  <2>1. DOMAIN processes = {}
    <3>1. Len(elements) = 0
      BY <1>1 DEF SpawnRoot
    <3>2. \A p \in DOMAIN processes : processes[p].domElement \in 1 .. Len(elements)
      BY DEF IInv, EntriesOK
    <3>3. 1 .. Len(elements) = {}
      BY <3>1
    <3> QED
      BY <3>2, <3>3
  <2> QED
    BY <2>1 DEF InSession
<1>2. ASSUME NEW e \in DOMAIN elements, NEW t \in Thread,
             \/ \E mode \in {"new", "overlay", "dead"} : Request_(e, t, mode)
             \/ \E p, g \in Pid : SetIdThrows(e, t, p, g)
             \/ \E arg \in Key \cup {0} : WaitCollects(e, t, arg) \/ WaitBlocks(e, t, arg)
      PROVE  InSession
  <2>1. processGroups' = processGroups
    BY <1>2 DEF Request_, SetIdThrows, WaitCollects, WaitBlocks
  <2>2. processes' = processes \/ \E p \in DOMAIN processes : processes' = Without(processes, p)
    BY <1>2 DEF Request_, SetIdThrows, WaitCollects, WaitBlocks
  <2> QED
    BY <2>1, <2>2, SessionsSame DEF Without
<1>3. ASSUME NEW e \in DOMAIN elements, NEW t \in Thread,
             SetSID(e, t) \/ \E p, g \in Pid : SetPGID(e, t, p, g)
      PROVE  InSession
  BY <1>3, SessionSetSID, SessionSetPGID
<1>4. ASSUME NEW r \in requests, Complete(r)
      PROVE  InSession
  <2>1. \A g \in DOMAIN processGroups \cap DOMAIN processGroups' :
           processGroups'[g].sid = processGroups[g].sid
    <3>1. ASSUME NEW b \in BOOLEAN, NEW o \in BOOLEAN, SpawnNew(r, b, o)
          PROVE  \A g \in DOMAIN processGroups : processGroups'[g].sid = processGroups[g].sid
      <4> DEFINE h == processes[elements[r.elem].pid].pgid
      <4>1. h \in DOMAIN processGroups
            /\ processGroups' = [processGroups EXCEPT ![h].processes = @ \cup {pid}]
        BY <3>1 DEF SpawnNew, Grouped
      <4>2. processGroups[h] \in Group
        BY <4>1 DEF IInv, TablesOK
      <4>3. [processGroups[h] EXCEPT !.processes = @ \cup {pid}].sid = processGroups[h].sid
        BY <4>2 DEF Group
      <4> HIDE DEF h
      <4> QED
        BY <4>1, <4>3
    <3>2. CASE SpawnThrows(r) \/ OverlayThrows(r) \/ SpawnRefused(r) \/ DeadPid(r)
               \/ DeadPidRefused(r) \/ \E b, o \in BOOLEAN : SpawnOverlay(r, b, o)
      BY <3>2 DEF SpawnThrows, OverlayThrows, SpawnRefused, DeadPid, DeadPidRefused, SpawnOverlay
    <3> QED
      BY <1>4, <3>1, <3>2 DEF Complete
  <2>2. \A p \in DOMAIN processes \cap DOMAIN processes' :
           processes'[p].pgid = processes[p].pgid
    <3>1. pid \notin DOMAIN processes
      BY DEF IInv, TablesOK, EntriesOK
    <3>2. \A p \in DOMAIN processes : \A x : With(processes, pid, x)[p] = processes[p]
      BY <3>1 DEF With
    <3>3. CASE \/ processes' = processes
               \/ \E x : processes' = With(processes, pid, x)
      BY <3>2, <3>3
    <3>4. ASSUME NEW b \in BOOLEAN, NEW o \in BOOLEAN, SpawnOverlay(r, b, o)
          PROVE  \A p \in DOMAIN processes : processes'[p].pgid = processes[p].pgid
      <4>1. /\ processes' = [processes EXCEPT ![r.pid].domElement = Len(elements) + 1]
            /\ r.pid \in DOMAIN processes
        BY <3>4 DEF SpawnOverlay, Exists
      <4>2. processes[r.pid] \in Process
        BY <4>1 DEF IInv, TablesOK
      <4> QED
        BY <4>1, <4>2 DEF Process
    <3>5. CASE SpawnThrows(r) \/ OverlayThrows(r) \/ SpawnRefused(r) \/ DeadPid(r)
               \/ DeadPidRefused(r) \/ \E b, o \in BOOLEAN : SpawnNew(r, b, o)
      <4>1. \/ processes' = processes
            \/ \E x : processes' = With(processes, pid, x)
        BY <3>5 DEF SpawnThrows, OverlayThrows, SpawnRefused, DeadPid, DeadPidRefused, SpawnNew
      <4> QED
        BY <3>3, <4>1
    <3> QED
      BY <1>4, <3>4, <3>5 DEF Complete
  <2> QED
    BY <2>1, <2>2, SessionsSame
<1>5. ASSUME NEW e \in DOMAIN elements, Exit(e)
      PROVE  InSession
  <2> DEFINE p == elements[e].pid
             got == Answered(p, processes[p].pgid, processes[p].ppid)
  <2>1. /\ InGroup(p) /\ p \in DOMAIN processes
        /\ processGroups' = Left(p) /\ processes' = Buried(p, got)
    BY <1>5 DEF Exit, InGroup, Grouped, Exists
  <2> HIDE DEF got
  <2>2. \A q \in DOMAIN processes \cap DOMAIN processes' :
           processes'[q].pgid = processes[q].pgid
    <3>1. processes[p] \in Process
      BY <2>1 DEF IInv, TablesOK
    <3>2. CASE got = {}
      BY <2>1, <3>1, <3>2 DEF Buried, Process
    <3>3. CASE got # {}
      BY <2>1, <3>3 DEF Buried, Without
    <3> QED
      BY <3>2, <3>3
  <2> QED
    BY <2>1, <2>2, LeftExactly, SessionsSame
<1>6. CASE UNCHANGED vars \/ \E e \in DOMAIN elements : ModuleEndsUnheard(e) \/ PopupOpens(e)
  <2>1. processes' = processes /\ processGroups' = processGroups
    BY <1>6 DEF vars, ModuleEndsUnheard, PopupOpens
  <2> QED
    BY <2>1, SessionsSame
<1> QED
  BY <1>1, <1>2, <1>3, <1>4, <1>5, <1>6 DEF Next, ModuleEnds, Sigint, PopupCloses

\* setpgid, setsid, spawn and exit never carry a process into another session: it
\* stays in its own, or leads a new one.  Whatever setpgid is called with, and
\* with exec.
THEOREM Sessions == Spec => SessionKept
<1>1. IInv /\ [Next]_vars =>
        [\A p \in DOMAIN processes \cap DOMAIN processes' :
            InGroup(p) /\ InGroup(p)' => Sid(p)' \in {Sid(p), p}]_vars
  BY SessionNext DEF InSession
<1> QED
  BY <1>1, Invariance, PTL DEF Spec, SessionKept

-----------------------------------------------------------------------------
(* Without exec, an element and its process stand for each other *)

\* In a page, or about to be.
Shown(node) == node.attached \/ node.popup = "opening"

ElementsRun ==
    \A e \in DOMAIN elements : elements[e].pid # -1 =>
        /\ Shown(elements[e]) /\ Running(elements[e].pid)
        /\ processes[elements[e].pid].domElement = e
NoOverlays == \A r \in requests : r.mode # "overlay"
FrontLives == foregroundProcess # 0 => \/ elements[foregroundProcess].pid # -1
                                       \/ StuckPopup(foregroundProcess)
Solo       == ElementsRun /\ NoOverlays /\ FrontLives

\* Of processes after a step.
RunsThen(p) == p \in DOMAIN processes' /\ ~processes'[p].exited

\* Processes that run keep running, with their element.
StillRun ==
    \A p \in DOMAIN processes :
        Running(p) => RunsThen(p) /\ processes'[p].domElement = processes[p].domElement

LEMMA SoloKept ==
    ASSUME Solo, UNCHANGED <<elements, foregroundProcess>>, StillRun, NoOverlays'
    PROVE  Solo'
<1>1. ElementsRun'
  BY DEF Solo, ElementsRun, StillRun, RunsThen, Running, Exists
<1>2. FrontLives'
  BY DEF Solo, FrontLives, StuckPopup
<1> QED
  BY <1>1, <1>2 DEF Solo

LEMMA SoloGrows ==
    ASSUME IInv, Tree, Solo, StillRun, NoOverlays', NEW n \in Node,
           elements' = Append(elements, n),
           n.pid # -1 => /\ Shown(n) /\ RunsThen(n.pid)
                         /\ processes'[n.pid].domElement = Len(elements) + 1,
           \/ foregroundProcess' = foregroundProcess
           \/ foregroundProcess' = Len(elements) + 1 /\ n.pid # -1
           \/ foregroundProcess' \in DOMAIN elements /\ elements[foregroundProcess'].pid # -1
    PROVE  Solo'
<1>1. elements \in Seq(Node) /\ Len(elements) \in Nat /\ DOMAIN elements = 1 .. Len(elements)
      /\ foregroundProcess \in 0 .. Len(elements)
  BY DEF IInv, TablesOK, Tree, FrontKnown
<1>2. /\ DOMAIN elements' = 1 .. Len(elements) + 1
      /\ \A i \in DOMAIN elements : elements'[i] = elements[i]
      /\ elements'[Len(elements) + 1] = n
  BY <1>1
<1>3. ASSUME NEW e \in DOMAIN elements', elements'[e].pid # -1
      PROVE  /\ Shown(elements'[e]) /\ RunsThen(elements'[e].pid)
             /\ processes'[elements'[e].pid].domElement = e
  <2>1. CASE e \in DOMAIN elements
    <3>1. elements'[e] = elements[e]
      BY <1>2, <2>1
    <3>2. /\ Shown(elements[e]) /\ Running(elements[e].pid)
          /\ processes[elements[e].pid].domElement = e
      BY <1>3, <2>1, <3>1 DEF Solo, ElementsRun
    <3> QED
      BY <3>1, <3>2 DEF StillRun, RunsThen, Running, Exists
  <2>2. CASE e = Len(elements) + 1
    BY <1>2, <1>3, <2>2
  <2> QED
    BY <1>1, <1>2, <2>1, <2>2
<1>4. ElementsRun'
  BY <1>3 DEF ElementsRun, RunsThen, Running, Exists
<1>5. FrontLives'
  BY <1>1, <1>2 DEF Solo, FrontLives, StuckPopup
<1> QED
  BY <1>4, <1>5 DEF Solo

LEMMA AddedRuns ==
    ASSUME IInv, NEW entry, processes' = With(processes, pid, entry)
    PROVE  /\ StillRun /\ pid \notin DOMAIN processes
           /\ DOMAIN processes' = DOMAIN processes \cup {pid}
           /\ processes'[pid] = entry
           /\ \A p \in DOMAIN processes : processes'[p] = processes[p]
<1>1. pid \notin DOMAIN processes
  BY DEF IInv, TablesOK, EntriesOK
<1>2. processes' = [p \in DOMAIN processes \cup {pid} |->
                      IF p = pid THEN entry ELSE processes[p]]
  BY DEF With
<1>3. /\ DOMAIN processes' = DOMAIN processes \cup {pid}
      /\ processes'[pid] = entry
      /\ \A p \in DOMAIN processes : processes'[p] = processes[p]
  BY <1>1, <1>2
<1> QED
  BY <1>1, <1>3 DEF StillRun, RunsThen, Running, Exists

LEMMA BuriedFacts ==
    ASSUME IInv, NEW p \in DOMAIN processes, NEW got, processes' = Buried(p, got)
    PROVE  \A q \in DOMAIN processes :
              /\ q # p => q \in DOMAIN processes' /\ processes'[q] = processes[q]
              /\ RunsThen(q) <=> q # p /\ Running(q)
<1>1. processes[p] \in Process
  BY DEF IInv, TablesOK
<1>2. CASE got = {}
  <2>1. processes' = [processes EXCEPT ![p] = [processes[p] EXCEPT !.exited = TRUE]]
    BY <1>2 DEF Buried
  <2>2. [processes[p] EXCEPT !.exited = TRUE].exited = TRUE
    BY <1>1 DEF Process
  <2> QED
    BY <2>1, <2>2 DEF RunsThen, Running, Exists
<1>3. CASE got # {}
  <2>1. processes' = [q \in DOMAIN processes \ {p} |-> processes[q]]
    BY <1>3 DEF Buried, Without
  <2> QED
    BY <2>1 DEF RunsThen, Running, Exists
<1> QED
  BY <1>2, <1>3

LEMMA SoloExit ==
    ASSUME IInv, Tree, Solo, NEW e \in DOMAIN elements, Exit(e)
    PROVE  Solo'
<1> DEFINE p   == elements[e].pid
           got == Answered(p, processes[p].pgid, processes[p].ppid)
           n   == Ended(elements[e])
<1>1. /\ p \in DOMAIN processes /\ processes' = Buried(p, got)
      /\ elements' = [elements EXCEPT ![e] = n]
      /\ foregroundProcess' = IF foregroundProcess = e /\ elements[e].popup # "opening"
                              THEN LiveAncestor(e) ELSE foregroundProcess
      /\ requests' = requests
  BY DEF Exit, InGroup, Grouped, Exists
<1>2. elements \in Seq(Node) /\ DOMAIN elements = 1 .. Len(elements) /\ elements[e] \in Node
      /\ Len(elements) \in Nat /\ foregroundProcess \in 0 .. Len(elements)
  BY DEF IInv, TablesOK, Tree, FrontKnown
<1>4. n.pid = -1 /\ (elements[e].popup = "opening" => n.popup = "opening")
  BY <1>2, EndedFacts
<1>5. \A q \in DOMAIN processes :
         /\ q # p => q \in DOMAIN processes' /\ processes'[q] = processes[q]
         /\ RunsThen(q) <=> q # p /\ Running(q)
  <2> HIDE DEF got
  <2> QED
    BY <1>1, BuriedFacts
<1> HIDE DEF p, got, n
<1>6. p # -1 /\ processes[p].domElement = e
  <2>1. p # -1
    BY <1>1 DEF IInv, TablesOK, Pid
  <2> QED
    BY <2>1 DEF Solo, ElementsRun, p
<1>7. /\ DOMAIN elements' = DOMAIN elements /\ elements'[e] = n
      /\ \A x \in DOMAIN elements : x # e => elements'[x] = elements[x]
  BY <1>1, <1>2
<1>8. ElementsRun'
  <2> SUFFICES ASSUME NEW x \in DOMAIN elements, elements'[x].pid # -1
               PROVE  /\ Shown(elements'[x]) /\ RunsThen(elements'[x].pid)
                      /\ processes'[elements'[x].pid].domElement = x
    BY <1>7 DEF ElementsRun, RunsThen, Running, Exists
  <2>1. x # e /\ elements'[x] = elements[x]
    BY <1>4, <1>7
  <2>2. /\ Shown(elements[x]) /\ Running(elements[x].pid)
        /\ processes[elements[x].pid].domElement = x
    BY <2>1 DEF Solo, ElementsRun
  <2>3. elements[x].pid \in DOMAIN processes /\ elements[x].pid # p
    BY <1>6, <2>1, <2>2 DEF RunsThen, Running, Exists
  <2> QED
    BY <1>5, <2>1, <2>2, <2>3 DEF RunsThen
<1>9. FrontLives'
  <2>3. CASE foregroundProcess = e /\ elements[e].popup = "opening"
    <3>1. foregroundProcess' = e /\ StuckPopup(e)'
      BY <1>1, <1>4, <1>7, <2>3 DEF StuckPopup
    <3> QED
      BY <3>1 DEF FrontLives
  <2>1. CASE foregroundProcess = e /\ elements[e].popup # "opening"
    <3>1. foregroundProcess' = LiveAncestor(e)
      BY <1>1, <2>1
    <3>2. /\ LiveAncestor(e) \in 0 .. Len(elements) /\ LiveAncestor(e) < e
          /\ LiveAncestor(e) # 0 => elements[LiveAncestor(e)].pid # -1
      BY AncestorFacts DEF Tree
    <3> QED
      BY <1>2, <1>7, <3>1, <3>2 DEF FrontLives
  <2>2. CASE foregroundProcess # e
    BY <1>1, <1>2, <1>7, <2>2 DEF Solo, FrontLives, StuckPopup
  <2> QED
    BY <2>1, <2>2, <2>3
<1> QED
  BY <1>1, <1>8, <1>9 DEF Solo, NoOverlays

LEMMA SoloComplete ==
    ASSUME IInv, Tree, Solo, NEW r \in requests, Complete(r)
    PROVE  Solo'
<1>1. \A x \in (requests \ {r}) \cup Lost(r) : x.mode # "overlay"
  BY LostElem DEF Solo, NoOverlays
<1>2. r.elem \in DOMAIN elements /\ r.mode # "overlay"
  BY DEF Tree, Asked, Solo, NoOverlays
<1>3. ASSUME NEW b \in BOOLEAN, NEW o \in BOOLEAN, SpawnNew(r, b, o)
      PROVE  Solo'
  <2> DEFINE node == Image(pid, r.elem, o)
  <2>1. /\ elements' = Append(elements, node) /\ requests' = requests \ {r}
        /\ foregroundProcess' \in {foregroundProcess, Len(elements) + 1} /\ pid <= MaxPid
        /\ processes' = With(processes, pid, Child(r)) /\ Exists(elements[r.elem].pid)
        /\ Len(elements) < MaxElement
    BY <1>3 DEF SpawnNew, Foreground, HasRoom, Grouped
  <2>2. node \in Node /\ node.pid = pid /\ Shown(node) /\ pid # -1
    <3>1. pid \in Pid /\ pid # -1 /\ r.elem \in Element
      BY <2>1 DEF IInv, TablesOK, Pid, Request
    <3> QED
      BY <3>1, ImageFacts DEF Shown
  <2>3. /\ StillRun
        /\ RunsThen(pid) /\ processes'[pid].domElement = Len(elements) + 1
    BY <2>1, AddedRuns, ChildType DEF RunsThen, Running, Exists
  <2> HIDE DEF node
  <2>4. NoOverlays'
    BY <1>1, <2>1 DEF NoOverlays
  <2> QED
    BY <2>1, <2>2, <2>3, <2>4, SoloGrows
<1>4. CASE SpawnThrows(r)
  <2> DEFINE node == Gone(0)
  <2>1. /\ elements' = Append(elements, node) \/ elements' = elements
        /\ requests' = Lost(r) /\ foregroundProcess' = foregroundProcess
        /\ processes' = processes \/ processes' = With(processes, pid, Child(r))
    BY <1>4 DEF SpawnThrows
  <2>2. node \in Node /\ node.pid = -1
    BY GoneFacts
  <2>3. StillRun
    BY <2>1, AddedRuns DEF StillRun, RunsThen, Running, Exists
  <2> HIDE DEF node
  <2>4. NoOverlays'
    BY <1>1, <2>1 DEF NoOverlays
  <2> QED
    BY <2>1, <2>2, <2>3, <2>4, SoloGrows, SoloKept
<1>5. CASE DeadPid(r)
  <2> DEFINE node == Gone(r.elem)
  <2>1. /\ elements' = Append(elements, node) /\ requests' = requests \ {r}
        /\ foregroundProcess' \in {foregroundProcess, r.elem}
        /\ processes' = processes
              \/ processes' = With(processes, pid, [Child(r) EXCEPT !.exited = TRUE])
        /\ Exists(elements[r.elem].pid)
    BY <1>5 DEF DeadPid, Foreground, Grouped
  <2>2. node \in Node /\ node.pid = -1
    <3>1. r.elem \in Element
      BY DEF IInv, TablesOK, Request
    <3> QED
      BY <3>1, GoneFacts
  <2>3. StillRun
    BY <2>1, AddedRuns DEF StillRun, RunsThen, Running, Exists
  <2>4. elements[r.elem].pid # -1
    BY <2>1 DEF Exists, IInv, TablesOK, Pid
  <2> HIDE DEF node
  <2>5. NoOverlays'
    BY <1>1, <2>1 DEF NoOverlays
  <2> QED
    BY <1>2, <2>1, <2>2, <2>3, <2>4, <2>5, SoloGrows
<1>6. CASE OverlayThrows(r) \/ SpawnRefused(r) \/ DeadPidRefused(r)
  <2>3. [r EXCEPT !.mode = "refused"].mode = "refused"
    BY DEF IInv, TablesOK, Request
  <2>1. /\ UNCHANGED <<processes, elements, foregroundProcess>>
        /\ \A x \in requests' : x \in (requests \ {r}) \cup Lost(r) \/ x.mode = "refused"
    BY <1>6, <2>3 DEF OverlayThrows, SpawnRefused, DeadPidRefused
  <2>2. StillRun /\ NoOverlays'
    BY <1>1, <2>1 DEF StillRun, RunsThen, Running, Exists, NoOverlays
  <2> QED
    BY <2>1, <2>2, SoloKept
<1>7. \A b, o \in BOOLEAN : ~SpawnOverlay(r, b, o)
  BY <1>2 DEF SpawnOverlay
<1> QED
  BY <1>3, <1>4, <1>5, <1>6, <1>7 DEF Complete

LEMMA SoloPopup ==
    ASSUME IInv, Tree, Solo, NEW e \in DOMAIN elements, PopupOpens(e)
    PROVE  Solo'
<1> DEFINE n == [elements[e] EXCEPT !.popup = "open", !.attached = TRUE]
<1>1. /\ elements' = [elements EXCEPT ![e].popup = "open", ![e].attached = TRUE]
      /\ UNCHANGED <<processes, foregroundProcess, requests>> /\ elements[e].pid # -1
  BY DEF PopupOpens
<1>2. elements \in Seq(Node) /\ elements[e] \in Node
  BY DEF IInv, TablesOK
<1>3. n.pid = elements[e].pid /\ n.attached /\ elements' = [elements EXCEPT ![e] = n]
  BY <1>1, <1>2 DEF Node
<1> HIDE DEF n
<1>4. /\ DOMAIN elements' = DOMAIN elements /\ elements'[e] = n
      /\ \A x \in DOMAIN elements : x # e => elements'[x] = elements[x]
  BY <1>2, <1>3
<1>5. ElementsRun'
  BY <1>1, <1>3, <1>4 DEF Solo, ElementsRun, Shown, Running, Exists
<1>6. FrontLives'
  <2>1. CASE foregroundProcess = e
    BY <1>1, <1>3, <1>4, <2>1 DEF FrontLives
  <2>2. CASE foregroundProcess # e
    <3>1. foregroundProcess # 0 => elements[foregroundProcess]' = elements[foregroundProcess]
      BY <1>1, <1>2, <1>4, <2>2 DEF Tree, FrontKnown
    <3> QED
      BY <1>1, <3>1 DEF Solo, FrontLives, StuckPopup
  <2> QED
    BY <2>1, <2>2
<1> QED
  BY <1>1, <1>5, <1>6 DEF Solo, NoOverlays

LEMMA SoloNext == ~AllowOverlay /\ IInv /\ Tree /\ Solo /\ [Next]_vars => Solo'
<1> SUFFICES ASSUME ~AllowOverlay, IInv, Tree, Solo, [Next]_vars PROVE Solo'
  OBVIOUS
<1>1. CASE SpawnRoot
  <2> DEFINE node  == [pid |-> pid, parent |-> 0, attached |-> TRUE, popup |-> "none"]
             entry == [domElement |-> 1, exited |-> FALSE, pgid |-> pid, ppid |-> INIT_PID]
  <2>1. /\ elements = <<>> /\ elements' = <<node>> /\ requests' = requests
        /\ foregroundProcess' = 1 /\ processes' = With(processes, pid, entry) /\ pid <= MaxPid
    BY <1>1 DEF SpawnRoot
  <2>2. Len(elements) = 0 /\ elements' = Append(elements, node)
    BY <2>1
  <2>3. node \in Node /\ node.pid = pid /\ Shown(node) /\ pid # -1
    BY <2>1 DEF Node, IInv, TablesOK, Pid, Shown
  <2>4. ~entry.exited /\ entry.domElement = 1
    OBVIOUS
  <2> HIDE DEF node, entry
  <2>5. /\ StillRun
        /\ RunsThen(pid) /\ processes'[pid].domElement = 1
    BY <2>1, <2>4, AddedRuns DEF RunsThen, Running, Exists
  <2>6. NoOverlays'
    BY <2>1 DEF Solo, NoOverlays
  <2>7. foregroundProcess' = Len(elements) + 1 /\ processes'[node.pid].domElement = Len(elements) + 1
        /\ RunsThen(node.pid)
    BY <2>1, <2>2, <2>3, <2>5
  <2> QED
    BY <2>2, <2>3, <2>5, <2>6, <2>7, SoloGrows
<1>2. ASSUME NEW e \in DOMAIN elements, NEW t \in Thread,
             \/ \E mode \in {"new", "overlay", "dead"} : Request_(e, t, mode)
             \/ \E p, g \in Pid : SetIdThrows(e, t, p, g)
             \/ \E arg \in Key \cup {0} : WaitBlocks(e, t, arg)
      PROVE  Solo'
  <2>1. /\ UNCHANGED <<elements, foregroundProcess>> /\ processes' = processes
        /\ \A r \in requests' : r \in requests \/ r.mode # "overlay"
    BY <1>2 DEF Request_, SetIdThrows, WaitBlocks
  <2>2. StillRun /\ NoOverlays'
    BY <2>1 DEF StillRun, RunsThen, Running, Exists, Solo, NoOverlays
  <2> QED
    BY <2>1, <2>2, SoloKept
<1>3. ASSUME NEW e \in DOMAIN elements, NEW t \in Thread, NEW arg, WaitCollects(e, t, arg)
      PROVE  Solo'
  <2>1. PICK p \in DOMAIN processes : Zombie(p) /\ processes' = Without(processes, p)
    BY <1>3 DEF WaitCollects
  <2>2. UNCHANGED <<elements, foregroundProcess, requests>>
    BY <1>3 DEF WaitCollects
  <2>3. StillRun /\ NoOverlays'
    BY <2>1, <2>2 DEF Without, StillRun, RunsThen, Running, Zombie, Exists, Solo, NoOverlays
  <2> QED
    BY <2>2, <2>3, SoloKept
<1>4. ASSUME NEW e \in DOMAIN elements, NEW t \in Thread,
             SetSID(e, t) \/ \E p, g \in Pid : SetPGID(e, t, p, g)
      PROVE  Solo'
  <2>1. UNCHANGED <<elements, foregroundProcess, requests>>
    BY <1>4 DEF SetSID, SetPGID
  <2>2. PICK p \in DOMAIN processes :
              \E g : processes' = [processes EXCEPT ![p].pgid = g]
    BY <1>4 DEF SetSID, SetPGID, SetPGIDAllowed, Related, Running, InGroup, Grouped, Exists
  <2>3. StillRun /\ NoOverlays'
    BY <2>1, <2>2, MovedFacts DEF StillRun, RunsThen, Running, Exists, Solo, NoOverlays
  <2> QED
    BY <2>1, <2>3, SoloKept
<1>5. CASE \E r \in requests : Complete(r)
  BY <1>5, SoloComplete
<1>6. CASE \E e \in DOMAIN elements : ModuleEnds(e) \/ Sigint(e) \/ PopupCloses(e)
  BY <1>6, SoloExit DEF ModuleEnds, Sigint, PopupCloses
<1>8. CASE \E e \in DOMAIN elements : PopupOpens(e)
  BY <1>8, SoloPopup
<1>7. CASE UNCHANGED vars \/ \E e \in DOMAIN elements : ModuleEndsUnheard(e)
  <2>1. /\ UNCHANGED <<elements, foregroundProcess, processes>>
        /\ \A r \in requests' : r \in requests \/ r.mode # "overlay"
    BY <1>7 DEF vars, ModuleEndsUnheard
  <2>2. StillRun /\ NoOverlays'
    BY <2>1 DEF StillRun, RunsThen, Running, Exists, Solo, NoOverlays
  <2> QED
    BY <2>1, <2>2, SoloKept
<1> QED
  BY <1>1, <1>2, <1>3, <1>4, <1>5, <1>6, <1>7, <1>8 DEF Next

LEMMA SoloInit == Init => Solo
  BY DEF Init, Solo, ElementsRun, NoOverlays, FrontLives

LEMMA SoloInvariance ==
    ASSUME ~AllowOverlay
    PROVE  Spec => [](IInv /\ Tree /\ Solo)
  BY InitInv, NextInv, TreeInit, TreeNext, SoloInit, SoloNext, PTL DEF Spec

\* Where no image replaces itself, the input goes to a process that runs, in a page
\* or with a window that is about to open, or to none (spawn, exit, popups and
\* Control-C): the end of any process hands it to a live ancestor, but for the end
\* of a popup before its window is there, where exit throws and the input stays.
THEOREM InputGoesToALiveProcess ==
    ASSUME ~AllowOverlay
    PROVE  Spec => []ForegroundRuns
<1>1. IInv /\ Tree /\ Solo => ForegroundRuns
  BY DEF IInv, TablesOK, Tree, FrontKnown, Solo, ElementsRun, FrontLives, ForegroundRuns, Shown
<1> QED
  BY <1>1, SoloInvariance, PTL

\* The two halves of GroupMembership, after a step.
ListedThen(p) == /\ processes'[p].pgid \in DOMAIN processGroups'
                 /\ p \in processGroups'[processes'[p].pgid].processes
MembersThen(g) == /\ processGroups'[g].processes # {}
                  /\ \A p \in processGroups'[g].processes :
                        RunsThen(p) /\ processes'[p].pgid = g

LEMMA GroupsNext ==
    ASSUME \A p \in DOMAIN processes' : RunsThen(p) => ListedThen(p),
           \A g \in DOMAIN processGroups' : MembersThen(g)
    PROVE  GroupMembership'
  BY DEF GroupMembership, InGroup, Grouped, Running, Exists, RunsThen, ListedThen, MembersThen

LEMMA GroupsKept ==
    ASSUME GroupMembership, processGroups' = processGroups,
           \A p : /\ RunsThen(p) <=> Running(p)
                  /\ Running(p) => processes'[p].pgid = processes[p].pgid
    PROVE  GroupMembership'
<1>1. ASSUME NEW p \in DOMAIN processes', RunsThen(p)
      PROVE  ListedThen(p)
  <2>1. Running(p) /\ processes'[p].pgid = processes[p].pgid
    BY <1>1
  <2>2. InGroup(p)
    BY <2>1 DEF GroupMembership, Running, Exists
  <2> QED
    BY <2>1, <2>2 DEF InGroup, Grouped, ListedThen
<1>2. ASSUME NEW g \in DOMAIN processGroups'
      PROVE  MembersThen(g)
  BY DEF GroupMembership, MembersThen
<1> QED
  BY <1>1, <1>2, GroupsNext

\* A process moves into a group that then lists it.
LEMMA GroupsMove ==
    ASSUME IInv, GroupMembership, NEW p \in DOMAIN processes, NEW g, InGroup(p),
           processes' = [processes EXCEPT ![p].pgid = g],
           g \in DOMAIN processGroups',
           processGroups'[g].processes =
               IF g \in DOMAIN Left(p) THEN Left(p)[g].processes \cup {p} ELSE {p},
           DOMAIN processGroups' = DOMAIN Left(p) \cup {g},
           \A h \in DOMAIN Left(p) : h # g => processGroups'[h] = Left(p)[h]
    PROVE  GroupMembership'
<1>1. /\ DOMAIN processes' = DOMAIN processes /\ processes'[p].pgid = g
      /\ processes'[p].exited = processes[p].exited
      /\ \A q \in DOMAIN processes : q # p => processes'[q] = processes[q]
  BY MovedFacts
<1> DEFINE groups == Left(p)
           was    == processes[p].pgid
<1>2. /\ \A h \in DOMAIN groups :
            /\ h \in DOMAIN processGroups
            /\ groups[h].processes = {q \in processGroups[h].processes : ~(q = p /\ h = was)}
            /\ h = was => groups[h].processes # {}
      /\ \A h \in DOMAIN processGroups \ DOMAIN groups :
            h = was /\ processGroups[h].processes \subseteq {p}
  BY LeftExactly
<1>3. Running(p) /\ p \in processGroups[was].processes
  BY DEF GroupMembership, InGroup, Grouped
<1> HIDE DEF groups, was
<1>4. \A h \in DOMAIN groups : \A q \in groups[h].processes :
         q # p /\ Running(q) /\ processes[q].pgid = h
  <2>1. \A h \in DOMAIN processGroups : \A q \in processGroups[h].processes :
           Running(q) /\ processes[q].pgid = h
    BY DEF GroupMembership
  <2> QED
    BY <1>2, <2>1 DEF was
<1>5. \A h \in DOMAIN groups : groups[h].processes # {}
  <2>1. \A h \in DOMAIN processGroups : processGroups[h].processes # {}
    BY DEF GroupMembership
  <2> QED
    BY <1>2, <2>1
<1>6. ASSUME NEW h \in DOMAIN processGroups'
      PROVE  MembersThen(h)
  <2>1. RunsThen(p)
    BY <1>1, <1>3 DEF RunsThen, Running, Exists
  <2>2. ASSUME NEW q, q # p, Running(q)
        PROVE  RunsThen(q) /\ processes'[q].pgid = processes[q].pgid
    BY <1>1, <2>2 DEF RunsThen, Running, Exists
  <2>3. CASE h = g
    BY <1>1, <1>4, <2>1, <2>2, <2>3 DEF MembersThen, groups
  <2>4. CASE h # g
    <3>1. h \in DOMAIN groups /\ processGroups'[h] = groups[h]
      BY <2>4 DEF groups
    <3> QED
      BY <1>4, <1>5, <2>2, <3>1 DEF MembersThen
  <2> QED
    BY <2>3, <2>4
<1>7. ASSUME NEW q \in DOMAIN processes', RunsThen(q)
      PROVE  ListedThen(q)
  <2>1. CASE q = p
    BY <1>1, <2>1 DEF ListedThen
  <2>2. CASE q # p
    <3> DEFINE h == processes[q].pgid
    <3>1. Running(q) /\ processes'[q].pgid = h
      BY <1>1, <1>7, <2>2 DEF RunsThen, Running, Exists
    <3>2. h \in DOMAIN processGroups /\ q \in processGroups[h].processes
      BY <3>1 DEF GroupMembership, InGroup, Grouped, Running, Exists
    <3> HIDE DEF h
    <3>3. h \in DOMAIN groups /\ q \in groups[h].processes
      BY <1>2, <2>2, <3>2
    <3>4. h \in DOMAIN processGroups' /\ q \in processGroups'[h].processes
      <4>1. CASE h = g
        BY <3>3, <4>1 DEF groups
      <4>2. CASE h # g
        BY <3>3, <4>2 DEF groups
      <4> QED
        BY <4>1, <4>2
    <3> QED
      BY <3>1, <3>4 DEF ListedThen
  <2> QED
    BY <2>1, <2>2
<1> QED
  BY <1>6, <1>7, GroupsNext

\* setpgid is called with the process itself or with a group that has others: the
\* group it enters is there without it, or is its own.
LEMMA GroupSetPGID ==
    ASSUME ~AnyGroup, IInv, GroupMembership, NEW e, NEW t, NEW p \in Pid, NEW g \in Pid,
           SetPGID(e, t, p, g)
    PROVE  GroupMembership'
<1> DEFINE groups == Left(p)
<1>1. /\ InGroup(p) /\ p \in DOMAIN processes /\ Sensible(p, g)
      /\ processes' = [processes EXCEPT ![p].pgid = g]
      /\ processGroups' = IF g \in DOMAIN groups
                          THEN [groups EXCEPT ![g].processes = @ \cup {p}]
                          ELSE With(groups, g, NewGroup(g, Sid(p)))
  BY DEF SetPGID, SetPGIDAllowed, Related, Running, Exists
<1>2. groups \in [DOMAIN groups -> Group]
      /\ \A h \in DOMAIN processGroups \ DOMAIN groups : processGroups[h].processes \subseteq {p}
  BY <1>1, LeftExactly
<1>3. g \notin DOMAIN groups => g = p
  BY <1>1, <1>2 DEF Sensible
<1> HIDE DEF groups
<1>4. CASE g \in DOMAIN groups
  <2>1. processGroups' = [groups EXCEPT ![g] = [groups[g] EXCEPT !.processes = @ \cup {p}]]
    BY <1>1, <1>4
  <2>2. [groups[g] EXCEPT !.processes = @ \cup {p}].processes = groups[g].processes \cup {p}
    BY <1>2, <1>4 DEF Group
  <2>3. /\ DOMAIN processGroups' = DOMAIN groups \cup {g}
        /\ processGroups'[g].processes = groups[g].processes \cup {p}
        /\ \A h \in DOMAIN groups : h # g => processGroups'[h] = groups[h]
    BY <1>2, <1>4, <2>1, <2>2
  <2> QED
    BY <1>1, <1>4, <2>3, GroupsMove DEF groups
<1>5. CASE g \notin DOMAIN groups
  <2>1. processGroups' = [h \in DOMAIN groups \cup {g} |->
                            IF h = g THEN NewGroup(g, Sid(p)) ELSE groups[h]]
    BY <1>1, <1>5 DEF With
  <2>2. NewGroup(g, Sid(p)).processes = {p}
    BY <1>3, <1>5 DEF NewGroup
  <2>3. /\ DOMAIN processGroups' = DOMAIN groups \cup {g}
        /\ processGroups'[g].processes = {p}
        /\ \A h \in DOMAIN groups : h # g => processGroups'[h] = groups[h]
    BY <2>1, <2>2
  <2> QED
    BY <1>1, <1>5, <2>3, GroupsMove DEF groups
<1> QED
  BY <1>4, <1>5

LEMMA GroupSetSID ==
    ASSUME IInv, GroupMembership, NEW e, NEW t, SetSID(e, t)
    PROVE  GroupMembership'
<1> DEFINE p == elements[e].pid
           groups == Left(p)
<1>1. /\ InGroup(p) /\ p \in DOMAIN processes /\ p \notin DOMAIN processGroups
      /\ processGroups' = With(groups, p, NewGroup(p, p))
      /\ processes' = [processes EXCEPT ![p].pgid = p]
  BY DEF SetSID, InGroup, Grouped, Exists
<1>2. \A h \in DOMAIN groups : h \in DOMAIN processGroups
  BY <1>1, LeftExactly
<1> HIDE DEF p
<1>3. p \notin DOMAIN groups
  BY <1>1, <1>2
<1> HIDE DEF groups
<1>4. processGroups' = [h \in DOMAIN groups \cup {p} |->
                          IF h = p THEN NewGroup(p, p) ELSE groups[h]]
  BY <1>1 DEF With
<1>5. /\ DOMAIN processGroups' = DOMAIN groups \cup {p}
      /\ processGroups'[p].processes = {p}
      /\ \A h \in DOMAIN groups : h # p => processGroups'[h] = groups[h]
  BY <1>4 DEF NewGroup
<1> QED
  BY <1>1, <1>3, <1>5, GroupsMove DEF groups

LEMMA GroupExit ==
    ASSUME IInv, GroupMembership, NEW e \in DOMAIN elements, Exit(e)
    PROVE  GroupMembership'
<1> DEFINE p      == elements[e].pid
           was    == processes[p].pgid
           got    == Answered(p, processes[p].pgid, processes[p].ppid)
           groups == Left(p)
<1>1. /\ InGroup(p) /\ p \in DOMAIN processes
      /\ processGroups' = groups /\ processes' = Buried(p, got)
  BY DEF Exit, InGroup, Grouped, Exists
<1> HIDE DEF got
<1>2. \A q \in DOMAIN processes :
         /\ q # p => q \in DOMAIN processes' /\ processes'[q] = processes[q]
         /\ RunsThen(q) <=> q # p /\ Running(q)
  BY <1>1, BuriedFacts
<1>3. /\ \A h \in DOMAIN groups :
            /\ h \in DOMAIN processGroups
            /\ groups[h].processes = {q \in processGroups[h].processes : ~(q = p /\ h = was)}
            /\ h = was => groups[h].processes # {}
      /\ \A h \in DOMAIN processGroups \ DOMAIN groups :
            h = was /\ processGroups[h].processes \subseteq {p}
  BY <1>1, LeftExactly
<1>4. DOMAIN processes' \subseteq DOMAIN processes
  BY <1>1 DEF Buried, Without
<1> HIDE DEF p, groups
<1>5. \A h \in DOMAIN processGroups : /\ processGroups[h].processes # {}
                                      /\ \A q \in processGroups[h].processes :
                                            Running(q) /\ processes[q].pgid = h
  BY DEF GroupMembership
<1>6. ASSUME NEW h \in DOMAIN processGroups'
      PROVE  MembersThen(h)
  <2>1. processGroups'[h].processes
           = {q \in processGroups[h].processes : ~(q = p /\ h = was)}
        /\ h \in DOMAIN processGroups /\ (h = was => processGroups'[h].processes # {})
    BY <1>1, <1>3
  <2>2. \A q \in processGroups'[h].processes :
           q # p /\ Running(q) /\ q \in DOMAIN processes /\ processes[q].pgid = h
    BY <1>5, <2>1 DEF Running, Exists
  <2>3. processGroups'[h].processes # {}
    BY <1>5, <2>1
  <2> QED
    BY <1>2, <2>2, <2>3 DEF MembersThen
<1>7. ASSUME NEW q \in DOMAIN processes', RunsThen(q)
      PROVE  ListedThen(q)
  <2>1. q \in DOMAIN processes /\ q # p /\ Running(q) /\ processes'[q].pgid = processes[q].pgid
    BY <1>2, <1>4, <1>7
  <2>2. /\ processes[q].pgid \in DOMAIN processGroups
        /\ q \in processGroups[processes[q].pgid].processes
    BY <2>1 DEF GroupMembership, InGroup, Grouped, Running, Exists
  <2>3. processes[q].pgid \in DOMAIN groups /\ q \in groups[processes[q].pgid].processes
    BY <1>3, <2>1, <2>2
  <2> QED
    BY <1>1, <2>1, <2>3 DEF ListedThen
<1> QED
  BY <1>6, <1>7, GroupsNext

LEMMA GroupSpawnNew ==
    ASSUME IInv, GroupMembership, NEW r \in requests, NEW b, NEW o, SpawnNew(r, b, o)
    PROVE  GroupMembership'
<1> DEFINE ppid  == elements[r.elem].pid
           h     == processes[ppid].pgid
           entry == Child(r)
<1>1. /\ Grouped(ppid) /\ Len(elements) < MaxElement
      /\ processes' = With(processes, pid, entry)
      /\ processGroups' = [processGroups EXCEPT ![h].processes = @ \cup {pid}]
  BY DEF SpawnNew, HasRoom
<1>2. h \in DOMAIN processGroups /\ processGroups[h] \in Group
  BY <1>1 DEF Grouped, IInv, TablesOK
<1>3. ~entry.exited /\ entry.pgid = h
  BY <1>1, ChildType DEF Grouped
<1>4. [processGroups[h] EXCEPT !.processes = @ \cup {pid}].processes
         = processGroups[h].processes \cup {pid}
  BY <1>2 DEF Group
<1> HIDE DEF entry, h
<1>5. /\ DOMAIN processes' = DOMAIN processes \cup {pid} /\ pid \notin DOMAIN processes
      /\ processes'[pid] = entry
      /\ \A p \in DOMAIN processes : processes'[p] = processes[p]
  BY <1>1, AddedRuns
<1>6. /\ DOMAIN processGroups' = DOMAIN processGroups
      /\ processGroups'[h].processes = processGroups[h].processes \cup {pid}
      /\ \A g \in DOMAIN processGroups : g # h => processGroups'[g] = processGroups[g]
  BY <1>1, <1>2, <1>4
<1>7. RunsThen(pid) /\ processes'[pid].pgid = h
  BY <1>3, <1>5 DEF RunsThen
<1>8. \A q : Running(q) => RunsThen(q) /\ processes'[q].pgid = processes[q].pgid
  BY <1>5 DEF RunsThen, Running, Exists
<1>9. ASSUME NEW g \in DOMAIN processGroups'
      PROVE  MembersThen(g)
  <2>1. /\ processGroups[g].processes # {}
        /\ \A q \in processGroups[g].processes : Running(q) /\ processes[q].pgid = g
    BY <1>6 DEF GroupMembership
  <2>2. CASE g = h
    BY <1>6, <1>7, <1>8, <2>1, <2>2 DEF MembersThen
  <2>3. CASE g # h
    BY <1>6, <1>8, <2>1, <2>3 DEF MembersThen
  <2> QED
    BY <2>2, <2>3
<1>10. ASSUME NEW q \in DOMAIN processes', RunsThen(q)
       PROVE  ListedThen(q)
  <2>1. CASE q = pid
    BY <1>2, <1>6, <1>7, <2>1 DEF ListedThen
  <2>2. CASE q \in DOMAIN processes
    <3>1. Running(q) /\ processes'[q] = processes[q]
      BY <1>5, <1>10, <2>2 DEF RunsThen, Running, Exists
    <3>2. InGroup(q)
      BY <3>1 DEF GroupMembership, Running, Exists
    <3>3. processes[q].pgid \in DOMAIN processGroups
          /\ q \in processGroups[processes[q].pgid].processes
      BY <3>2 DEF InGroup, Grouped
    <3> QED
      BY <1>6, <3>1, <3>3 DEF ListedThen
  <2> QED
    BY <1>5, <2>1, <2>2
<1> QED
  BY <1>9, <1>10, GroupsNext

LEMMA GroupSpawnRoot ==
    ASSUME IInv, GroupMembership, SpawnRoot
    PROVE  GroupMembership'
<1> DEFINE entry == [domElement |-> 1, exited |-> FALSE, pgid |-> pid, ppid |-> INIT_PID]
<1>1. /\ processGroups' = With(processGroups, pid, NewGroup(pid, pid))
      /\ processes' = With(processes, pid, entry) /\ Len(elements) = 0
  BY DEF SpawnRoot
<1>2. ~entry.exited /\ entry.pgid = pid
  OBVIOUS
<1> HIDE DEF entry
<1>3. DOMAIN processes = {}
  <2>1. \A p \in DOMAIN processes : processes[p].domElement \in 1 .. Len(elements)
    BY DEF IInv, EntriesOK
  <2>2. 1 .. Len(elements) = {}
    BY <1>1
  <2> QED
    BY <2>1, <2>2
<1>4. DOMAIN processGroups = {}
  BY <1>3 DEF GroupMembership, Running, Exists
<1>5. DOMAIN processes' = {pid} /\ processes'[pid] = entry
  BY <1>1, <1>3, AddedRuns
<1>6. processGroups' = [g \in {pid} |-> NewGroup(pid, pid)]
  BY <1>1, <1>4 DEF With
<1>7. DOMAIN processGroups' = {pid} /\ processGroups'[pid].processes = {pid}
  BY <1>6 DEF NewGroup
<1> QED
  BY <1>2, <1>5, <1>7, GroupsNext DEF RunsThen, ListedThen, MembersThen

LEMMA GroupNext ==
    ~AnyGroup /\ IInv /\ Tree /\ Solo /\ GroupMembership /\ [Next]_vars => GroupMembership'
<1> SUFFICES ASSUME ~AnyGroup, IInv, Tree, Solo, GroupMembership, [Next]_vars
             PROVE  GroupMembership'
  OBVIOUS
<1>1. CASE UNCHANGED <<processes, processGroups>>
  BY <1>1, GroupsKept DEF RunsThen, Running, Exists
<1>2. CASE SpawnRoot
  BY <1>2, GroupSpawnRoot
<1>3. ASSUME NEW e \in DOMAIN elements, NEW t \in Thread,
             \/ \E mode \in {"new", "overlay", "dead"} : Request_(e, t, mode)
             \/ \E p, g \in Pid : SetPGID(e, t, p, g) \/ SetIdThrows(e, t, p, g)
             \/ SetSID(e, t)
             \/ \E arg \in Key \cup {0} : WaitCollects(e, t, arg) \/ WaitBlocks(e, t, arg)
      PROVE  GroupMembership'
  <2>1. ASSUME NEW arg, WaitCollects(e, t, arg)
        PROVE  GroupMembership'
    <3>1. PICK p \in DOMAIN processes : Zombie(p) /\ processes' = Without(processes, p)
      BY <2>1 DEF WaitCollects
    <3>2. processGroups' = processGroups
      BY <2>1 DEF WaitCollects
    <3>3. processes' = [q \in DOMAIN processes \ {p} |-> processes[q]]
      BY <3>1 DEF Without
    <3>4. \A q : /\ RunsThen(q) <=> Running(q)
                 /\ Running(q) => processes'[q].pgid = processes[q].pgid
      BY <3>1, <3>3 DEF RunsThen, Running, Zombie, Exists
    <3> QED
      BY <3>2, <3>4, GroupsKept
  <2>2. CASE \/ \E mode \in {"new", "overlay", "dead"} : Request_(e, t, mode)
             \/ \E p, g \in Pid : SetIdThrows(e, t, p, g)
             \/ \E arg \in Key \cup {0} : WaitBlocks(e, t, arg)
    BY <1>1, <2>2 DEF Request_, SetIdThrows, WaitBlocks
  <2> QED
    BY <1>3, <2>1, <2>2, GroupSetPGID, GroupSetSID
<1>4. ASSUME NEW r \in requests, Complete(r)
      PROVE  GroupMembership'
  <2>1. CASE SpawnThrows(r)
    <3> DEFINE ppid == elements[r.elem].pid
    <3>1. ~Grouped(ppid) /\ processGroups' = processGroups
          /\ (~Exists(ppid) => processes' = processes)
      BY <2>1 DEF SpawnThrows
    <3>2. ~Exists(ppid)
      <4>1. SUFFICES ASSUME Exists(ppid) PROVE FALSE
        OBVIOUS
      <4>2. ppid # -1 /\ r.elem \in DOMAIN elements
        BY <4>1 DEF Exists, IInv, TablesOK, Pid, Tree, Asked
      <4>3. Running(ppid)
        BY <4>2 DEF Solo, ElementsRun
      <4> QED
        BY <3>1, <4>3 DEF GroupMembership, Running, Exists, InGroup
    <3> QED
      BY <1>1, <3>1, <3>2
  <2>2. CASE DeadPid(r)
    <3>1. /\ processGroups' = processGroups
          /\ \/ processes' = processes
             \/ processes' = With(processes, pid, [Child(r) EXCEPT !.exited = TRUE])
          /\ Exists(elements[r.elem].pid) /\ Len(elements) < MaxElement
      BY <2>2 DEF DeadPid, Grouped, HasRoom
    <3>2. CASE processes' = With(processes, pid, [Child(r) EXCEPT !.exited = TRUE])
      <4>1. [Child(r) EXCEPT !.exited = TRUE].exited
        BY <3>1, ChildType DEF Process
      <4>2. /\ DOMAIN processes' = DOMAIN processes \cup {pid} /\ pid \notin DOMAIN processes
            /\ processes'[pid].exited
            /\ \A p \in DOMAIN processes : processes'[p] = processes[p]
        BY <3>2, <4>1, AddedRuns
      <4>3. \A q : /\ RunsThen(q) <=> Running(q)
                   /\ Running(q) => processes'[q].pgid = processes[q].pgid
        BY <4>2 DEF RunsThen, Running, Exists
      <4> QED
        BY <3>1, <4>3, GroupsKept
    <3> QED
      BY <1>1, <3>1, <3>2
  <2>3. CASE OverlayThrows(r) \/ SpawnRefused(r) \/ DeadPidRefused(r)
    BY <1>1, <2>3 DEF OverlayThrows, SpawnRefused, DeadPidRefused
  <2>4. \A b, o \in BOOLEAN : ~SpawnOverlay(r, b, o)
    BY DEF SpawnOverlay, Solo, NoOverlays
  <2> QED
    BY <1>4, <2>1, <2>2, <2>3, <2>4, GroupSpawnNew DEF Complete
<1>5. CASE \E e \in DOMAIN elements : ModuleEnds(e) \/ Sigint(e) \/ PopupCloses(e)
  BY <1>5, GroupExit DEF ModuleEnds, Sigint, PopupCloses
<1>6. CASE UNCHANGED vars \/ \E e \in DOMAIN elements : ModuleEndsUnheard(e) \/ PopupOpens(e)
  BY <1>1, <1>6 DEF vars, ModuleEndsUnheard, PopupOpens
<1> QED
  BY <1>2, <1>3, <1>4, <1>5, <1>6 DEF Next

\* Where no image replaces itself and setpgid is called with the process itself or
\* a group in use, a group lists exactly the running processes that name it, and
\* none is empty: through setpgid, setsid, spawn, exit and waitpid in any order.
THEOREM GroupsAreExact ==
    ASSUME ~AllowOverlay, ~AnyGroup
    PROVE  Spec => []GroupMembership
<1>1. Init => GroupMembership
  BY DEF Init, GroupMembership
<1>2. (IInv /\ Tree /\ Solo) /\ GroupMembership /\ [Next]_vars => GroupMembership'
  BY GroupNext
<1> QED
  BY <1>1, <1>2, SoloInvariance, PTL DEF Spec
=============================================================================
