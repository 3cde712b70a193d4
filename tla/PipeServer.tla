------------------------------ MODULE PipeServer ------------------------------
(***************************************************************************)
(* The anonymous pipe server of the process manager                        *)
(* (build_tools/pipeserver.js) together with the part of its clients that  *)
(* decides which calls can reach it (ports/nacl-spawn).                    *)
(*                                                                         *)
(* Every pipe lives in JavaScript.  A process is a reader or a writer of   *)
(* it, never twice: nacl_io counts the descriptors of one end inside a     *)
(* process, and the server only keeps the sets of processes.  The server   *)
(* handles one message at a time, so each handler is one action.  A client *)
(* thread sends a request and blocks until the reply (nspawn_send_request) *)
(* so a thread has at most one call outstanding.                           *)
(*                                                                         *)
(* Bytes are numbered in the order in which the server accepted them, one  *)
(* numbering per pipe: a payload is a run of consecutive numbers.          *)
(***************************************************************************)
EXTENDS Integers, Sequences, FiniteSets

CONSTANTS Pid,        \* process ids
          Shell,      \* the process that runs at the start
          Thread,     \* the threads of all processes
          Owner,      \* Owner[t] is the process thread t belongs to
          NoThread,   \* the recipient of a reply to a process that is gone
          MaxPipes,   \* bound: pipes created in a behaviour
          MaxBytes,   \* bound: bytes accepted by one pipe
          MaxCount,   \* bound: size of one read or write request
          MaxPending, \* bound: reads pending on one pipe
          MaxCutOff,  \* bound: spawns without a caller when another one is asked for
          Execs       \* the processes that replace their image (P_OVERLAY)

ASSUME PipeServerAssumption ==
    /\ Shell \in Pid
    /\ Owner \in [Thread -> Pid]
    /\ NoThread \notin Thread
    /\ MaxPipes \in Nat /\ MaxBytes \in Nat /\ MaxCount \in Nat /\ MaxPending \in Nat
    /\ MaxCutOff \in Nat
    /\ Execs \subseteq Pid

VARIABLES anonymousPipes,  \* pipe id -> pipe, for the pipes that exist
          anonymousPipeId, \* the next pipe id
          proc,            \* pid -> whether it is unborn, running or gone
          fds,             \* pid -> the pipe ends open in the process
          call,            \* thread -> the call it is blocked in
          cutOff,          \* the spawns whose calling image was replaced meanwhile:
                           \* pairs of a child and its ends
          replies,         \* thread -> the reply the last step posted to it
          written,         \* history: pipe id -> bytes accepted so far
          received         \* history: pipe id -> bytes handed to read calls

vars == <<anonymousPipes, anonymousPipeId, proc, fds, call, cutOff, replies, written, received>>

-----------------------------------------------------------------------------
(* Data *)

PipeId == 0 .. (MaxPipes - 1)
Byte   == Nat
End    == PipeId \X BOOLEAN     \* <<id, isWriter>>, as in NACL_SPAWN_FD_SETUP_n
Count  == 1 .. MaxCount

EPIPE  == 32
EAGAIN == 11

ReadRequest == [thread : Thread \cup {NoThread}, count : Count]

Pipe == [readers       : SUBSET Pid,
         writers       : SUBSET Pid,
         readsPending  : Seq(ReadRequest),
         writesPending : Seq(Seq(Byte))]

NewPipe(p) == [readers |-> {p}, writers |-> {p},
               readsPending |-> <<>>, writesPending |-> <<>>]

\* A spawn call carries the pid that gets the new image: an unborn one, or the
\* caller's own in overlay mode.
Idle                  == [op |-> "none"]
Reading(id)           == [op |-> "read", pipe |-> id]
Spawning(child, ends) == [op |-> "spawn", child |-> child, ends |-> ends]

Call == {Idle} \cup {Reading(id) : id \in PipeId}
               \cup {Spawning(c, ends) : c \in Pid, ends \in SUBSET End}

\* What apipe_write and apipe_read return for the reply.
Wrote(n) == [op |-> "write", value |-> n]
Got(n)   == [op |-> "read", value |-> n]
Reply    == [op : {"read", "write"}, value : Int]

Live == DOMAIN anonymousPipes

Running(p) == proc[p] = "running"

\* The threads that can issue a call.
Ready(t) == Running(Owner[t]) /\ call[t] = Idle

Registered(p, id, isWriter) ==
    id \in Live /\ p \in (IF isWriter THEN anonymousPipes[id].writers
                                      ELSE anonymousPipes[id].readers)

Threads(q) == {q[i].thread : i \in DOMAIN q} \ {NoThread}

\* The threads in T get a reply and go on.
Answer(T) == [t \in Thread |-> IF t \in T THEN Idle ELSE call[t]]

Min2(a, b) == IF a < b THEN a ELSE b

Prefix(s, n) == SubSeq(s, 1, n)
Suffix(s, n) == SubSeq(s, n + 1, Len(s))

-----------------------------------------------------------------------------
(* Closing an end *)

\* closeAPipe on a pipe that stays: when no writer is left every pending read
\* is told end-of-file, when no reader is left the buffered data is dropped.
Settle(pipe) ==
    IF pipe.writers = {}
    THEN [pipe EXCEPT !.readsPending = <<>>]
    ELSE IF pipe.readers = {}
         THEN [pipe EXCEPT !.writesPending = <<>>]
         ELSE pipe

\* Mutants: closing the last write end tells no reader; closing any write end
\* ends the pending reads.
WithoutWriterQuiet(pipe, p) == [pipe EXCEPT !.writers = @ \ {p}]
WithoutWriterEager(pipe, p) == [pipe EXCEPT !.writers = @ \ {p}, !.readsPending = <<>>]

WithoutReader(pipe, p) == Settle([pipe EXCEPT !.readers = @ \ {p}])
WithoutWriter(pipe, p) == Settle([pipe EXCEPT !.writers = @ \ {p}])

\* Mutant: only the read end is closed.
WithoutProcessReader(pipe, p) ==
    IF p \in pipe.readers THEN WithoutReader(pipe, p) ELSE pipe

\* deleteProcess closes the read end first, then the write end.
WithoutProcess(pipe, p) ==
    LET r == IF p \in pipe.readers THEN WithoutReader(pipe, p) ELSE pipe
    IN  IF p \in r.writers THEN WithoutWriter(r, p) ELSE r

\* A pipe that lost its last end is deleted.
Open(pipes)  == {id \in DOMAIN pipes : pipes[id].readers \cup pipes[id].writers # {}}
Purge(pipes) == [id \in Open(pipes) |-> pipes[id]]

\* Mutant: the pending reads are dropped without an answer.
ReleasedNone(new) == {}

\* The reads that closing answers with end-of-file.  Reads pending on a pipe
\* that is deleted get no answer.
Released(new) ==
    UNION {Threads(anonymousPipes[id].readsPending)
             \ Threads(new[id].readsPending) : id \in DOMAIN new}

\* The element of process p is gone: replies to its pending reads reach nobody.
Orphan(pipe, p) ==
    [pipe EXCEPT !.readsPending =
        [i \in DOMAIN @ |->
           IF @[i].thread # NoThread /\ Owner[@[i].thread] = p
           THEN [@[i] EXCEPT !.thread = NoThread] ELSE @[i]]]

-----------------------------------------------------------------------------
(* The handlers *)

\* nacl_spawn_pipe2 -> handleMessageAPipe: the caller becomes the only reader
\* and the only writer of a new pipe, and opens both ends.
APipe(t) ==
    /\ Ready(t)
    /\ anonymousPipeId < MaxPipes
    /\ anonymousPipes' = [id \in Live \cup {anonymousPipeId} |->
                             IF id = anonymousPipeId THEN NewPipe(Owner[t])
                                                     ELSE anonymousPipes[id]]
    /\ anonymousPipeId' = anonymousPipeId + 1
    /\ fds' = [fds EXCEPT ![Owner[t]] = @ \cup ({anonymousPipeId} \X BOOLEAN)]
    /\ replies' = << >>
    /\ UNCHANGED <<proc, call, cutOff, written, received>>

\* Mutant: one write serves at most one pending read.
TurnsOnce(q, n, m) ==
    {cut \in [0 .. m -> 0 .. n] :
        /\ cut[0] = 0
        /\ \A i \in 1 .. m : cut[i - 1] < n /\ cut[i] = Min2(n, cut[i - 1] + q[i].count)
        /\ cut[m] = n \/ m = Len(q) \/ m = 1}

\* The loop in handleMessageAPipeWrite over the pending reads q with n bytes to
\* hand out, when it makes m turns: cut[i] bytes are gone after i turns.  The
\* loop stops when the data or the pending reads are used up.
Turns(q, n, m) ==
    {cut \in [0 .. m -> 0 .. n] :
        /\ cut[0] = 0
        /\ \A i \in 1 .. m : /\ cut[i - 1] < n
                            /\ cut[i] = Min2(n, cut[i - 1] + q[i].count)
        /\ cut[m] = n \/ m = Len(q)}

\* After the loop, what is left of the data is buffered if the pipe has a
\* reader and refused with EPIPE otherwise.
HandOut(t, id, n, m, cut) ==
    LET pipe   == anonymousPipes[id]
        data   == [i \in 1 .. n |-> written[id] + i]
        served == Prefix(pipe.readsPending, m)
        left   == Suffix(data, cut[m])
        kept   == left # <<>> /\ pipe.readers # {}
    IN  /\ anonymousPipes' = [anonymousPipes EXCEPT
             ![id].readsPending  = Suffix(@, m),
             ![id].writesPending = IF kept THEN Append(@, left) ELSE @]
        /\ call' = Answer(Threads(served))
        /\ received' = [received EXCEPT ![id] = @ \o Prefix(data, cut[m])]
        /\ written' = [written EXCEPT ![id] = @ + IF kept THEN n ELSE cut[m]]
        /\ replies' = [u \in Threads(served) \cup {t} |->
             IF u = t THEN Wrote(IF left = <<>> \/ kept THEN n ELSE EPIPE)
             ELSE LET i == CHOOSE i \in 1 .. m : served[i].thread = u
                  IN  Got(cut[i] - cut[i - 1])]

\* handleMessageAPipeWrite by a process the pipe knows as a writer.
WriteAccepted(t, id, n) ==
    /\ Ready(t)
    /\ <<id, TRUE>> \in fds[Owner[t]] /\ Registered(Owner[t], id, TRUE)
    /\ written[id] + n <= MaxBytes
    /\ \E m \in 0 .. Len(anonymousPipes[id].readsPending) :
       \E cut \in Turns(anonymousPipes[id].readsPending, n, m) :
          HandOut(t, id, n, m, cut)
    /\ UNCHANGED <<anonymousPipeId, proc, fds, cutOff>>

\* The caller has a descriptor of a pipe that does not know it as a writer.
WriteRefused(t, id) ==
    /\ Ready(t)
    /\ <<id, TRUE>> \in fds[Owner[t]] /\ ~Registered(Owner[t], id, TRUE)
    /\ replies' = [u \in {t} |-> Wrote(EPIPE)]
    /\ UNCHANGED <<anonymousPipes, anonymousPipeId, proc, fds, call, cutOff, written, received>>

Write(t, id, n) == WriteAccepted(t, id, n) \/ WriteRefused(t, id)

\* Mutant: what is left of the first write goes to the back of the buffer.
RestAtBack(q, n) ==
    IF Len(Head(q)) > n THEN Append(Tail(q), Suffix(Head(q), n)) ELSE Tail(q)

\* The buffer q after n bytes of its first write are read.
Rest(q, n) ==
    IF Len(Head(q)) > n THEN <<Suffix(Head(q), n)>> \o Tail(q) ELSE Tail(q)

\* handleMessageAPipeRead: buffered data answers at once.
ReadBuffered(t, id, n) ==
    /\ Ready(t)
    /\ <<id, FALSE>> \in fds[Owner[t]] /\ Registered(Owner[t], id, FALSE)
    /\ anonymousPipes[id].writesPending # <<>>
    /\ LET item == Head(anonymousPipes[id].writesPending)
           part == Prefix(item, Min2(n, Len(item)))
       IN  /\ anonymousPipes' = [anonymousPipes EXCEPT ![id].writesPending = Rest(@, n)]
           /\ received' = [received EXCEPT ![id] = @ \o part]
           /\ replies' = [u \in {t} |-> Got(Len(part))]
    /\ UNCHANGED <<anonymousPipeId, proc, fds, call, cutOff, written>>

\* Nothing buffered but a writer exists: a blocking read queues.
ReadBlocks(t, id, n) ==
    /\ Ready(t)
    /\ <<id, FALSE>> \in fds[Owner[t]] /\ Registered(Owner[t], id, FALSE)
    /\ anonymousPipes[id].writesPending = <<>>
    /\ anonymousPipes[id].writers # {}
    /\ Len(anonymousPipes[id].readsPending) < MaxPending
    /\ anonymousPipes' = [anonymousPipes EXCEPT ![id].readsPending =
                             Append(@, [thread |-> t, count |-> n])]
    /\ call' = [call EXCEPT ![t] = Reading(id)]
    /\ replies' = << >>
    /\ UNCHANGED <<anonymousPipeId, proc, fds, cutOff, written, received>>

\* Nothing to read: EAGAIN for a non-blocking read while a writer exists,
\* end-of-file when there is none or the reader is unknown.
ReadNothing(t, id) ==
    /\ Ready(t)
    /\ <<id, FALSE>> \in fds[Owner[t]]
    /\ \/ /\ Registered(Owner[t], id, FALSE)
          /\ anonymousPipes[id].writesPending = <<>>
          /\ replies' = [u \in {t} |-> IF anonymousPipes[id].writers # {}
                                       THEN Got(-EAGAIN) ELSE Got(0)]
       \/ /\ ~Registered(Owner[t], id, FALSE)
          /\ replies' = [u \in {t} |-> Got(0)]
    /\ UNCHANGED <<anonymousPipes, anonymousPipeId, proc, fds, call, cutOff, written, received>>

Read(t, id, n) ==
    ReadBuffered(t, id, n) \/ ReadBlocks(t, id, n) \/ ReadNothing(t, id)

\* apipe_release -> handleMessageAPipeClose.  nacl_io releases an end when its
\* last descriptor is closed and no call of the process uses it any more.
Close(t, id, isWriter) ==
    /\ Ready(t)
    /\ <<id, isWriter>> \in fds[Owner[t]]
    /\ isWriter \/ \A u \in Thread : Owner[u] = Owner[t] => call[u] # Reading(id)
    /\ fds' = [fds EXCEPT ![Owner[t]] = @ \ {<<id, isWriter>>}]
    /\ LET after == Purge([p \in Live |->
                      IF p # id THEN anonymousPipes[p]
                      ELSE IF isWriter THEN WithoutWriter(anonymousPipes[p], Owner[t])
                                       ELSE WithoutReader(anonymousPipes[p], Owner[t])])
       IN  /\ anonymousPipes' = after
           /\ call' = Answer(Released(after))
           /\ replies' = [u \in Released(after) |-> Got(0)]
    /\ UNCHANGED <<anonymousPipeId, proc, cutOff, written, received>>

\* spawnve_impl: CloneFileDescriptors puts the open ends that are not marked
\* close-on-exec into the request, and the calling thread blocks.
SpawnRequest(t, child, ends) ==
    /\ Ready(t)
    /\ Cardinality(cutOff) < MaxCutOff
    /\ \/ /\ proc[child] = "unborn"
          /\ \A u \in Thread : call[u].op = "spawn" => call[u].child # child
          /\ \A s \in cutOff : s[1] # child
       \/ Owner[t] \in Execs /\ child = Owner[t]
    /\ ends \subseteq fds[Owner[t]]
    /\ call' = [call EXCEPT ![t] = Spawning(child, ends)]
    /\ replies' = << >>
    /\ UNCHANGED <<anonymousPipes, anonymousPipeId, proc, fds, cutOff, written, received>>

\* The threads of an image that is replaced, and the spawns of all but those in T,
\* which go on without a caller.
Replaced(child) == IF Running(child) THEN {u \in Thread : Owner[u] = child} ELSE {}
Adrift(child, T) ==
    {<<call[u].child, call[u].ends>> : u \in {u \in Replaced(child) \ T : call[u].op = "spawn"}}

\* addProcessPipes and restore_pipes, when the asynchronous part of spawn
\* completes: the new image joins those pipes that still exist and opens the
\* ends it was given.  In overlay mode the old image and its threads are gone.
Join(child, ends, T) ==
    /\ LET joined(id) == [anonymousPipes[id] EXCEPT
                !.readers = IF <<id, FALSE>> \in ends THEN @ \cup {child} ELSE @,
                !.writers = IF <<id, TRUE>> \in ends THEN @ \cup {child} ELSE @]
       IN  /\ proc' = [proc EXCEPT ![child] = "running"]
           /\ fds' = [fds EXCEPT ![child] = ends]
           /\ anonymousPipes' = [id \in Live |->
                 IF Running(child) THEN Orphan(joined(id), child) ELSE joined(id)]
           /\ call' = Answer(T \cup Replaced(child))
    /\ replies' = << >>
    /\ UNCHANGED <<anonymousPipeId, written, received>>

AddProcessPipes(t) ==
    /\ Running(Owner[t])
    /\ call[t].op = "spawn"
    /\ Join(call[t].child, call[t].ends, {t})
    /\ cutOff' = cutOff \cup Adrift(call[t].child, {t})

\* The same for a spawn whose caller was replaced by another thread's exec.
AddCutOff(s) ==
    /\ s \in cutOff
    /\ proc[s[1]] # "gone"
    /\ Join(s[1], s[2], {})
    /\ cutOff' = (cutOff \ {s}) \cup Adrift(s[1], {})

\* exit() -> deleteProcess: every end of the process is closed.  The reads its
\* threads have pending stay in the queues; its spawns under way throw, because
\* its element has no pid any more (naclprocess.js:1168).
DeleteProcess(p) ==
    /\ Running(p)
    /\ proc' = [proc EXCEPT ![p] = "gone"]
    /\ fds' = [fds EXCEPT ![p] = {}]
    /\ LET after == Purge([id \in Live |->
                      Orphan(WithoutProcess(anonymousPipes[id], p), p)])
           eof   == {t \in Released(after) : Owner[t] # p}
       IN  /\ anonymousPipes' = after
           /\ call' = Answer(eof \cup {t \in Thread : Owner[t] = p})
           /\ replies' = [u \in eof |-> Got(0)]
    /\ UNCHANGED <<anonymousPipeId, cutOff, written, received>>

-----------------------------------------------------------------------------
Init ==
    /\ anonymousPipes = << >>
    /\ anonymousPipeId = 0
    /\ proc = [p \in Pid |-> IF p = Shell THEN "running" ELSE "unborn"]
    /\ fds = [p \in Pid |-> {}]
    /\ call = [t \in Thread |-> Idle]
    /\ cutOff = {}
    /\ replies = << >>
    /\ written = [id \in PipeId |-> 0]
    /\ received = [id \in PipeId |-> <<>>]

Next ==
    \/ \E t \in Thread : APipe(t)
    \/ \E t \in Thread, id \in PipeId, n \in Count : Write(t, id, n)
    \/ \E t \in Thread, id \in PipeId, n \in Count : Read(t, id, n)
    \/ \E t \in Thread, id \in PipeId, w \in BOOLEAN : Close(t, id, w)
    \/ \E t \in Thread, c \in Pid, ends \in SUBSET End : SpawnRequest(t, c, ends)
    \/ \E t \in Thread : AddProcessPipes(t)
    \/ \E s \in cutOff : AddCutOff(s)
    \/ \E p \in Pid : DeleteProcess(p)

Spec == Init /\ [][Next]_vars

-----------------------------------------------------------------------------
(* Properties *)

\* The types of the variables (build_tools/pipeserver.js:15, :37-42).
TypeOK ==
    /\ Live \subseteq PipeId
    /\ anonymousPipes \in [Live -> Pipe]
    /\ anonymousPipeId \in 0 .. MaxPipes
    /\ proc \in [Pid -> {"unborn", "running", "gone"}]
    /\ fds \in [Pid -> SUBSET End]
    /\ call \in [Thread -> Call]
    /\ cutOff \subseteq Pid \X SUBSET End
    /\ DOMAIN replies \subseteq Thread
    /\ replies \in [DOMAIN replies -> Reply]
    /\ written \in [PipeId -> Nat]
    /\ received \in [PipeId -> Seq(Byte)]

\* No read waits while data is buffered: the loops of the write and of the
\* read handler never leave both queues of a pipe non-empty.
NoReadWaitsOnData ==
    \A id \in Live : anonymousPipes[id].readsPending # <<>>
                       => anonymousPipes[id].writesPending = <<>>

\* Data is buffered only for somebody: a pipe without readers holds none, so a
\* writer that is told "written" had a reader.
BufferHasReader ==
    \A id \in Live : anonymousPipes[id].writesPending # <<>>
                       => anonymousPipes[id].readers # {}

\* No read waits for a pipe nobody can write to: whichever way the last writer
\* goes (close, exit, kill), the pending reads are answered in the same step.
PendingReadHasWriter ==
    \A id \in Live : anonymousPipes[id].readsPending # <<>>
                       => anonymousPipes[id].writers # {}

\* A thread that is blocked in read() belongs to a running process and the
\* server still has its request, exactly once: no reply is lost.
BlockedReadIsQueued ==
    \A t \in Thread, id \in PipeId :
        call[t] = Reading(id) =>
            /\ Running(Owner[t])
            /\ id \in Live
            /\ \E i \in DOMAIN anonymousPipes[id].readsPending :
                  /\ anonymousPipes[id].readsPending[i].thread = t
                  /\ \A j \in DOMAIN anonymousPipes[id].readsPending :
                        anonymousPipes[id].readsPending[j].thread = t => j = i

\* The server knows no more readers and writers than there are ("naclprocess.js
\* then merely tracks which processes are readers and writers for a given pipe",
\* ports/nacl-spawn/nacl_setup_env.c:194), also when one thread of the parent
\* closes an end that another has just copied for a spawn.  Processes that exec
\* are excepted: the server never removes the close-on-exec ends of their old
\* image (naclprocess.js:1183).
NoGhostEnd ==
    \A p \in Pid \ Execs, id \in PipeId, w \in BOOLEAN :
        Registered(p, id, w) => <<id, w>> \in fds[p]

\* End-of-file is told only when nothing is left to read and nobody can write:
\* a process that has the read end and gets an empty reply has had every byte.
EofMeansDrained ==
    [][\A t \in DOMAIN replies' : replies'[t] = Got(0) =>
          \E id \in PipeId :
             /\ <<id, FALSE>> \in fds[Owner[t]]
             /\ \/ id \notin DOMAIN anonymousPipes'
                \/ /\ anonymousPipes'[id].writers = {}
                   /\ anonymousPipes'[id].writesPending = <<>>]_vars
===============================================================================
