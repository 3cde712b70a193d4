----------------------------- MODULE SpawnClient -----------------------------
(***************************************************************************)
(* The file descriptors of a process that starts others through            *)
(* libnacl_spawn: pipe2, vfork, the exec family and the spawn calls of      *)
(* nacl_spawn.cc, and restore_pipes of nacl_setup_env.c, with which the     *)
(* started image takes over the pipes it inherits.                         *)
(*                                                                         *)
(* There is no fork: the child of a vfork is the parent, which goes on     *)
(* with copies of its descriptors put aside (stash_file_descriptors) until *)
(* it calls exec or _exit; then longjmp takes it back to the vfork, which   *)
(* returns for the second time.                                            *)
(*                                                                         *)
(* A pipe has one open file per process and end; the server counts the end *)
(* of a process as open until that file is released, with the last         *)
(* descriptor for it.                                                      *)
(***************************************************************************)
EXTENDS Naturals, Sequences, FiniteSets, FiniteSetsExt

CONSTANTS MaxFd,        \* MAX_FILE_DESCRIPTOR
          Std,          \* the descriptors 0..Std-1 of a new image are the terminal
          MaxOldPipes,  \* MAX_OLD_PIPES
          MaxPipes      \* bound: the pipes the process makes

ASSUME SpawnClientAssumption ==
    /\ MaxFd \in Nat \ {0} /\ Std \in 1..MaxFd
    /\ MaxOldPipes \in Nat /\ MaxPipes \in Nat

\* The descriptors of a program, and with the slots of the stash.
Fd  == 0 .. MaxFd - 1
All == 0 .. 2 * MaxFd - 1

\* Open files: the terminal, which no child inherits, and the ends of pipes.
None      == <<"none">>
Tty       == <<"tty">>
End(p, w) == <<"pipe", p, w>>
Ends      == {End(p, w) : p \in 1..MaxPipes, w \in {"reads", "writes"}}
File      == {None, Tty} \cup Ends

VARIABLES fds,       \* descriptor -> the open file
          cloexec,   \* the descriptors with FD_CLOEXEC
          vforking,  \* vforking
          vforkPid,  \* vfork_pid: -1, or the pid of the child ("child")
          mode,      \* what the process does
          pipes,     \* how many pipes there are
          server,    \* the ends the server counts as open by this process
          heir,      \* the image that was started last, until the process goes on
          saved      \* history: the descriptors at the vfork

vars == <<fds, cloexec, vforking, vforkPid, mode, pipes, server, heir, saved>>

Fresh  == [f \in All |-> IF f < Std THEN Tty ELSE None]
Nobody == [got |-> Fresh, want |-> {}, ok |-> FALSE]

Opened(t)      == {f \in DOMAIN t : t[f] # None}
EndsIn(t, dom) == {t[f] : f \in dom} \cap Ends
Lowest(t)      == Min(DOMAIN t \ Opened(t))

\* dup2 and close of nacl_io.  A file without a descriptor is released.
Dup(t, from, to) == [t EXCEPT ![to] = t[from]]
Shut(t, f)       == [t EXCEPT ![f] = None]
Released         == server' = server \ (EndsIn(fds, All) \ EndsIn(fds', All))

TypeOK ==
    /\ fds \in [All -> File] /\ saved \in [Fd -> File]
    /\ cloexec \subseteq Opened(fds) \cap Fd
    /\ vforking \in BOOLEAN /\ vforkPid \in {"-1", "child"}
    /\ mode \in {"runs", "waits", "aborted", "exited"}
    /\ pipes \in 0..MaxPipes
    /\ server \subseteq Ends
    /\ heir \in [got : [All -> File], want : SUBSET (Fd \X Ends), ok : BOOLEAN]

-----------------------------------------------------------------------------
(* The descriptors of a new image.                                         *)

\* The entries NACL_SPAWN_FD_SETUP_n: descriptors that are pipes and that are
\* not closed on exec.
CloneFileDescriptors ==
    {<<f, fds[f]>> : f \in {g \in Fd \ cloexec : fds[g] \in Ends}}

\* A defect: restore_pipes without close(fd_tmp).
KeepTmp(s, entry) ==
    LET fd  == entry[1]
        old == {i \in DOMAIN s.old : s.old[i][2] = entry[2]}
        new == [s.got EXCEPT ![Lowest(s.got)] = entry[2]]
    IN  IF ~s.ok THEN s
        ELSE IF old # {} THEN [s EXCEPT !.got = Dup(s.got, s.old[Min(old)][1], fd)]
        ELSE [got |-> Dup(new, Lowest(s.got), fd), old |-> Append(s.old, entry),
              ok  |-> Len(s.old) < MaxOldPipes]

\* One entry: an end that is open already is duplicated, any other is opened,
\* moved to its descriptor and noted.
RestoreEntry(s, entry) ==
    LET fd  == entry[1]
        old == {i \in DOMAIN s.old : s.old[i][2] = entry[2]}
        tmp == Lowest(s.got)
        new == [s.got EXCEPT ![tmp] = entry[2]]
    IN  IF ~s.ok THEN s
        ELSE IF old # {} THEN [s EXCEPT !.got = Dup(s.got, s.old[Min(old)][1], fd)]
        ELSE [got |-> IF tmp # fd THEN Shut(Dup(new, tmp, fd), tmp) ELSE new,
              old |-> Append(s.old, entry),
              ok  |-> Len(s.old) < MaxOldPipes]

\* The entries come in the order of their descriptors: restored[n] is after those
\* below n.
restore_pipes(entries) ==
    LET entry(f) == CHOOSE e \in entries : e[1] = f
        restored[n \in 0..MaxFd] ==
            IF n = 0 THEN [got |-> Fresh, old |-> <<>>, ok |-> TRUE]
            ELSE IF \E e \in entries : e[1] = n - 1
                 THEN RestoreEntry(restored[n - 1], entry(n - 1))
                 ELSE restored[n - 1]
    IN  restored[MaxFd]

Image(entries) ==
    LET s == restore_pipes(entries) IN [got |-> s.got, want |-> entries, ok |-> s.ok]

-----------------------------------------------------------------------------
(* vfork.                                                                  *)

\* A defect: stash_file_descriptors that begins with descriptor 1.
StashFromOne ==
    [f \in All |-> IF f > MaxFd /\ fds[f - MaxFd] # None THEN fds[f - MaxFd] ELSE fds[f]]

stash_file_descriptors ==
    [f \in All |-> IF f >= MaxFd /\ fds[f - MaxFd] # None THEN fds[f - MaxFd] ELSE fds[f]]

\* A defect: unstash_file_descriptors that spares the descriptors the child opened.
UnstashClosed ==
    [f \in All |-> IF f >= MaxFd THEN None
                   ELSE IF fds[f] = None THEN fds[f + MaxFd] ELSE fds[f]]

\* A slot that was closed when the descriptors were put aside is left as it is.
unstash_file_descriptors ==
    [f \in All |-> IF f >= MaxFd THEN None
                   ELSE IF fds[f + MaxFd] # None THEN fds[f + MaxFd] ELSE fds[f]]

\* dup2 does not copy FD_CLOEXEC.
unstashed == {f \in Fd : fds[f + MaxFd] # None}

Runs == mode = "runs"

\* nacl_spawn_vfork_before; vfork returns 0.
vfork ==
    /\ Runs /\ ~vforking
    /\ vforking' = TRUE
    /\ fds' = stash_file_descriptors
    /\ saved' = [f \in Fd |-> fds[f]]
    /\ heir' = Nobody
    /\ UNCHANGED <<cloexec, vforkPid, mode, pipes, server>>

\* The longjmp, and nacl_spawn_vfork_after: vfork returns the pid.
VforkReturns(pid) ==
    /\ vforkPid' = pid
    /\ vforking' = FALSE
    /\ fds' = unstash_file_descriptors
    /\ cloexec' = cloexec \ unstashed
    /\ saved' = [f \in Fd |-> None]
    /\ Released
    /\ UNCHANGED <<mode, pipes>>

\* exec in the child of a vfork: spawn, then jump, whether there is a child or not.
ExecInVfork ==
    /\ Runs /\ vforking
    /\ \/ heir' = Image(CloneFileDescriptors) /\ VforkReturns("child")
       \/ heir' = Nobody /\ VforkReturns("-1")

\* The server makes a pid for a process that never ran, or answers an error.
nacl_spawn_vfork_exit ==
    /\ Runs
    /\ heir' = Nobody
    /\ \/ vforking /\ \E pid \in {"child", "-1"} : VforkReturns(pid)
       \/ /\ ~vforking /\ mode' = "exited"
          /\ UNCHANGED <<fds, cloexec, vforking, vforkPid, pipes, server, saved>>

-----------------------------------------------------------------------------
(* exec and spawn outside of vfork.                                        *)

\* The image replaces the process, and the server adds its ends to those of the old
\* one; it fails before the request is sent, or by its answer, which the library
\* takes for impossible.
Exec ==
    /\ Runs /\ ~vforking
    /\ \/ LET image == Image(CloneFileDescriptors)
          IN  /\ heir' = image /\ fds' = image.got
              /\ mode' = IF image.ok THEN "runs" ELSE "exited"
              /\ server' = server \cup {e[2] : e \in image.want}
              /\ cloexec' = {} /\ vforkPid' = "-1"
       \/ /\ heir' = Nobody /\ mode' \in {"runs", "aborted"}
          /\ UNCHANGED <<fds, server, cloexec, vforkPid>>
    /\ UNCHANGED <<vforking, pipes, saved>>

\* spawnve with P_NOWAIT or P_WAIT, and posix_spawn.
Spawn ==
    /\ Runs
    /\ \/ heir' = Image(CloneFileDescriptors) /\ mode' \in {"runs", "waits"}
       \/ heir' = Nobody /\ mode' = mode
    /\ UNCHANGED <<fds, cloexec, vforking, vforkPid, pipes, server, saved>>

\* The wait of P_WAIT is answered.
Waited ==
    /\ mode = "waits" /\ mode' = "runs" /\ heir' = Nobody
    /\ UNCHANGED <<fds, cloexec, vforking, vforkPid, pipes, server, saved>>

-----------------------------------------------------------------------------
(* What a program does with its descriptors, in a vfork or not.  It keeps  *)
(* below MAX_FILE_DESCRIPTOR.                                              *)

Program == Runs /\ heir' = Nobody /\ UNCHANGED <<vforking, vforkPid, mode, saved>>

\* The server opens both ends; each open can fail, and then what succeeded is closed.
nacl_spawn_pipe2 ==
    /\ Program /\ pipes < MaxPipes
    /\ pipes' = pipes + 1
    /\ UNCHANGED cloexec
    /\ LET p    == pipes + 1
           both == {End(p, "reads"), End(p, "writes")}
           r    == Lowest(fds)
           t    == [fds EXCEPT ![r] = End(p, "reads")]
           w    == Lowest(t)
       IN  \/ /\ Cardinality(Fd \ Opened(fds)) >= 2
              /\ fds' = [t EXCEPT ![w] = End(p, "writes")]
              /\ server' = server \cup both
           \/ \E opened \in (SUBSET both) \ {both} :
                  fds' = fds /\ server' = server \cup (both \ opened)

dup2(i, j) ==
    /\ Program /\ fds[i] # None /\ i # j
    /\ fds' = Dup(fds, i, j) /\ cloexec' = cloexec \ {j}
    /\ Released
    /\ UNCHANGED pipes

close(i) ==
    /\ Program /\ fds[i] # None
    /\ fds' = Shut(fds, i) /\ cloexec' = cloexec \ {i}
    /\ Released
    /\ UNCHANGED pipes

\* FD_CLOEXEC; on the terminal it makes no difference, no child inherits that.
fcntl(i) ==
    /\ Program /\ fds[i] \in Ends
    /\ cloexec' = cloexec \cup {i}
    /\ UNCHANGED <<fds, pipes, server>>

Init ==
    /\ fds = Fresh /\ cloexec = {}
    /\ vforking = FALSE /\ vforkPid = "-1"
    /\ mode = "runs" /\ pipes = 0 /\ server = {}
    /\ heir = Nobody
    /\ saved = [f \in Fd |-> None]

Next ==
    \/ vfork \/ ExecInVfork \/ nacl_spawn_vfork_exit
    \/ Exec \/ Spawn \/ Waited
    \/ nacl_spawn_pipe2
    \/ \E i \in Fd : close(i) \/ fcntl(i) \/ \E j \in Fd : dup2(i, j)

Spec == Init /\ [][Next]_vars

-----------------------------------------------------------------------------
(* Properties.                                                             *)

\* When vfork returns in the parent, every descriptor that was open at the vfork
\* is the file it was, whatever the child closed, opened, duplicated or ran, and
\* no copy is left behind: it would keep the end of a pipe open for ever, and no
\* reader of the pipe would see its end.
FilesRestored ==
    [][vforking /\ ~vforking' =>
          /\ \A f \in Fd : saved[f] # None => fds'[f] = saved[f]
          /\ \A f \in All \ Fd : fds'[f] = None]_vars

\* The server never drops an end the process still has, or will have again when
\* the vfork returns: the copies keep the files of the parent open even if the
\* child closes every descriptor it can see.
EndsSurviveVfork == EndsIn(fds, All) \cup EndsIn(saved, Fd) \subseteq server

\* An image that was set up has the pipes of its parent at the same descriptors,
\* without those closed on exec, and no pipe at any other descriptor; only more
\* pipes than it can note stop it.
HeirHasItsPipes ==
    /\ heir.ok => {<<f, heir.got[f]>> : f \in {g \in All : heir.got[g] \in Ends}} = heir.want
    /\ heir.want # {} /\ ~heir.ok => Cardinality({e[2] : e \in heir.want}) > MaxOldPipes

=============================================================================
