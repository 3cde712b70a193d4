------------------------------- MODULE Files -------------------------------
(***************************************************************************)
(* What glibc-compat adds to the file functions of Native Client:          *)
(* realpath.c, openat.c, mktemp.c and writev.c, over a file system without *)
(* links, as nacl_io has it.                                               *)
(*                                                                         *)
(* A path is absolute or not and has names, among them "", "." and "..".   *)
(* A place is the sequence of the names that lead to it from the root; a   *)
(* file system gives the kind of each place, and a state has it, the       *)
(* working directory and the directories that descriptors stand for.       *)
(***************************************************************************)
EXTENDS Integers, Sequences, SequencesExt, FiniteSets, FiniteSetsExt, Functions

CONSTANTS MaxPath,   \* PATH_MAX, in names
          Templates  \* bound: numbers tried for a temporary name

Bad == <<"bad">>     \* no place
AT_FDCWD == "cwd"
IsDir(fs, place) == place \in DOMAIN fs /\ fs[place] = "dir"
Parent(place) == IF place = <<>> THEN <<>> ELSE Front(place)

-----------------------------------------------------------------------------
(* realpath.c.                                                             *)

\* One name of the path: what it leads to must be there, and be a directory if
\* more names follow.
Enter(fs, at, name, last) ==
    LET to == CASE name \in {"", "."} -> at [] name = ".." -> Parent(at) [] OTHER -> Append(at, name)
    IN  IF at = Bad \/ Len(to) > MaxPath \/ to \notin DOMAIN fs \/ (~last /\ fs[to] # "dir")
        THEN Bad ELSE to

realpath(fs, cwd, path) ==
    LET start == IF path.abs THEN <<>> ELSE cwd
        n     == Len(path.names)
    IN  IF start \notin DOMAIN fs THEN Bad
        ELSE FoldLeft(LAMBDA at, i : Enter(fs, at, path.names[i], i = n), start,
                      [i \in 1 .. n |-> i])

-----------------------------------------------------------------------------
(* The calls of the system (nacl_io), for a path and a working directory.  *)

Look(fs, cwd, path) ==
    LET Go(at, name) ==
            IF at = Bad \/ ~IsDir(fs, at) THEN Bad
            ELSE IF name \in {"", "."} THEN at
            ELSE IF name = ".." THEN Parent(at)
            ELSE Append(at, name)
        to == FoldLeft(Go, IF path.abs THEN <<>> ELSE cwd, path.names)
    IN  IF to # Bad /\ IsDir(fs, Parent(to)) /\ IsDir(fs, IF path.abs THEN <<>> ELSE cwd)
        THEN to ELSE Bad

\* An operation: its result, and the file system after it.
PerformAt(s, op, at) ==
    LET kept(r) == [s |-> s, result |-> r]
        Without == [s EXCEPT !.fs = [p \in DOMAIN @ \ {at} |-> @[p]]]
        With(kind) == [s EXCEPT !.fs = [p \in DOMAIN @ \cup {at} |-> IF p = at THEN kind ELSE @[p]]]
        there == at # Bad /\ at \in DOMAIN s.fs
    IN  CASE op \in {"open", "stat", "access", "chmod"} -> kept(IF there THEN at ELSE Bad)
          [] op = "creat" -> IF at = Bad \/ IsDir(s.fs, at) THEN kept(Bad)
                             ELSE [s |-> With("file"), result |-> at]
          [] op = "mkdir" -> IF at = Bad \/ there THEN kept(Bad) ELSE [s |-> With("dir"), result |-> at]
          [] op = "unlink" -> IF ~there \/ IsDir(s.fs, at) THEN kept(Bad)
                              ELSE [s |-> Without, result |-> at]
          [] op = "rmdir" -> IF \/ ~there \/ ~IsDir(s.fs, at) \/ at = <<>>
                                \/ \E p \in DOMAIN s.fs : p # <<>> /\ p # at /\ Parent(p) = at
                             THEN kept(Bad) ELSE [s |-> Without, result |-> at]
Perform(s, op, path) == PerformAt(s, op, Look(s.fs, s.cwd, path))

-----------------------------------------------------------------------------
(* openat.c.                                                               *)

\* A descriptor that is no directory is reported, and the working directory is
\* used instead.
WrapStart(s, dirfd) ==
    IF dirfd # AT_FDCWD /\ IsDir(s.fs, s.dirs[dirfd]) THEN [s EXCEPT !.cwd = s.dirs[dirfd]] ELSE s

\* A working directory that is gone is not entered again.
WrapEnd(s, save, dirfd) ==
    IF dirfd # AT_FDCWD /\ IsDir(s.fs, save) THEN [s EXCEPT !.cwd = save] ELSE s

At(s, op, dirfd, path) ==
    [Perform(WrapStart(s, dirfd), op, path) EXCEPT !.s = WrapEnd(@, s.cwd, dirfd)]

openat(s, dirfd, path, creat)     == At(s, IF creat THEN "creat" ELSE "open", dirfd, path)
fstatat(s, dirfd, path)           == At(s, "stat", dirfd, path)
faccessat(s, dirfd, path)         == At(s, "access", dirfd, path)
fchmodat(s, dirfd, path)          == At(s, "chmod", dirfd, path)
unlinkat(s, dirfd, path, dir)     == At(s, IF dir THEN "rmdir" ELSE "unlink", dirfd, path)
mkdirat(s, dirfd, path)           == At(s, "mkdir", dirfd, path)
fdopendir(s, dirfd)               == At(s, "open", dirfd, [abs |-> FALSE, names |-> <<".">>])

-----------------------------------------------------------------------------
(* mktemp.c.  A template has a name, the characters before its suffix that *)
(* are X, and a suffix; a name that was made is the template with a number. *)

Made(template, i) == <<template.name, i, template.suffix>>

\* The first number that nothing has at the time it is looked for; then what
\* there is when it is opened or made.
_mktemp(template, seen) ==
    IF template.xs < 6 THEN Bad
    ELSE Made(template, Min({i \in 1 .. Templates : Made(template, i) \notin seen}))

Open(name, excl, creat, now) ==
    IF name = Bad \/ (IF name \in now THEN excl /\ creat ELSE ~creat) THEN Bad ELSE name

mktemp(template, seen, now)  == _mktemp(template, seen)
mkdtemp(template, seen, now) == Open(_mktemp(template, seen), TRUE, TRUE, now)
mkstemps(template, seen, now) == Open(_mktemp(template, seen), TRUE, TRUE, now)
mkstemp(template, seen, now) == mkstemps([template EXCEPT !.suffix = ""], seen, now)
\* With the flags of the caller, as they are.
mkostemps(template, flags, seen, now) ==
    Open(_mktemp(template, seen), "excl" \in flags, "creat" \in flags, now)
mkostemp(template, flags, seen, now) ==
    mkostemps([template EXCEPT !.suffix = ""], flags, seen, now)

-----------------------------------------------------------------------------
(* writev.c.  Each call of write moves a number of bytes, none, or fails.  *)

\* The bytes moved, and what is left of the buffers.
Move(iov, moves) ==
    LET Rest(left, n) ==
            IF n < Len(left[1]) THEN <<SubSeq(left[1], n + 1, Len(left[1]))>> \o Tail(left)
            ELSE Tail(left)
        Add(s, move) ==
            LET left == SelectSeq(s.left, LAMBDA b : b # <<>>)
                n    == Min({move, Len(left[1])})
            IN  IF s.done \/ left = <<>> THEN s
                ELSE IF move <= 0 THEN [s EXCEPT !.done = TRUE]
                ELSE [s EXCEPT !.data = @ \o SubSeq(left[1], 1, n), !.left = Rest(left, n)]
    IN  FoldLeft(Add, [data |-> <<>>, left |-> iov, done |-> FALSE], moves)

\* Data that was moved is told, even if a later call failed.
writev(iov, moves) ==
    LET s == Move(iov, moves)
    IN  [data |-> s.data, result |-> IF s.data = <<>> /\ s.done /\ moves[1] < 0 THEN -1 ELSE Len(s.data)]

-----------------------------------------------------------------------------
Absolute(place) == [abs |-> TRUE, names |-> place]
Under(place, path) == IF path.abs THEN path ELSE Absolute(place \o path.names)

\* realpath and the system agree on what a path leads to, a path from a
\* directory is the path with the directory before it, and the real path of a
\* real path is itself (realpath).
PathsAreReal(fs, cwd, path) ==
    LET real == realpath(fs, cwd, path)
        seen == Look(fs, cwd, path)
    IN  /\ real = IF seen # Bad /\ seen \in DOMAIN fs THEN seen ELSE Bad
        /\ real # Bad => realpath(fs, <<>>, Absolute(real)) = real
        /\ \A k \in 0 .. Len(path.names) - 1 :
              LET dir == realpath(fs, cwd, [path EXCEPT !.names = SubSeq(@, 1, k)])
              IN  dir # Bad /\ IsDir(fs, dir) =>
                    realpath(fs, dir, [abs |-> FALSE, names |-> SubSeq(path.names, k + 1, Len(path.names))])
                    = real

\* A call with the descriptor of a directory does to the path below it what the
\* call of the system does, and the process stays where it was, unless that is
\* gone (_AT_WRAP_START, _AT_WRAP_END).
CallsAreBelow(s, op, dirfd, path) ==
    LET r    == At(s, op, dirfd, path)
        base == IF dirfd = AT_FDCWD THEN s.cwd ELSE s.dirs[dirfd]
        full == Perform(s, op, Under(base, path))
    IN  IsDir(s.fs, base) /\ IsDir(s.fs, s.cwd) =>
          /\ r.result = full.result /\ r.s.fs = full.s.fs
          /\ IsDir(r.s.fs, s.cwd) => r.s.cwd = s.cwd

\* Whoever makes a temporary file while another does gets one of its own, that
\* was not there before, or none (mkstemp, mkstemps, mkdtemp).
TempIsOwn(template, before) ==
    LET other == mkstemps(template, before, before)
        now   == before \cup ({other} \ {Bad})
        mine  == mkstemps(template, before, now)
        dir   == mkdtemp(template, before, now)
        next  == mkstemps(template, now, now)
    IN  /\ other \notin before
        /\ mine = Bad \/ mine \notin now
        /\ dir = Bad \/ dir \notin now
        /\ template.xs >= 6 => other # Bad /\ next # Bad /\ next \notin now
        /\ mkostemp(template, {}, before, before) = Bad

\* The bytes that were moved are the first ones of the buffers one after the
\* other, and the result is their number (writev, readv).
MovedInOrder(iov, moves) ==
    LET r == writev(iov, moves)
        all == FlattenSeq(iov)
    IN  /\ IsPrefix(r.data, all) /\ r.result \in {Len(r.data), -1}
        /\ r.result = -1 => r.data = <<>> /\ moves[1] < 0
        /\ (Len(moves) >= Len(all) /\ \A i \in DOMAIN moves : moves[i] > 0) => r.data = all
=============================================================================
