------------------------------- MODULE Startup -------------------------------
(***************************************************************************)
(* What a program finds when it starts: cli_main.c, nacl_setup_env.c (the  *)
(* file systems it mounts) and nacl_startup_untar.c (the files some        *)
(* programs bring along), over any number of starts, which may end at any  *)
(* point, and on a store of the browser that outlives them.                *)
(*                                                                         *)
(* A path is a sequence of names.  A store gives what is at each path: a   *)
(* directory, or a file, which is known by its version; "mem" is new in    *)
(* each process, "persistent" and "temporary" belong to the browser, and   *)
(* "local" is a directory of the user's machine.                           *)
(***************************************************************************)
EXTENDS Integers, Sequences, SequencesExt, FiniteSets, FiniteSetsExt

CONSTANTS Bundle,  \* version -> the paths of the files in it, in order
          HashFile \* the path below the root of <name of the bundle>.hash

Nothing == "nothing"
NoPath  == <<"nowhere">>
Empty   == [path \in {<<>>} |-> "dir"]

\* A process before main: what it has mounted, the stores, where it is.
Before(disk) == [rtn |-> "runs", mounts |-> <<>>, cwd |-> <<>>,
                 stores |-> [mem |-> Empty, persistent |-> disk.persistent,
                             temporary |-> disk.temporary, local |-> disk.local, http |-> Empty]]
Disk(p) == [persistent |-> p.stores.persistent, temporary |-> p.stores.temporary,
            local |-> p.stores.local]

-----------------------------------------------------------------------------
(* The file systems, as nacl_io mounts them.                               *)

\* A path belongs to what is mounted closest to it.
Where(p, path) ==
    LET at == CHOOSE m \in DOMAIN p.mounts :
                 /\ IsPrefix(m, path)
                 /\ \A n \in DOMAIN p.mounts : IsPrefix(n, path) => Len(n) <= Len(m)
    IN  [store |-> p.mounts[at].store,
         path  |-> p.mounts[at].source \o SubSeq(path, Len(at) + 1, Len(path))]
Stored(store, path) == IF path \in DOMAIN store THEN store[path] ELSE Nothing
ContentAt(p, w) == Stored(p.stores[w.store], w.path)
Content(p, path) == ContentAt(p, Where(p, path))
IsDirectory(p, path) == Content(p, path) = "dir"
WriteAt(p, w, what) ==
    [p EXCEPT !.stores[w.store] =
        [q \in DOMAIN @ \cup {w.path} |-> IF q = w.path THEN what ELSE @[q]]]
Write(p, path, what) == WriteAt(p, Where(p, path), what)

do_mount(p, fails, place, store, source) ==
    IF place \in fails THEN p
    ELSE [p EXCEPT !.mounts = [m \in DOMAIN @ \cup {place} |->
             IF m = place THEN [store |-> store, source |-> source] ELSE p.mounts[m]]]

\* A directory that cannot be made is reported, and the start goes on.
mkdir_checked(p, path) ==
    IF Content(p, path) # Nothing \/ ~IsDirectory(p, Front(path)) THEN p ELSE Write(p, path, "dir")

\* Without a root in the store of the browser, that store is mounted below /mnt,
\* and its directory home in place of the home of the user.
MountHome(html, made, fails, home) ==
    IF <<"mnt", "html5">> \in fails \/ ~IsDirectory(made, <<"mnt", "html5", "home">>) THEN html
    ELSE do_mount(made, fails, home, "persistent", <<"home">>)
MountHtml5(p, fails, home) ==
    LET top  == <<"mnt", "html5">>
        html == do_mount(mkdir_checked(p, top), fails, top, "persistent", <<>>)
    IN  MountHome(html, mkdir_checked(html, Append(top, "home")), fails, home)

\* mountfs: a directory of the user's machine, if there is one.
MountLocal(p, fails, local) ==
    IF local = NoPath THEN p ELSE do_mount(mkdir_checked(p, local), fails, local, "local", <<>>)

Home(env)  == IF env.home = NoPath THEN <<"home", "user">> ELSE env.home
Stopped(p) == [p EXCEPT !.rtn = 1]

\* The working directory of the parent, if it is there, and the pipes.
EnterPwd(p, env) ==
    IF env.pwd # NoPath /\ ~IsDirectory(p, env.pwd) THEN Stopped(p)
    ELSE [p EXCEPT !.cwd = IF env.pwd = NoPath THEN @ ELSE env.pwd,
                   !.rtn = IF ~env.restored THEN 1 ELSE 0]

nacl_setup_env(p, env) ==
    LET home == Home(env)
        root == IF env.root = NoPath THEN do_mount(p, env.fails, <<>>, "mem", <<>>)
                ELSE do_mount(p, env.fails, <<>>, "persistent", env.root)
        dirs == FoldLeft(mkdir_checked, root,
                         <<<<"home">>, home, <<"tmp">>, <<"bin">>, <<"etc">>, <<"mnt">>, <<"mnt", "http">>>>)
        http == do_mount(dirs, env.fails, <<"mnt", "http">>, "http", <<>>)
        html == IF env.root = NoPath THEN MountHtml5(http, env.fails, home) ELSE http
        tmp  == do_mount(html, env.fails, <<"tmp">>, "temporary", <<>>)
    IN  CASE ~env.browser -> do_mount([p EXCEPT !.rtn = 0], {}, <<>>, "mem", <<>>)
          [] env.browser /\ <<>> \in env.fails -> Stopped(p)
          [] env.browser /\ <<>> \notin env.fails /\ ~env.pipes -> Stopped(root)
          [] OTHER -> EnterPwd(MountLocal(tmp, env.fails, env.local), env)

-----------------------------------------------------------------------------
(* nacl_startup_untar.  A bundle is served with its hash, or without one;  *)
(* it may also be next to the program.                                     *)

\* Where the bundle is: what is there, and the path of its hash.
Served(p, env) ==
    IF env.beside # Nothing THEN [tar |-> env.beside, hash |-> Content(p, env.dir \o HashFile)]
    ELSE [tar |-> env.served, hash |-> IF env.hashed THEN env.served ELSE Nothing]

already_extracted(p, served) == served.hash # Nothing /\ Content(p, HashFile) = served.hash

copy_hashfile(p, served) == IF served.hash = Nothing THEN p ELSE Write(p, HashFile, served.hash)

\* The first n files of the bundle (tar_extract_all of libtar).
Extract(p, version, n) ==
    FoldLeft(LAMBDA q, path : Write(q, path, version), p, SubSeq(Bundle[version], 1, n))

\* A defect: the hash is written before the files.
HashFirst(p, served, stop) ==
    LET n == Len(Bundle[served.tar])
    IN  IF stop > n THEN Extract(copy_hashfile(p, served), served.tar, n)
        ELSE Extract(copy_hashfile(p, served), served.tar, stop)

\* The files, then the hash; the process may end in between, also while the hash
\* is written, which is then cut short.
Unpack(p, served, stop) ==
    LET n == Len(Bundle[served.tar])
    IN  CASE stop < n     -> Extract(p, served.tar, stop)
          [] stop = n     -> Extract(p, served.tar, n)
          [] stop = n + 1 -> LET q == Extract(p, served.tar, n)
                             IN  IF served.hash = Nothing THEN q ELSE Write(q, HashFile, "cut")
          [] OTHER        -> copy_hashfile(Extract(p, served.tar, n), served)

nacl_startup_untar(p, env) ==
    LET served == Served(p, env)
    IN  IF ~env.browser \/ env.devenv THEN p
        ELSE IF already_extracted(p, served) THEN p
        ELSE IF served.tar = Nothing THEN [p EXCEPT !.rtn = 1]
        ELSE [Unpack(p, served, env.stop) EXCEPT
                 !.rtn = IF env.stop <= Len(Bundle[served.tar]) + 1 THEN 1 ELSE 0]

\* cli_main, and the main of a program that brings files along.
Bring(p, env) == IF p.rtn # 0 THEN p ELSE nacl_startup_untar(p, env)
cli_main(disk, env) == Bring(nacl_setup_env(Before(disk), env), env)

-----------------------------------------------------------------------------
HasFiles(p, env) ==
    LET got == IF env.beside # Nothing THEN env.beside ELSE env.served
    IN  p.rtn = 0 /\ env.browser /\ ~env.devenv /\ got # Nothing =>
            \A i \in DOMAIN Bundle[got] : Content(p, Bundle[got][i]) = got

\* A program that starts finds every file of the bundle it was served, whatever
\* happened to the starts before it and whichever versions they were served,
\* if versions only grow and the bundle is not in the directory it is unpacked
\* to (nacl_startup_untar).
FilesAreThere(disk, starts) ==
    LET After[n \in 0 .. Len(starts)] ==
            IF n = 0 THEN Before(disk) ELSE cli_main(Disk(After[n - 1]), starts[n])
    IN  \A n \in DOMAIN starts : HasFiles(After[n], starts[n])

HasHome(p, env) == p.rtn = 0 /\ (env.root # NoPath \/ Home(env) \in DOMAIN p.mounts)
FindsFile(p, env) == HasHome(p, env) => Content(p, Append(Home(env), "file")) = "mine"
Outlives(p, env, other) ==
    LET q    == Write(p, Append(Home(env), "file"), "mine")
        next == [other EXCEPT !.root = env.root, !.home = env.home]
    IN  /\ env.browser /\ other.browser /\ HasHome(p, env) =>
             FindsFile(nacl_setup_env(Before(Disk(q)), next), env)
        /\ env.browser /\ p.rtn = 0 /\ <<"tmp">> \in DOMAIN p.mounts =>
             Write(p, <<"tmp", "file">>, "mine").stores.persistent = p.stores.persistent

\* What a program writes under its home it finds there at the next start, when
\* the mounts that are needed succeed, and what it writes to /tmp never gets
\* into the persistent store (nacl_setup_env).
HomeIsKept(disk, env, other) == Outlives(nacl_setup_env(Before(disk), env), env, other)

InPlace(parent, child, env, place) ==
    /\ env.browser /\ env.root # NoPath /\ parent.rtn = 0 /\ IsDirectory(parent, place)
         => child.rtn = 0 /\ child.cwd = place
    /\ child.rtn = 0 /\ env.browser => IsDirectory(child, child.cwd)

\* A program that was started by one with the same root and mounts, in a
\* directory that one has, finds itself there (nacl_setup_env: PWD).
StartsInPlace(disk, env, place) ==
    LET parent == nacl_setup_env(Before(disk), env)
    IN  InPlace(parent, nacl_setup_env(Before(Disk(parent)), [env EXCEPT !.pwd = place]), env, place)
=============================================================================
