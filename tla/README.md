# TLA+ models of webports

webports ports open source software to Native Client.  Four parts of the
repository are programs of their own rather than build recipes:

* the **process runtime**, which gives programs in a web page a POSIX-like
  world: `build_tools/naclprocess.js` (process manager), `pipeserver.js` (pipe
  server) and `naclterm.js` (terminal) in the page, `ports/devenv` (the local
  folder), and the C library `ports/nacl-spawn` in every program;
* the **compatibility library** `ports/glibc-compat`, which has what Native
  Client's C library lacks: a resolver, directory walks, calls below a
  directory, address conversions;
* **drivers** that ports bring along: coroutine threads (`ports/dreadthread`),
  the display of the X servers (`ports/xorg-server/sdl.c`) and of xaos;
* the **package manager** `lib/webports`, which downloads, builds, installs and
  uninstalls packages on the developer's machine.

## Inventory

| Component | Source | State | Operations | Talks to |
|---|---|---|---|---|
| process manager | `build_tools/naclprocess.js` | processes, groups, waiters, next pid, foreground process, one `<embed>` element per process | spawn (new / overlay / dead pid), exit, kill, waitpid, get/set pgid and sid, sigint | browser (element events, manifest request with a callback), clients (messages), pipe server (calls) |
| pipe server | `build_tools/pipeserver.js` | per pipe: readers, writers, pending reads, buffered writes | create, read, write, close, delete process | called by the process manager |
| process client | `ports/nacl-spawn/nacl_spawn.cc`, `nacl_apipe.c`, `nacl_pp_helpers.c`, `nacl_setup_env.c` | descriptors, request id, one reply slot per blocked thread, vfork's saved descriptors | spawnve, waitpid, pipe2, setpgid, vfork/exec/exit, mount | process manager (message and reply) |
| start of a program | `library_dependencies.cc`, `elf_reader.cc`, `path_util.cc`, `nacl_startup_untar.c`, `cli_main.c` | the files of the browser's store, across starts | find the program and its libraries, mount file systems, unpack a bundle | spawnve, nacl_io |
| mount manager | `ports/devenv/mounter.js`, `bash.js`; `naclprocess.js:487-526, 624-630` | the folder, what each process has mounted | choose, mount, unmount, broadcast, acknowledge | process manager, clients |
| terminal | `build_tools/naclterm.js` | terminal size, argv | start the root process, keystrokes, Control-C | process manager |
| resolver | `glibc-compat/src/res_*.c`, `ns_*.c` | one `res_state` per thread, the stamp of `res_init` | initialise, query, search, send through a hook; pack and unpack names | programs |
| directory walks | `glibc-compat/src/fts.c` | an `FTS` and the working directory | open, read, children, set, close | the file system, which others change |
| files, addresses, sorting | `glibc-compat/src`: `openat.c`, `realpath.c`, `mktemp.c`, `writev.c`, `inet_*.c`, `ns_netint.c`, `qsort_r.c` | the working directory | calls below a directory, conversions | programs |
| dreadthread | `ports/dreadthread/dread.c`, `dread_chain.c` | run queue, queues of semaphores and events, stacks | run, exit, wait, take, drop, yield | a program |
| X server driver | `ports/xorg-server/sdl.c` | the screen, its memory, buttons and pen | turn, draw, poll for input | the X server, SDL |
| xaos driver | `ports/xaos/nacl-ui-driver` | the event queue, the image, the flush | refresh, input, draw, get event | the browser, xaos |
| package manager: build | `lib/webports/source_package.py`, `build_tools/common.sh` | download cache, source tree, stamps, package file | download, extract, patch, build, clean | install, network, git |
| package manager: install | `binary_package.py`, `installed_package.py`, `util.py` | stamp and file list per package, the toolchain's files, lock files | install, uninstall | other webports processes through the disk |
| package manager: data | `pkg_info.py`, `package.py`, `package_index.py`, `configuration.py` | none that changes | parse, look up | all of the above |
| debugger, harness | `ports/gdb/extension`, `chrome_test` | debugged processes | attach, message routing | Chrome's debugger |

How they interact.  A program calls a libc function; the client turns it into a
message with a fresh id, posts it to the page and blocks the calling thread
until the reply for that id.  The page handles one message at a time.  Most
replies are posted by the handler itself; three are posted by a later event:
spawn's (a callback of the browser after the manifest was fetched), waitpid's
(an exit) and a pipe read's (a write or a close).  Between request and late
reply other processes, and other threads of the same process, go on, and the
element that asked can disappear.  That is where this code is hard: the
interleavings of late replies with exits, closes, spawns and exec, and tables
(groups, waiters, pipe ends, foreground process, mounts) that have to stay in step
with the elements of the page whatever the order.

The libraries are sequential, with two kinds of trouble: state that survives a
call and is stale at the next (the resolver's configuration, the walker's
working directory, a hash file from an earlier start), and other processes that
change files between two calls.  The drivers run a thread of the program beside
the callbacks of the browser.

What makes each component correct:

* pipe server: a pipe is a byte stream; readers are woken by data and by
  end-of-file, at the right time and only then; the server's idea of who has an
  end open is the clients' idea;
* process manager: no exit is missed by waitpid; every process is in exactly the
  group and session it says; the input goes to a process that runs; every
  request is answered;
* process client: the reply reaches the thread that asked, whatever the order
  of the two; after vfork the parent has the descriptors it had; a child has
  the pipes it was given;
* start of a program: everything it needs is found, once; after any number of
  starts that end anywhere its files are there;
* mounts: a folder that is shown as mounted is mounted in every process, and one
  that is left somewhere can be unmounted;
* resolver: every server and every domain is asked that should be; names and
  numbers are read back as they were written;
* walks: the process is in the directory whose entries it visits; a walk ends,
  and visits everything once;
* dreadthread: no waiter is forgotten, the program ends only when nobody can
  go on, and whoever can run has a stack that is large enough;
* drivers: what was drawn is shown, and input is known as it was made;
* package manager: what the stamps say is what is on disk, after every crash;
  two webports processes never change one directory together.

## Modules

| Module | Extends / instantiates | Models |
|---|---|---|
| `ByteStream` | | abstract: what a pipe promises |
| `PipeServer` | | `pipeserver.js`, with the descriptors and blocked threads of the clients |
| `PipeStream` | `PipeServer`, `ByteStream` per pipe | the refinement from queues to streams |
| `MCPipeServer` | `PipeStream` | an instance for TLC |
| `PipeServer_proofs` | `PipeStream`, TLAPS | theorems about the pipe server and the refinement |
| `ProcessManager`, `MCProcessManager` | | processes, groups, sessions, waits, spawn, foreground |
| `ProcessManager_proofs` | `ProcessManager`, TLAPS | theorems about the process manager |
| `SendRequest` | | the request channel of one process, `nacl_pp_helpers.c` |
| `SpawnClient` | | vfork, exec, spawn and the descriptors a child inherits |
| `SpawnClient_proofs` | `SpawnClient`, `SendRequest`, TLAPS | theorems about the client: the channel, descriptors, vfork and inherited pipes |
| `MountManager`, `MCMountManager` | | the local folder: page, process manager and processes |
| `MountManager_proofs` | `MountManager`, TLAPS | theorems about the mounts |
| `InstallDb`, `MCInstallDb` | | install and uninstall of packages under the directory lock |
| `InstallDb_proofs` | `InstallDb`, TLAPS | theorems about the install database |
| `SourceBuild`, `MCSourceBuild` | | download, extract, patch and packaging of one port |
| `SourceBuild_proofs` | `SourceBuild`, TLAPS | theorems about building from source |
| `DreadThread`, `MCDreadThread` | | coroutine threads |
| `DreadThread_proofs` | `DreadThread`, TLAPS | theorems about the threads |
| `Fts`, `MCFts` | | directory walks |
| `XaosDriver` | | the driver of xaos |
| `Ports_proofs` | `Fts`, `XaosDriver`, TLAPS | theorems about the walks and the driver of xaos |
| `ProgramLoad` | | finding a program, its libraries and the interpreter of a script |
| `PepperVars` | | the dictionaries and arrays of requests and replies |
| `Startup` | | mounts and bundles, over several starts |
| `DomainName` | | domain names as text, in wire format and compressed |
| `Resolver` | `DomainName` | configuration, queries, search, sending |
| `Files` | | realpath, calls below a directory, temporary files, writev |
| `Conversions` | | addresses, numbers of messages, sorting |
| `SdlServer` | | the display driver of the X servers |
| `MCAlgorithms` | `ProgramLoad`, `Resolver`; instances of the other six | the functions above on all inputs of small sets |

Throughout, a step is what the program does without giving others a chance: a
whole handler in JavaScript, which runs handlers one at a time; a section under
a mutex, or between two calls that block, in C; one file-system call in Python
and shell.  Definitions that begin with a comment "Mutant" or "A defect" are
deliberate errors; nothing uses them but the mutation tests named in
`PROJECT.json`.

### PipeServer

`anonymousPipes` and `anonymousPipeId` are the server's tables.  `fds` is what
each process has open (nacl_io counts descriptors inside the process; the server
hears of the first and the last), `call` the call each thread is blocked in, and
`replies` what the last step posted.  `written` and `received` are histories.
One action per message (`APipe`, `Write`, `Read`, `Close`), one for a spawn
request (the client copies its descriptors, `SpawnRequest`), one for the
callback that starts the child and registers its ends (`AddProcessPipes`) and
one for an exit or a kill (`DeleteProcess`).  An exec replaces the image while another
of its threads may be waiting for a spawn; that spawn is still completed, though
nobody waits for it any more (`cutOff`, `AddCutOff`).  A payload is a run of byte numbers,
so loss, duplication and reordering show without any contents.

Two behaviours of the code are in the model although no run is about them.  A
process that is killed while it reads leaves its request in the queue, where it
takes data that nobody receives (`Orphan`).  A write that nobody reads is
answered with the positive 32 (`EPIPE`, `pipeserver.js:24, 61`), although
`nacl_pp_helpers.c:160` says that errors are negative, and `apipe_write` returns
it as a byte count.

### ProcessManager

The tables have the names of the source: `processes`, `processGroups`,
`waiters`, `pid`, `foregroundProcess`.  `elements` are the `<object>` elements
of the page, numbered in order of creation; an element keeps its number when an
image is replaced, which is how the model tells a reference that has gone stale
from one that has not.  `requests` holds the calls that wait for a callback of
the browser; a handler that throws leaves its request behind, marked "lost", and
a spawn of a dead pid that the browser refuses one marked "refused".  An element is
in the page, or in a popup window of its own, which the browser opens later
(`PopupOpens`): an exit before that throws when it destroys the popup, and the input
stays with the element (`Exit`, `StuckPopup`).
The actions are the message handlers (`SetPGID`, `SetSID`, `WaitCollects`,
`WaitBlocks`, `Request_`), the callbacks (`SpawnNew`, `SpawnOverlay`,
`SpawnRefused`, `DeadPid`, the refusal of a dead pid and the two that throw), the
end of a module, the closing of a popup and Control-C.

`spawn` has a third refusal, for a machine without a name (`naclprocess.js:1247`), which
comes after the process was entered.  It is left out because it cannot happen:
`getNaClArch` (393-411) gives null only where `chrome.runtime.getPlatformInfo`
is missing, and the refusal stands inside a test that it is there (1245).

### SendRequest

A thread numbers its request and registers a handler (`Register`), posts it
(`Post`), waits on a condition variable on its stack (`Wait`) and returns
(`Return`).  The page answers in any order (`Answer`), the message thread looks
up the handler (`Dispatch`) and stores the reply and signals (`HandleReply`).
The process is taken to run under the page (`NACL_PROCESS` is set).  Spurious
wakeups of `pthread_cond_wait` are left out: there is no predicate that the
thread would check again, so one of them makes every property fail at once.

### InstallDb

`stamps`, `lists` and `disk` are the `.info` files, the `.list` files and the
install root; `lockFile`, `held` and `fd` are the lock file as the operating
system sees it, with inodes, because the code removes the file while others may
have it open.  The steps of a command are in `proc[q].at`.  The build of a
package is one step that may fail.  Left out: `--force`, the conflict check
before an install, packages without files, and the temporary directory a
package is unpacked into.  A call that is made under the lock can fail
(`CallFails`): the exception leaves through `DirLock.__exit__`, which removes the
lock, and nothing is rolled back.  `split` records that two processes worked under the
lock at once, which the removal of the lock file makes possible; the claims about
the database are made for behaviours in which it did not happen.  `cutShort`
records that a command ended half way, killed or by a call that failed: after its first
change and before its last.  Only then are files left that no package owns.

### SourceBuild

`archive` and `partial` are the download cache, `trees` the source trees (one
per version), `extracted` and `stamps` the stamp files (one set per port, whatever
its version or configuration), `packages` the package files.  The steps follow
`SourcePackage.build` and `build_port.sh`.  `Stop` stands for every error and for
a kill: the code has no other way out of a failed step than to end the command.
The port is edited and trees are removed while no command runs; ports whose
upstream is a git repository are left out, and so are the developer's commands
`extract`, `patch` and `updatepatch`, which take no lock and are not meant to run
beside a build; the directory lock is taken to work.  Two histories mark what the
code does not protect against and the claims therefore exclude:

* `torn`: a build ended between the rename of a new tree and the end of
  `remove_stamps` while the extract stamp of a removed tree was there.  The next
  build takes the new tree for the patched one;
* `shared`: two processes downloaded the same archive at once, which lets one of
  them replace what the other one has verified.

### SpawnClient

`fds` has the descriptors a program sees (0 to `MaxFd` - 1) and, above them, the
slots `stash_file_descriptors` duplicates them to.  There is no fork: between
`vfork` and the `_exit` or exec of the child, the child is the parent with its
descriptors put aside.  `server` has the ends that the pipe server counts for the
process, `heir` the image that was started last, with what it was to inherit and
what `restore_pipes` gave it.  The `_exit` of a vfork child reports a pid of its
own, or -1 when the page answers with an error (`nacl_spawn.cc:756-760`).  The code leaves some things different after a
vfork, and the model has them: the close-on-exec flags are gone, and a
descriptor the child opened where none was stays open.

### MountManager

`g_mount` is the page's record of the folder, `ui` the buttons that are enabled,
`shown` whether there are any (`restoreMount` mounts the folder of the last time before
it shows them, and never shows them if that throws), `choosing` the dialog;
`processes` has the reports that the process manager has gathered, `local` the folder
a process has mounted, `told` the one an answer names, `toProcess` and `toPage` the
messages under way.  A process that starts asks for the folder, and learns of it by
the answer, by a broadcast, or both; a process that has a folder refuses another.
The user may choose another folder while processes mount or have the first one, because the
button depends on `g_mount.mounted` only (`mounter.js:125`); `replaced` records it.
From then on the page can show a folder as mounted while processes have the other.  Assumed of the browser: an element that was taken out of
the page takes no messages, so a broadcast throws at a process that has ended
and was not collected, and those after it are not reached; messages of an
element that was replaced are lost; a message for which no handler is
registered is dropped.  `refused` records that the file system refused a mount to a
process without a folder, or an unmount: the code does not tell the page, whose
folder is then shown wrongly.  Left out: mount points other than the one that is
offered, and clicks before there is a terminal.

### DreadThread

`todo` is what is left of the library routine a thread is in, a sequence of the
operations that the source calls `..._no_yield` and of the yields between them;
this is its saved context, since only the current thread runs.  `chain` gives
the threads linked to each queue, semaphore and event.  The clients do what
`test.c` does.  The model ends (`StacksAreOwn` guards `Next`) when two
threads have one stack: `dthr_thread_launcher` binds a free stack and does not
take it off the list (`dread.c:801`), so a third thread that fits gets it too.
`DThr_Thread_Run` and its reaper are left out: they wait for a semaphore nobody
drops, and call `dthr_thread_run` on fields that were never set.

### Fts

`levels` is the walk: per level the entry on the path and those still to come.
`build` holds an unfinished call of `fts_build`, because other processes may
rename and unlink between its calls of the system; so do they between the
calls of a program, up to `changes` times.  An entry keeps the directory that it
was when it was looked at (`ino`), whether the walk went there (`in`), and what
`fts_symfd` holds, which can be a number that is closed (`Closed`).  Two histories mark
what the code does not protect against and the claims therefore exclude:

* `astray`: the walk was wrong about its place once.  Either it left a directory that it
  had gone to without going up, because `FTS_DONTCHDIR` was still set from an
  `fts_children` that could not go there; or it went down from a directory that it
  could not go to, by a name that means something else where it is;
* `stale`: a program called `fts_children` and then `FTS_AGAIN`.  The entry is looked
  at again, its children are not, and they may be those of another directory.

`log` has what was returned until something else changed the tree.  Left out: `FTS_NOSTAT` and link counts, `FTS_SEEDOT`, white-outs,
the comparison function, and the growth of the path buffer.  With `FTS_LOGICAL` a
link is followed through all links that it leads to (`Follow`).  A listing is what
the directory has when it is opened.

### XaosDriver

`main` is what the main thread is in the middle of (a refresh, a flush callback,
an input event), `xaos` where the other thread is.  A picture is two halves, copied
one after the other, so that a torn frame shows.  `lost` records that the queue
became full: `HandleInputEvent` then counts it as empty (`ppapi.c:270`), and the
events in it are gone.  `Expected` is the mouse as xaos will know it after some of the
events that wait, a recursive function on their number.

### The algorithms

`MCAlgorithms` first chooses a kind of input (`Begin`) and then one input of that
kind (`Give`); its invariants compare what the code's functions make of it with a reference definition in the module of the
function: the closure of the needed libraries, the text of a name before it was
packed, the order of the domains to search, a place in the file system, an
address, a list in order.  Loops of the code are folds over their inputs
or recursive functions.

* `ProgramLoad`: a path is a directory and a name, an image the fields that
  `ElfReader` looks at, damaged ones included, also one that ends within its
  strings.  A dynamic segment without a string table is read from address 0
  (`elf_reader.cc:197`).  The first line of a script is the words, spaces and ends of
  line that were read and what lies behind them in memory, because the search for the end
  of the line does not stop at the end of what was read (`FirstLine`).  Which loader
  a program needs, and under which name, is decided by the machine that asks.
* `PepperVars`: a heap of counted values; a request must have what was put in and
  leave no reference behind.
* `Startup`: which file systems are mounted over which, and the bundle with its
  hash, over starts that are cut short.  Versions of a bundle only grow and a
  start sees one: when the server goes back to an old version after a cut start, the
  old hash vouches for a mixture.
* `DomainName`: besides the messages that `ns_name_pack` makes, short sequences of any
  bytes are unpacked and skipped, with pointers forward, back, out of the message and in circles.
* `DomainName`, `Resolver`: names are tokens and bytes, a hook of the program answers
  queries (under Native Client nothing else can).  Left out: the sort list, the
  domain of the host name, sockets, the growth of the answer buffer, escaped
  dots in searched names, "." on the search list; ids of queries are given.
* `Files`: no links, as nacl_io has it; a call is one step.
* `Conversions`: a byte has `ByteSize` values, so that the limits of the code come
  up with small numbers; likewise the sizes at which `qsort_r` changes its
  method.  `Pad` moves the bytes behind a `::` one by one, as the code does, which
  clears them when there is nothing to fill.
* `SdlServer`: `NumRects` rectangles; SDL may refuse the mode.  Two things are wrong in the code and in the
  model and are not claimed: a failed turn of a screen that lies on its side
  leaves its size unturned and its pixmap on memory that was freed
  (`sdl.c:423`), and the rectangles of a turned screen are shown unturned
  (`sdl.c:274`).

## Runs

| Run | Instance | Shows |
|---|---|---|
| `pipes` | a shell with two threads, which may exec, and a child; 1 pipe, 3 bytes, requests of 1 or 2 bytes, 3 pending reads, 1 spawn cut off by an exec | no read is stranded or lost, no process becomes the owner of an end it does not have, end-of-file is told when it is true, each pipe is a `ByteStream` |
| `pm_groups` | pids 2 to 4, 3 elements, in the page or in popups, 1 thread, no exec, `setpgid` as a shell uses it | groups and sessions; the foreground process runs unless exit threw on its popup; every spawn is answered but for a dead pid that is refused |
| `pm_threads` | pids 2 to 3, 3 elements, 2 threads, popups, exec, `setpgid` with any group | waits stay sound though the groups do not and handlers throw |
| `send_request` | 3 threads, 4 requests | the reply that wakes a thread is its own, `handle_reply` never touches a dead reply, a sleeper is woken |
| `spawn` | 4 descriptors, 1 pipe, room for 1 old pipe | vfork gives the parent its files back and leaves no copy, the server drops no end that is needed, a child has exactly its pipes |
| `mount` | 2 folders, 2 processes, 3 clicks | reports are true; a folder shown as mounted is mounted everywhere, or another that it took the place of; a folder left somewhere can be unmounted |
| `install_db` | 3 packages (a library, an application that needs it, and one that has a file in common with each), 2 files, 2 processes | stamps, lists and files agree after every crash and every call that fails, nothing is left behind but by a command that ended half way, dependents are protected |
| `source_build` | 2 processes, 2 versions, 1 patch file or none, 1 configuration, 1 edit | stamps tell the truth about the tree, only verified archives are unpacked, a package has what the port names |
| `dread` | 3 threads and the launcher, 1 lock, 1 event, 3 stacks | no waiter is forgotten, the program ends only when nobody can go on, whoever is in the run queue runs |
| `fts` | 6 setups: 4 trees of 4 directories, 2 links and a file; physical, logical, without chdir, across a mount; 1 change by others, or 2 | the process is where it thinks, or stops; no directory is below itself; an undisturbed walk is complete |
| `xaos` | a queue of 3 events, 2 frames, 3 inputs | what xaos knows of the mouse is right, frames are shown and whole |
| `algorithms` | the inputs of `MCAlgorithms` | each function agrees with its reference definition |

Bounds.  Pipes do not share state, so one pipe shows what a pipe can do; three
bytes with requests of one and two make a read smaller than a write, a write
that serves two reads and a remainder in front of a later write; three threads
of two processes give each end two owners and let one thread of a process close what
another is passing on.  In the process manager three pids are a shell, a job
and a child of the job, or two jobs of one shell, which is what groups, waits by
pid, by group and for any child can tell apart; a third element under two pids
is an image that was replaced.  Three threads and four requests let a thread
send a second request while replies to the first ones are under way.  Four
descriptors hold the terminal, both ends of a pipe and a duplicate, and one
old pipe is the fewest that can overflow.  Two processes and three clicks on the
buttons mount, unmount and mount again, or choose a second folder, mount and unmount, while one
process replaces the other.  Two
processes, a package, its dependency and a rival for one of its files meet every
check of install and uninstall.  In `source_build` one edit makes the port leave
the tree it has; the instance was also checked, outside the runs, with 1 version, 2
patch files, 2 configurations and 2 edits, and with 1 process, 2 versions, 2 patch
files, 2 configurations and 2 edits.  In `dread` a third thread comes between one that
is woken for a lock and the lock, and one of the stacks fits a smaller thread.  The
trees of `fts` have a link to a directory above, a link to a directory beside, a
link to a link, an empty directory and a second device.  With two changes the run reaches `astray` (without
it `WalkerIsInPlace` fails after eleven steps); it does not reach `stale`, for which
three directories below each other are needed: on such a tree, with
`FTS_NOCHDIR` and two changes, `NoDirectoryTwice` does fail without it, as was checked
outside the runs.  A queue of three events fills with two and
a third.  The inputs of `algorithms` reach every branch of the functions that is
in the model: three levels of libraries with a circle, scripts of scripts,
pointers at and beyond the limit of a pointer, three servers and two search domains
with every outcome of a query, arrays of up to seven elements, three starts.

`CHECK_DEADLOCK FALSE` is set for the runs that stop when their processes have exited,
the walk is over, or the bounds are used up.  A webports process can always start
another command, so the package manager's runs check deadlock.

Symmetry is used for webports processes, versions, folders, and the threads of
`pm_threads`, which nothing tells apart; the runs with liveness properties use none.

Fairness.  `pm_groups` assumes that the browser calls back for every spawn
(naclprocess.js waits for the load or the error of a request it has made); exits,
kills and calls of programs are under no fairness.  `send_request` assumes that a
thread that can run does, and that the message thread serves its queue; the page
may never answer.  `dread` assumes that the process goes on while it can: one
processor runs all coroutines, so weak fairness of the whole next-state relation
says it, and that each of them runs is the library's doing.  `xaos` assumes that
the browser calls the timer, the flush and its callback, that the thread of xaos
finishes the copy it is in, and that the main thread gets a mutex that is free
again and again (strong fairness of `PaintAndFlush`): the thread of xaos holds it
only while it copies.  The other specifications state no fairness.

Type invariants are stated in the modules.  Type correctness is a theorem for the
pipe server, the process manager, the client's descriptors, the mounts, dreadthread,
the install database and the driver of xaos, and the types are part of the invariant of
the theorems about the request channel, the source build and the walks.

## What the code does against its comments

No run claims these; the models have them, and the properties are stated beside
them.

* A process in a popup ends before its window is there: `exit` calls
  `element.popup.destroy()`, which reads the window that the browser has not yet given
  (`naclprocess.js:1040, 142`), and throws before the input is handed on.
  `InputHasAProcess`, which is the comment at 168, fails on the instance of `pm_groups`;
  `ForegroundRuns` excepts this case.
* The bound of the search for the end of a script's first line always
  holds (`nacl_spawn.cc:197`), so that the interpreter or its argument can take up
  what lies behind the bytes that were read.  `ScriptsRunAsWritten`, the comment at 190,
  fails on the inputs of `algorithms`; `ProgramsLoad` is about lines that were read to their
  end.
* A `::` in an address of eight groups clears every byte behind it
  (`inet_pton.c:206`), while the comment at 126 says that it is silently ignored.
  `GapsAreIgnored`, which says so of every place of the gap, fails on the inputs of
  `algorithms`.
* A spawn of a dead pid that the browser refuses throws in the callback that was handed
  over (`naclprocess.js:855-858`, which looks for an element), and the request is never
  answered; `nacl_spawn.cc:756-760` expects an answer with an error.
  `SpawnAnswered` excepts it.
* `nspawn_send_request` posts the message and then locks the mutex and waits, without a
  look at whether the reply is there (`nacl_pp_helpers.c:215-223`): a reply that
  is handled in between wakes nobody, and the thread sleeps for ever.
  `SleeperIsWoken` is about threads that wait in time.
* `createProcessGroup(newPgid, sid)` lists the id of the group, not the process
  (`naclprocess.js:784`, against the comment at 174).  The exit of a process that
  joined a group without other members throws in `deleteProcessFromGroup` before it
  answers its parent.  `AnyGroup` admits such calls; with `AnyGroup = TRUE` the
  instance of `pm_groups` violates `GroupMembership` after four steps.
* exec leaves `foregroundProcess`, and the parent of the children, on the element that
  was taken out of the page (`naclprocess.js:1190`, against 168): the input goes
  there.  `AllowOverlay` admits exec; with `AllowOverlay = TRUE` `ForegroundRuns`
  is violated after three steps.
* exec adds pipe ends and never removes any (`naclprocess.js:1183`, against
  `nacl_setup_env.c:194`): a close-on-exec write end keeps its readers waiting.
  `NoGhostEnd` excepts processes that exec.
* `DirLock.__exit__` removes the lock file (`util.py:472`, against 454).  A process that
  opened it before and one that creates it anew can both have the lock; `split`
  records it.  `MutualExclusion` states the promise, and TLC refutes it on the
  instance of `install_db` within 16 steps.
* A stack is bound twice (`dread.c:801`), and the reaper of dreadthread waits for ever
  (`dread.c:1087`).
* An install that fails between the first file and the stamp leaves files behind
  (`binary_package.py:213-221` rolls nothing back), and the next one is refused
  because of them (206).  `FilesAreOwned` excepts it by `cutShort`.
* A folder can be replaced while it is in use, as described under MountManager.
* The positive `EPIPE` of the pipe server, and the request that outlives its process, are
  described under PipeServer; a walk that cannot go to a directory, and `FTS_AGAIN`, under
  Fts; the full queue under XaosDriver; the turned screen under SdlServer; the refused unmount under
  MountManager.

## Proofs

The theorems hold for every value of the constants under the named assumptions of
the modules (`PipeServerAssumption`, `ProcessManagerAssumption`,
`SendRequestAssumption`, `SpawnClientAssumption`, `MountManagerAssumption`,
`InstallDbAssumption`, `SourceBuildAssumption`, `DreadThreadAssumption`,
`FtsAssumption`, `XaosAssumption`), which say
no more than the types of the constants, that the special values are not members of the
sets, and, for the install database, dreadthread and the walks, that there are finitely
many processes, threads and names.  `DreadThreadAssumption` also says that locks, events, threads
and the four queues of the library have different names: in the code each is an
anchor of its own.  Each module proves `Init => IInv`, `IInv /\ [Next]_vars => IInv'`
with one lemma per action, and the properties from `IInv` (`SourceBuild_proofs` has
one lemma per part of the invariant and kind of step instead, because most of its
steps leave most parts alone).

* **`PipeServer_proofs`** has three invariants, each on top of the one before it.
  * `IInv`, the types and the queues of each pipe: no read waits while data is
    buffered (`NoLostData`), data is buffered only for a reader (`NoDataForNobody`),
    no read waits for a pipe without writers (`NoReadWaitsForNobody`).  The three
    are inductive only together: closing the last writer is sound because the
    queues were not both non-empty.
  * `FullInv` relates the server to its clients: a blocked read of a running
    process is queued once (`NoReplyIsLost`), an end that is counted is open
    (`EndsAreReal`), end-of-file is told when it is true (`EofIsTrue`).  It needs
    the other direction as well (`KnownEnds`: an end that is open is counted; otherwise
    the last close would come too early), that a queued request that has a
    thread is the call that thread is in (`QueuedReads`), that a child under way
    is not born and has one parent unless it is an exec (`Spawns`), that the same holds
    of one whose parent was replaced (`Cuts`), and that ids
    of pipes are not used twice (`Fresh`): without it the ends that a spawn
    copied could belong to a later pipe.
  * `StreamInv` adds that no write is longer than `MaxBytes`, and gives
    `PipesImplementStreams`: under the mapping of `PipeStream`, every step of
    the server is, for each pipe, a step of `ByteStream` or a stutter.  The steps
    are sorted by what they do to one pipe (`OnlyBytes`, a close, nothing); a
    read takes the first bytes of the first write, which are the first bytes
    of all writes one after the other.
* **`ProcessManager_proofs`**.
  * `ExitsAreNotMissed` and `WaitsAreForChildren`, with any number of
    threads, exec, and any use of `setpgid`.  The invariant needs, beside the types,
    that a pid is given out once (`EntriesOK`), that an element in the page has a
    pid (`AttachedHasPid`), and that a group lists running processes that name it
    except perhaps the one whose id it has (`MembersRun`): what is left of
    group membership when `setpgid` is used freely, and just enough for waits by group.
  * `TypeCorrect` needs in addition that a parent is older than its children
    (`Tree`): the element that gets the input when another ends is found by
    climbing (`LiveAncestor`), and the climb ends.
  * `Sessions`: with exec and any use of `setpgid` too; it follows from one
    invariant and a look at each step.
  * `InputGoesToALiveProcess` under `~AllowOverlay` (the input goes to a process that runs
    unless exit threw on its popup), and `GroupsAreExact`
    under `~AllowOverlay` and `~AnyGroup`: these are the values of the run `pm_groups`,
    and both properties fail without them, as said above.  `Solo` says that without
    exec a process and its element stay together; with it, each handler changes the
    groups as it changes the processes.
* **`SpawnClient_proofs`**: `FilesComeBack`, `EndsSurvive` and `HeirsPipes`, for any
  number of descriptors, pipes and entries that `restore_pipes` can note.  In a
  vfork the stash holds what the descriptors held when it began and is empty otherwise
  (`Stashed`); every end in a descriptor or in the stash is counted by the server
  (`Counted`), which holds because the client reports an end only when the last copy
  goes, stash included.  `HeirIs` says of the last image what `restore_pipes` does
  with a table of entries; it is proved of its loop, a recursive function on the table.
  The channel has an invariant of its own, for `RepliesAreOwn` and `RepliesAreAlive`:
  handlers and threads under way name each other, and a request is in one place once: at
  the page, in the queue of replies or in `handle_reply`.
* **`MountManager_proofs`**: `Reports`, `ShownIsMounted` and `StillUnmountable`, for
  any number of processes.  The invariant follows a message from one end to the
  other: a queue of reports ends with what the process has, and if none is
  on its way the page knows it (`Believed`); while the folder is shown as mounted, a
  process that is not known to have it starts, waits for an answer that is not "no", has
  a report under way, or has ended (`Shown`), and while none is chosen, one
  that is known to have it will unmount it, has something else to report, or has ended
  (`Hidden`; `ButtonsOK` relates the buttons to the folder).  Until the folder of the last time is
  restored nobody has been told of one (`Untouched`), and while none was replaced
  every folder that is mounted or on its way is the page's (`OneFolder`).
* **`DreadThread_proofs`**: `BroadcastsReachAll`, `ReturnsAtTheEnd`, `StacksFit` and
  `TypeCorrect`, for any number of threads, locks, events and stacks.  What is left of a thread's routine (`todo`) has one of
  a few forms (`Shapes`), and only a current thread is inside a section without
  yields.  Each thread is in one place: current, in the hand of the one that
  moves it, or in one queue once (`Places`); who is in the queue of a semaphore
  will take it (`Blocked`); for each count of a semaphore that is waited for, somebody
  is on the way to take it (`Counts`); the launcher does not sleep on a new thread
  (`Signalled`, with `Section` for the lock it holds); whoever set a flag that
  is waited for has the broadcast in front of it (`Announced`).  `Counts` is what
  makes the end sound: with nobody in the run queue no count is left for a waiter.
  On top of it `StackInv` says that a thread that lives is bound to a stack at least as
  large as it asked for, or is a new thread, or is about to become one: since it is in
  one place, one that can run is bound (`RunsOnAStack`, which no run checks, because the
  theorem says it of every instance).  `FitIs` shows that the smallest fitting stack
  exists.  A stack may have two owners (`dread.c:801`): the theorem is about its size.
* **`InstallDb_proofs`**: all properties of `install_db`, type correctness and that a lock is held by a
  process that works (`LocksAreHeldByWorkers`).  The invariant has three
  parts: the lock (`LockInv`: who works has the lock of the file it has open; two
  work at once only if `split` says so), the database (`DbInv`: without `split`,
  each process at a step of an install or uninstall finds what the
  step before it left, and no two installed packages share a file, which is why
  uninstalling one never takes files of another), and the files
  (`NoStray`: without a crash a file is owned by an installed package or is due to the
  process at work).
* **`SourceBuild_proofs`**: `StampsAreTrue`, `ArchivesAreVerified` and
  `PackagesHoldThePort`.  `StampsDescribeTree` says nothing while a build removes the
  stamps of an earlier tree, and it does not say what the stamps are about to say: the
  invariant adds what a build knows of its tree at each step (`OnTree`), which
  survives a `clean` that removes stamps under it because all of it holds the more
  easily the fewer stamps there are, and survives other builds because at most one
  is past the lock (`OneBuilder`).  For the cache (`CacheOK`): while no two
  processes fetch at once, the one that does has found no archive, so nobody
  is between verification and unpacking.
* **`Ports_proofs`** has two parts.
  * `WalkerStaysInPlace` and `NoDirectoryIsTwice`, for any tree, links, options and
    number of changes.  "In place" is inductive only together with the shape of
    the walk: entries that were not visited were not gone to and hold no descriptor, and
    those above the current one are directories that were gone to or could not be
    (`LevelsOK`); a descriptor in `fts_symfd` leads to where the walk was when
    it was opened (`SymsOK`); and, while the walk is not astray, no directory that was
    gone to is below one that was not (`NoGap`): otherwise ".." would be taken from the
    wrong place.  In the middle of `fts_build` the process is already in the
    directory being read, and its parent was gone to (`InPlace`).  Changes to the
    tree disturb none of this, because the walk compares every directory it goes to by
    name with the one it saw, and the invariant only speaks of what it saw.
    `NoDirectoryIsTwice` needs that the entries still to come, the
    children of `fts_children` and those found so far by `fts_build` would not
    repeat a directory above them either (`Distinct`).
  * `MouseIsFollowed`, `DriverTypes`, `FramesAreWhole` and `FramesGoForward`, for any
    length of the queue and number of frames.  `QueueInv` has a function that leads from
    the mouse xaos knows through each event that waits to the mouse as it is; taking
    an event drops its first value and an input adds one at the end, wherever the ring
    wraps around.  `ScreenInv` says that the mutex is held by whoever copies or
    flushes, so that the frame does not change between the two halves that the browser
    reads.  The last two theorems are the safety part of `FramesAreShown` and are
    checked by no run: they say of every instance that a screen is never a mixture once a
    flush is done, and that no step shows an older frame after a newer one.

The prover has no induction over data.  Four proofs need what a recursive function
computes nevertheless (`LiveAncestor` of the process manager, the flattened queue of
`PipeStream`, the loop of `restore_pipes`, the events that wait for xaos).  Each of
the first three takes the set of the numbers at which the fact fails, its least
element (lemma `Least`), and refutes it from the number before; the same argument
shows that the recursive function exists (`ClimbingExists`, `GlueExists`,
`RestoresExists`), without which its `CHOOSE` would say nothing.  `Expected` exists
because the function of the invariant is one, and it is the only one by the same
argument.

Only model-checked:

* liveness under fairness (`SpawnAnswered`, `SleeperIsWoken`, `RunnableRuns`,
  `FramesAreShown`), which is out of the prover's reach;
* the functions of `algorithms`, and `WalkIsComplete`, which compare a recursive
  definition with a reference on all inputs.

## Not modelled

* the debugger extension and the test harness: a second process manager for gdb, on
  Chrome's debugging protocol, which the sources only use;
* the package index, `pkg_info` and `webports check`: parsing and look-ups, with unit
  tests of their own;
* terminal input and output, formatting, argument passing, the contents of
  packages, stripping and relocation: no control of their own;
* the build scripts: they run compilers and uploads and keep no state beyond
  the stamps that `SourceBuild` has;
* in glibc-compat: `err.c` and `herror.c` (they print), `flock.c` and `lockf.c` (they
  fail or call one another), `res_debug.c`, the sockets of `res_send.c`;
* generated code (`hdf5/H5Tinit.c`), system headers, the demos of ports (mesa,
  OpenAL, libgit2, agg, IPython) and their start-up glue: calls into libraries that are
  not in the repository;
* ported software: patches and recipes.

## Plan

The model covers what the repository has of its own logic, and every safety property
that a run checks on one of its processes, protocols and drivers is a theorem.  What is
left is group membership with `setpgid` used freely, for the groups that were entered by
a sensible call.
