----------------------------- MODULE ProgramLoad -----------------------------
(***************************************************************************)
(* How libnacl_spawn turns a program into the manifest of a module:        *)
(* AddNmfToRequest of nacl_spawn.cc, the search of path_util.cc, the       *)
(* dependencies of library_dependencies.cc and the ElfReader they rest on. *)
(*                                                                         *)
(* A path is a directory and a name.  A file is an ELF image, a script or  *)
(* something else; an image is the part of it that the reader looks at.    *)
(***************************************************************************)
EXTENDS Integers, Sequences, SequencesExt, FiniteSets, FiniteSetsExt

CONSTANTS Loader,       \* runnable-ld.so
          ArmLoader,    \* elf_loader_arm.nexe
          ArmLinker,    \* ld-nacl-arm.so.1
          LinkTime,     \* ld-nacl-x86-{32,64}.so.1
          MainName      \* main.nexe

NoDir   == "none"       \* the directory of a name without a slash
Machine == {"x86-64", "x86-32", "arm"}
Fail(errno) == [ok |-> FALSE, errno |-> errno]

-----------------------------------------------------------------------------
(* elf_reader.cc.  An image has its segments in order, with the entries of *)
(* a dynamic segment, and its strings by their offset in the file.         *)

ReadHeaders(image) == image.magic /\ image.class \in {32, 64} /\ image.whole

Of(image, type) == SelectSeq(image.segments, LAMBDA s : s.type = type)

\* The entries of a dynamic segment end with DT_NULL, else the read fails.
Ended(s) == \E i \in DOMAIN s.entries : s.entries[i].tag = "NULL"
Entries(s) ==
    SubSeq(s.entries, 1, Min({i \in DOMAIN s.entries : s.entries[i].tag = "NULL"}) - 1)

Values(entries, tag) ==
    LET tagged == SelectSeq(entries, LAMBDA e : e.tag = tag)
    IN  [i \in DOMAIN tagged |-> tagged[i].val]

\* The last DT_STRTAB and DT_STRSZ count, and there must be one of each.
ReadDynamic(image) ==
    LET dynamic == Of(image, "DYNAMIC")
        entries == FlattenSeq([i \in DOMAIN dynamic |-> Entries(dynamic[i])])
        last(tag) == Last(<<0>> \o Values(entries, tag))
    IN  IF dynamic = <<>> THEN [kind |-> "static"]
        ELSE IF \E i \in DOMAIN dynamic : dynamic[i].filesz = 0 \/ ~Ended(dynamic[i])
             THEN [kind |-> "invalid"]
        ELSE IF last("STRSZ") = 0 \/ last("STRTAB") = 0 THEN [kind |-> "invalid"]
        ELSE [kind |-> "dynamic", neededs |-> Values(entries, "NEEDED"),
              straddr |-> last("STRTAB"), strsize |-> last("STRSZ")]

\* The first segment that holds the address, if the file has all of the strings
\* there; offset 0 means that it has not.
ReadStrtab(image, straddr, strsize) ==
    LET load == SelectSeq(Of(image, "LOAD"),
                    LAMBDA s : s.vaddr <= straddr /\ straddr < s.vaddr + s.filesz)
        stroff == straddr - load[1].vaddr + load[1].offset
    IN  IF load = <<>> THEN 0
        ELSE IF stroff + strsize > image.length THEN 0 ELSE stroff

Strings(image, dynamic) ==
    LET stroff == ReadStrtab(image, dynamic.straddr, dynamic.strsize)
    IN  IF dynamic.kind # "dynamic" THEN dynamic
        ELSE IF stroff = 0 THEN [kind |-> "invalid"]
        ELSE [kind |-> "dynamic",
              neededs |-> [i \in DOMAIN dynamic.neededs |->
                              image.strings[stroff + dynamic.neededs[i]]]]
ElfReader(image) ==
    IF ~ReadHeaders(image) THEN [kind |-> "invalid"] ELSE Strings(image, ReadDynamic(image))

\* Any file, read as ELF.
Read(file) == IF file.type = "elf" THEN ElfReader(file.image) ELSE [kind |-> "invalid"]

-----------------------------------------------------------------------------
(* path_util.cc.  A variable is the sequence of its elements.              *)

\* An empty element is the current directory, but for one at the end.
nspawn_get_paths(env) ==
    IF env = <<"">> THEN <<>>
    ELSE [i \in DOMAIN env |-> IF env[i] = "" /\ i < Len(env) THEN "." ELSE env[i]]

Found(fs, paths, name) == {i \in DOMAIN paths : <<paths[i], name>> \in DOMAIN fs}
nspawn_find_in_paths(fs, paths, name) == <<paths[Min(Found(fs, paths, name))], name>>

get_library_paths(env) == nspawn_get_paths(env) \o <<"/lib", "/usr/lib">>

-----------------------------------------------------------------------------
(* library_dependencies.cc.                                                *)

RECURSIVE find_deps(_, _, _, _)

\* The needed libraries of one file, in order, up to the first that fails.
Needed(fs, paths, neededs, set) ==
    LET Add(r, name) ==
            IF ~r.ok \/ name \in LinkTime THEN r
            ELSE IF Found(fs, paths, name) = {} THEN Fail("ENOENT")
            ELSE find_deps(fs, paths, nspawn_find_in_paths(fs, paths, name), r.set)
    IN  FoldLeft(Add, [ok |-> TRUE, set |-> set], neededs)

\* Files that were visited are not visited again; only the program itself may be
\* static, and then there are no dependencies.
Visit(fs, paths, path, set, elf) ==
    IF elf.kind = "invalid" \/ fs[path].image.machine \notin Machine THEN Fail("ENOEXEC")
    ELSE IF elf.kind = "static"
         THEN IF set = {} THEN [ok |-> TRUE, set |-> {}] ELSE Fail("ENOEXEC")
    ELSE Needed(fs, paths, elf.neededs, set \cup {path})
find_deps(fs, paths, path, set) ==
    IF path \in set THEN [ok |-> TRUE, set |-> set]
    ELSE Visit(fs, paths, path, set, Read(fs[path]))

\* The loader is a dependency too, if there is one.  Which one is built in: arm
\* says that it is the program of an ARM machine that asks.
Loaders(fs, paths, arm) ==
    LET names == IF arm THEN {ArmLoader, ArmLinker} ELSE {Loader}
    IN  {nspawn_find_in_paths(fs, paths, n) : n \in {m \in names : Found(fs, paths, m) # {}}}
WithLoader(fs, paths, arm, path, r) ==
    IF ~r.ok THEN r
    ELSE [ok |-> TRUE, arch |-> fs[path].image.machine,
          deps |-> IF r.set = {} THEN {} ELSE r.set \cup Loaders(fs, paths, arm)]
nspawn_find_arch_and_library_deps(fs, env, path) ==
    LET paths == get_library_paths(env.libs)
    IN  WithLoader(fs, paths, env.arm, path, find_deps(fs, paths, path, {}))

-----------------------------------------------------------------------------
(* nacl_spawn.cc: what the request says of the program.                    *)

\* A name without a slash is looked for in PATH; one that is not found is a
\* program of the page.
UseBuiltInFallback(fs, env, cmd) ==
    LET paths == nspawn_get_paths(env.path)
        found == nspawn_find_in_paths(fs, paths, cmd.prog[2])
    IN  IF cmd.prog[1] # NoDir THEN [cmd EXCEPT !.builtin = FALSE]
        ELSE IF Found(fs, paths, cmd.prog[2]) = {} THEN [cmd EXCEPT !.builtin = TRUE]
        ELSE [prog |-> found, args |-> [cmd.args EXCEPT ![1] = found], builtin |-> FALSE]

\* The bytes of a script after its #! are Space, EndOfLine and words: line is what
\* was read of them, beyond what follows in memory, up to an end of line or a NUL.
Space     == <<" ">>
EndOfLine == <<"\n">>
Before(words, word) ==
    LET n == SelectInSeq(words, LAMBDA w : w = word) IN IF n = 0 THEN words ELSE SubSeq(words, 1, n - 1)

\* Spaces are skipped in what was read.  The search for the end of the line goes
\* on behind it: buffer - end < len holds of every end.
FirstLine(script) ==
    LET word == SelectInSeq(script.line, LAMBDA w : w # Space)
        text == script.line \o script.beyond
    IN  Before(SubSeq(text, IF word = 0 THEN Len(script.line) + 1 ELSE word, Len(text)), EndOfLine)

\* What stands before the first space is the interpreter.  Words that nothing
\* separates are one: the last of them gives it its name.
Interpreter(line) ==
    LET words == Before(line, Space)
    IN  IF words = <<>> THEN <<NoDir, "">> ELSE <<words[1][1], Last(words)[2]>>

\* All that follows it is one argument.
Argument(line) ==
    LET rest == SubSeq(line, Len(Before(line, Space)) + 2, Len(line))
    IN  IF Contains(line, Space) THEN <<FlattenSeq(rest)>> ELSE <<>>

\* An interpreter that is not where the script says is looked for by its name.
FindInterpreter(fs, path) == IF path \in DOMAIN fs THEN path ELSE <<NoDir, path[2]>>

ShBang(fs, cmd, args) ==
    LET line == FirstLine(fs[cmd.prog])
        interpreter == FindInterpreter(fs, Interpreter(line))
    IN  IF fs[cmd.prog].type # "script" THEN cmd
        ELSE [prog |-> interpreter, builtin |-> FALSE,
              args |-> <<interpreter>> \o Argument(line) \o args]

\* A defect: the name of the script is left out of the arguments.
ExpandAndForget(fs, cmd) == ShBang(fs, cmd, Tail(cmd.args))

ExpandShBang(fs, cmd) == ShBang(fs, cmd, [cmd.args EXCEPT ![1] = cmd.prog])

\* The key of a dependency.  The loader takes main.nexe for the program.
Key(prog, dep) ==
    IF dep[2] = prog[2] THEN MainName
    ELSE IF dep[2] \in {Loader, ArmLoader} THEN "program" ELSE dep[2]
AddNmfToRequestForShared(prog, deps) == {<<Key(prog, d), d>> : d \in deps}

Sent(cmd, arch, nmf) == [ok |-> TRUE, arch |-> arch, nmf |-> nmf, args |-> cmd.args]
SentWith(cmd, r) ==
    IF ~r.ok THEN r
    ELSE Sent(cmd, r.arch, IF r.deps = {} THEN {<<"program", cmd.prog>>}
                           ELSE AddNmfToRequestForShared(cmd.prog, r.deps))
Nmf(fs, env, cmd) ==
    IF fs[cmd.prog].type = "pexe" THEN Sent(cmd, "portable", {<<"program", cmd.prog>>})
    ELSE IF fs[cmd.prog].type = "bitcode" THEN Fail("none")
    ELSE SentWith(cmd, nspawn_find_arch_and_library_deps(fs, env, cmd.prog))

\* A program of the page is started by its name.
Page(cmd) == [ok |-> TRUE, arch |-> "page", nmf |-> {}, args |-> cmd.args]
Second(fs, env, cmd) == IF cmd.builtin THEN Page(cmd) ELSE Nmf(fs, env, cmd)
First(fs, env, cmd) ==
    IF cmd.builtin THEN Page(cmd)
    ELSE IF cmd.prog \notin DOMAIN fs THEN Fail("ENOENT")
    ELSE IF fs[cmd.prog].type = "directory" THEN Fail("EISDIR")
    ELSE IF fs[cmd.prog].type = "short" THEN Fail("ENOEXEC")
    ELSE Second(fs, env, UseBuiltInFallback(fs, env, ExpandShBang(fs, cmd)))
AddNmfToRequest(fs, env, prog, args) ==
    First(fs, env, UseBuiltInFallback(fs, env, [prog |-> prog, args |-> args, builtin |-> FALSE]))

-----------------------------------------------------------------------------
(* What they promise.  A file says by itself what it links to (links, as   *)
(* its linker was told), whatever the reader finds in its image.           *)

Bad(file) == file.links = "none" \/ file.image.machine \notin Machine

Uses(fs, paths, path) ==
    {nspawn_find_in_paths(fs, paths, n) :
        n \in {m \in ToSet(fs[path].needs) \ LinkTime : Found(fs, paths, m) # {}}}

Closure(fs, paths, path) ==
    LET reach[n \in Nat] ==
            IF n = 0 THEN {path}
            ELSE reach[n - 1] \cup UNION {Uses(fs, paths, p) : p \in reach[n - 1]}
    IN  reach[Cardinality(DOMAIN fs)]

Loads(fs, paths, path) ==
    /\ fs[path].links = "dynamic" /\ ~Bad(fs[path])
    /\ \A n \in ToSet(fs[path].needs) \ LinkTime : Found(fs, paths, n) # {}

IsClosure(fs, paths, arm, path, r, all) ==
    LET first == {p \in DOMAIN fs : /\ p[2] \in (IF arm THEN {ArmLoader, ArmLinker} ELSE {Loader})
                                   /\ \E i \in Found(fs, paths, p[2]) :
                                          /\ paths[i] = p[1]
                                          /\ \A j \in Found(fs, paths, p[2]) : i <= j}
    IN  /\ r.ok <=> \/ fs[path].links = "static" /\ ~Bad(fs[path])
                    \/ \A p \in all : Loads(fs, paths, p)
        /\ r.ok => /\ r.arch = fs[path].image.machine
                   /\ r.deps = IF fs[path].links = "static" THEN {} ELSE all \cup first

\* A program is loaded with all the libraries it needs, directly or not, each
\* once, with cycles and shared libraries, and with the loader; it is refused
\* only if one of them is missing or unfit.
DepsAreClosure(fs, env, path) ==
    LET paths == get_library_paths(env.libs)
    IN  IsClosure(fs, paths, env.arm, path, nspawn_find_arch_and_library_deps(fs, env, path),
                  Closure(fs, paths, path))

InPath(fs, env, p) ==
    LET paths == nspawn_get_paths(env.path)
    IN  IF p[1] # NoDir \/ Found(fs, paths, p[2]) = {} THEN p ELSE nspawn_find_in_paths(fs, paths, p[2])
IsAsWritten(fs, env, path, args, r) ==
    LET interpreter == InPath(fs, env, FindInterpreter(fs, fs[path].interpreter))
    IN  r.ok =>
          IF path \in DOMAIN fs /\ fs[path].type = "script"
          THEN /\ r.args = <<interpreter>> \o fs[path].arg \o <<path>> \o Tail(args)
               /\ interpreter \notin DOMAIN fs <=> r.arch = "page"
          ELSE /\ r.args = [args EXCEPT ![1] = path]
               /\ path \notin DOMAIN fs <=> r.arch = "page"

\* A command runs as written: a program under its path, and a script as its
\* interpreter with the one argument of the script, the path of the script and
\* the arguments of the command.
RunsAsWritten(fs, env, prog, args) ==
    IsAsWritten(fs, env, InPath(fs, env, prog), args, AddNmfToRequest(fs, env, prog, args))

\* A file that is no script, or one whose first line was read to its end.
LineIsRead(fs, path) ==
    path \in DOMAIN fs /\ fs[path].type = "script" => Contains(fs[path].line, EndOfLine)

NamesAll(path, r) ==
    LET nmf == AddNmfToRequestForShared(path, r.deps)
    IN  r.ok /\ r.deps # {} =>
          /\ <<MainName, path>> \in nmf
          /\ Cardinality({e[1] : e \in nmf}) = Cardinality(r.deps)
          /\ \A e \in nmf : e[1] = "program" <=> e[2][2] \in {Loader, ArmLoader}

\* The manifest names the program and every dependency once, and has the loader
\* start first.
ManifestIsComplete(fs, env, path) ==
    NamesAll(path, nspawn_find_arch_and_library_deps(fs, env, path))
=============================================================================
