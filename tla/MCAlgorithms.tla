----------------------------- MODULE MCAlgorithms -----------------------------
(***************************************************************************)
(* The functions of the project that keep no state, on all inputs of small *)
(* sets: a state is one input.                                             *)
(***************************************************************************)
EXTENDS ProgramLoad, Resolver

CONSTANTS ByteSize, V6Bytes, SmallSort, Ninther, Eighth, MaxPath, Templates,
          NumRects, Buttons, Bundle, HashFile

C   == INSTANCE Conversions
F   == INSTANCE Files
X   == INSTANCE SdlServer
U   == INSTANCE Startup
Var == INSTANCE PepperVars

VARIABLE input

-----------------------------------------------------------------------------
(* Files, as a linker makes them: two segments, the strings in the second, *)
(* or in the first, in front of the code.                                  *)

Libs == {"liba", "libb"}
Load(v, o) == [type |-> "LOAD", vaddr |-> v, filesz |-> 100, offset |-> o, entries |-> <<>>]

Image(needs, machine, second) ==
    LET base == IF second THEN 1250 ELSE 1010
        off  == IF second THEN 350 ELSE 10
        entry(t, v) == [tag |-> t, val |-> v]
    IN  [magic |-> TRUE, class |-> IF machine = "x86-64" THEN 64 ELSE 32, whole |-> TRUE,
         machine |-> machine, length |-> 400,
         strings |-> [o \in {off + 10 * i : i \in DOMAIN needs} |-> needs[(o - off) \div 10]],
         segments |-> <<Load(1000, 0), Load(1200, 300),
            [type |-> "DYNAMIC", vaddr |-> 1200, filesz |-> 40, offset |-> 300,
             entries |-> [i \in DOMAIN needs |-> entry("NEEDED", 10 * i)] \o
                         <<entry("STRTAB", base), entry("STRSZ", 50), entry("NULL", 0)>>]>>]

Linked(needs, machine, second) ==
    [type |-> "elf", links |-> "dynamic", needs |-> needs,
     image |-> Image(needs, machine, second)]
Static(machine) ==
    [type |-> "elf", links |-> "static", needs |-> <<>>,
     image |-> [magic |-> TRUE, class |-> 32, whole |-> TRUE, machine |-> machine,
                length |-> 400, strings |-> <<>>, segments |-> <<Load(1000, 0)>>]]
Other(type) == [type |-> type, links |-> "none", needs |-> <<>>]

\* The end of its strings is missing.
Torn(file) == [file EXCEPT !.links = "none", !.image.length = 390]

\* A script as its author means it, and as it is read: with spaces in front, and
\* with the end of its first line or, when that was not read, what lies behind.
Script(interpreter, arg, spaces, end, beyond) ==
    [type |-> "script", links |-> "none", needs |-> <<>>, interpreter |-> interpreter, arg |-> arg,
     line |-> spaces \o <<interpreter>> \o
              (IF arg = <<>> THEN <<>> ELSE <<Space>> \o [i \in DOMAIN arg[1] |-> <<arg[1][i]>>]) \o end,
     beyond |-> beyond]

Needs == {<<>>, <<"liba">>, <<"libb">>, <<"liba", "libb">>, <<"ld", "libb", "liba">>}
Fit   == {Linked(n, "x86-64", TRUE) : n \in Needs}
LibFiles  == Fit \cup {Linked(<<>>, "mips", FALSE), Static("x86-64"), Other("data"),
                     Torn(Linked(<<>>, "x86-64", TRUE))}
ProgFiles == Fit \cup {Linked(<<"liba">>, "x86-32", FALSE), Static("arm")}

Prog == <<"/home", "prog">>

FileSystems ==
    {(Prog :> prog) @@ a @@ b @@ ld :
        prog \in ProgFiles,
        a \in {<<>>} \cup {<<"/lib", "liba">> :> f : f \in LibFiles},
        b \in {<<>>} \cup {<<d, "libb">> :> f : d \in {"/usr/lib", "."}, f \in LibFiles},
        ld \in {<<>>, <<"/lib", Loader>> :> Static("x86-64"),
                (<<"/opt", ArmLoader>> :> Static("arm")) @@ (<<"/lib", ArmLoader>> :> Static("arm"))
                  @@ (<<"/lib", ArmLinker>> :> Static("arm"))}}

\* Commands: programs and scripts, by their path, by name and missing.
Interpreters == {<<"/bin", "sh">>, <<"/opt", "sh">>, <<NoDir, "sh">>, Prog}
Arguments == {<<>>, <<<<"-e">>>>, <<<<>>>>, <<<<" ", "-e", " ", "x">>>>}
Scripts ==
    {Script(i, a, s, <<EndOfLine, <<"ls">>, EndOfLine>>, <<EndOfLine>>) :
        i \in Interpreters, a \in Arguments, s \in {<<>>, <<Space, Space>>}}
    \cup {Script(<<"/opt", "sh">>, a, <<>>, <<>>, b) :
        a \in Arguments, b \in {<<EndOfLine>>, <<<<NoDir, "prog">>, EndOfLine>>}}
Directories == [p \in {"/home", "/opt", "."} \X {""} |-> Other("directory")]
Commands ==
    {[fs |-> (Prog :> file) @@ sh @@ lib @@ Directories, path |-> path,
      prog |-> prog, args |-> <<prog>> \o rest] :
        file \in Scripts
                   \cup {[Script(<<NoDir, "">>, <<>>, <<>>, <<>>, <<>>) EXCEPT !.line = <<EndOfLine>>],
                         Linked(<<"liba">>, "arm", TRUE), Static("arm"), Other("pexe"),
                         Other("bitcode"), Other("short"), Other("data"), Other("directory")},
        sh \in {<<>>, <<"/opt", "sh">> :> Static("arm"), <<".", "sh">> :> Other("pexe")},
        lib \in {<<>>, <<"/lib", "liba">> :> Linked(<<>>, "arm", TRUE)},
        path \in {<<"">>, <<"", "/home">>, <<"/opt", "/home", "">>},
        prog \in {Prog, <<NoDir, "prog">>, <<NoDir, "sh">>, <<"/bin", "prog">>},
        rest \in {<<>>, <<"x">>}}

-----------------------------------------------------------------------------
(* Names: labels of letters, of escaped characters, of a number, and a bit *)
(* string, under each other.                                               *)

a == Chr(97)
b == Chr(98)
dot == Chr(Dot)
Label == {<<a>>, <<Chr(65)>>, <<b, a>>, <<Esc(Slash)>>, <<a, Esc(Dot)>>, <<Dec(7)>>}
Prefixed(labels, name) == {IF n = <<>> THEN l ELSE l \o <<dot>> \o n : l \in labels, n \in name}
Small == Prefixed({<<a>>, <<Chr(65)>>, <<b>>}, {<<>>, <<a>>, <<b>>, <<b, dot>>})
Packed == Small \cup Prefixed({<<b>>, <<Bits(<<65, 1>>)>>, <<Dec(7)>>}, {<<a>>, <<b, dot, a>>})
          \cup {<<>>, <<dot>>, <<a, dot, dot, b>>, <<a, Esc(Dot)>>}
Domains == LET one == Prefixed(Label, {<<>>})
               two == Prefixed(Label, one)
           IN  {<<>>} \cup one \cup two \cup {n \o <<dot>> : n \in one}
               \cup Prefixed({<<a>>, <<b>>, <<Esc(Slash)>>}, two)
Zeros == [i \in 1..12 |-> 0]

-----------------------------------------------------------------------------
(* Searches: a name, a list of domains, what is answered for the name and  *)
(* under the domains.  Servers: configurations, and what changes them.     *)

Answers == {[act |-> "done", rcode |-> "NOERROR", count |-> 1],
            [act |-> "done", rcode |-> "NOERROR", count |-> 0],
            [act |-> "done", rcode |-> "NXDOMAIN", count |-> 0],
            [act |-> "done", rcode |-> "SERVFAIL", count |-> 0],
            [act |-> "done", rcode |-> "REFUSED", count |-> 0],
            [act |-> "nextns"], [act |-> "modified"]}
SearchedNames == {<<a>>, <<a, dot, b>>, <<a, dot, b, dot>>}
SearchLists   == {<<<<b>>>>, <<<<b>>, <<b, a>>>>, <<<<b>>, <<>>>>}
Searches ==
    [name : SearchedNames, list : SearchLists, ndots : {1, 2}, missing : SUBSET {"defnames", "dnsrch"},
     answers : Answers \X Answers \X Answers]

Configured(search) ==
    LET s == res_ninit(Blank, [local |-> <<>>, options |-> <<<<"ndots", search.ndots>>>>],
                       <<[key |-> "search", names |-> search.list]>>, None, 0)
    IN  [s EXCEPT !.options = @ \ search.missing, !.qhook = TRUE]
HookOf(search) ==
    LET asis == OnWire(search.name)
        wires == {asis} \cup {OnWire(n \o <<dot>> \o d) : n \in SearchedNames \ {<<a, dot, b, dot>>},
                                                     d \in ToSet(search.list)}
        one == OnWire(search.name \o <<dot>> \o search.list[1])
    IN  [w \in wires |->
            [server \in {AnyAddr} |-> IF w = asis THEN search.answers[1]
                                     ELSE IF w = one THEN search.answers[2] ELSE search.answers[3]]]

V4 == {[family |-> "inet", addr |-> x] : x \in {"one", "two"}}
V6 == [family |-> "inet6", addr |-> "six"]
ServerLists == {<<>>} \cup {<<x>> : x \in V4} \cup {<<x, y>> : x \in V4, y \in V4}
Lists == {l \in ServerLists : l # <<>> /\ Cardinality(ToSet(l)) = Len(l)}
Confs == {[i \in DOMAIN l |-> [key |-> "nameserver", server |-> l[i]]] :
             l \in {<<>>, <<V6>>} \cup Lists \cup {<<V6>> \o l : l \in Lists} \cup {l \o <<V6>> : l \in Lists}}
Changes == [what : {"list"}, list : Lists] \cup [what : {"init", "maybe"}, conf : Confs]

Question == [name : {<<a>>, <<b, dot, a>>, <<Chr(65)>>, <<b, dot, b>>}, type : {1, 28}]
Asked    == {<<>>} \cup {<<q>> : q \in Question}
            \cup {<<q, r>> : q \in Question, r \in Question}
Once(m)  == \A i, j \in DOMAIN m : i # j => Asks(<<m[i]>>) # Asks(<<m[j]>>)

-----------------------------------------------------------------------------
(* Sorting, with an order that the argument turns round, and addresses.    *)

Elements == [key : 0..2, id : 1..8]
Order == [x \in Elements, y \in Elements, arg \in {1, -1} |-> arg * (x.key - y.key)]
SortedBy(keys, arg) == C!SortIsRight([i \in DOMAIN keys |-> [key |-> keys[i], id |-> i]], Order, arg)
SeqsOf(S, lengths) == UNION {[1..n -> S] : n \in lengths}
Conversions ==
    [what : {"sort"}, keys : SeqsOf(0..2, {0, 2, 4, 6, 7}), arg : {1, -1}]
    \cup [what : {"quad"}, numbers : SeqsOf({0, 9, 15, 16, 255}, 1..5), cut : {0, 1}]
    \cup [what : {"groups"}, left : SeqsOf({0, 27, 256}, 0..3), gap : BOOLEAN,
          right : SeqsOf({1, 255}, 0..3), quad : {<<>>, <<1, 0, 12, 3>>}]
    \cup [what : {"number"}, n : {0, 1, 15, 16, 255, 256, 4095, 4096, 65534, 65536, 70000},
          before : SeqsOf({0, 15}, 0..2)]

-----------------------------------------------------------------------------
(* File systems, and the calls on them.                                    *)

Paths(names, lengths) == [abs : BOOLEAN, names : SeqsOf(names, lengths)]
Places == {<<"a">>, <<"b">>, <<"a", "b">>}
Trees  == {fs \in UNION {[D \cup {<<>>} -> {"dir", "file"}] : D \in SUBSET Places} :
              fs[<<>>] = "dir" /\ \A p \in DOMAIN fs : F!IsDir(fs, F!Parent(p))}
FileCalls ==
    [what : {"path"}, fs : Trees, cwd : {<<>>, <<"a">>}, path : Paths({"a", "b", "", ".."}, 0..3)]
    \cup [what : {"at"}, fs : Trees, cwd : {<<>>, <<"a">>}, dir : {<<"a">>, <<"b">>},
          dirfd : {F!AT_FDCWD, "three"}, op : {"open", "creat", "mkdir", "unlink", "rmdir"},
          path : Paths({"a", "b", ".."}, 1..2)]
    \cup [what : {"temp"}, xs : {5, 6}, suffix : {"", ".c"},
          before : SUBSET ({"t"} \X (1..2) \X {"", ".c"})]
    \cup [what : {"writev"}, iov : SeqsOf({<<>>, <<1>>, <<2, 3>>}, 0..3), moves : [1..3 -> {-1, 0, 1, 2}]]

-----------------------------------------------------------------------------
(* Starts of a program: what the store of the browser has, what fails, the *)
(* versions of a bundle that are served, and where the process ends.       *)

Root == <<"root">>
HF   == <<"vim.tar.hash">>
TwoVersions == ("v1" :> <<<<"bin", "vim">>, <<"home", "user", "rc">>>>)
               @@ ("v2" :> <<<<"bin", "vim">>, <<"usr">>, <<"home", "user", "rc">>>>)
Disks == {[persistent |-> U!Empty @@ (Root :> "dir") @@ h, temporary |-> U!Empty, local |-> U!Empty] :
             h \in {<<>>, <<"home">> :> "dir", <<"home">> :> "v1"}}
Starting == [browser |-> TRUE, devenv |-> FALSE, root |-> U!NoPath, home |-> U!NoPath, fails |-> {},
             pipes |-> TRUE, restored |-> TRUE, pwd |-> U!NoPath, local |-> U!NoPath,
             beside |-> U!Nothing, dir |-> <<"home">>, served |-> "v1", hashed |-> TRUE, stop |-> 9]
Envs == {[Starting EXCEPT !.browser = br, !.root = r, !.home = h, !.fails = f, !.pwd = pwd,
                          !.local = l, !.restored = re] :
            br \in BOOLEAN, r \in {U!NoPath, Root}, h \in {U!NoPath, <<"home", "a", "b">>},
            f \in SUBSET {<<"tmp">>, <<"mnt", "html5">>, <<"home", "user">>} \cup {{<<>>}},
            pwd \in {U!NoPath, <<"tmp">>, <<"none">>}, l \in {U!NoPath, <<"mnt", "local">>},
            re \in BOOLEAN}
Few  == {[Starting EXCEPT !.root = r, !.devenv = d, !.beside = side, !.served = v, !.hashed = h, !.stop = e] :
            r \in {U!NoPath, Root}, d \in BOOLEAN, side \in {U!Nothing, "v2"},
            v \in {"v1", U!Nothing}, h \in BOOLEAN, e \in {1, 9}}
Many == {[Starting EXCEPT !.root = Root, !.served = v, !.hashed = h, !.stop = e] :
            v \in {"v1", "v2"}, h \in BOOLEAN, e \in {1, 3, 4, 9}}
VersionOf(env) == LET v == IF env.beside # U!Nothing THEN env.beside ELSE env.served
                  IN  CASE v = U!Nothing -> 0 [] v = "v1" -> 1 [] v = "v2" -> 2
Grows(starts) == \A i, j \in DOMAIN starts : i < j /\ VersionOf(starts[j]) > 0 =>
                                              VersionOf(starts[i]) <= VersionOf(starts[j])
Sessions ==
    [what : {"env"}, disk : Disks, env : Envs, fails : {{}, {<<"tmp">>}},
     place : {<<"home">>, <<"tmp">>, <<"mnt", "local">>}]
    \cup [what : {"starts"}, disk : Disks,
          starts : {t \in [1..2 -> Few] : Grows(t)} \cup {t \in [1..3 -> Many] : Grows(t)}]

-----------------------------------------------------------------------------
(* Turns of a screen, what is damaged of it, events; and requests.         *)

Rotations == [turn : 0..3, reflect : BOOLEAN]
Rects  == [x1 : {0, 1}, y1 : {0, 1}, x2 : {3, 4}, y2 : {2, 3}]
Events == [type : {"down", "up"}, button : {1, 2, 9}] \cup {[type |-> "motion"]}
          \cup [type : {"axis"}, value : {0, 5, 6}]
Keys   == [type : {"key"}, key : {X!Undo, "x"}, up : BOOLEAN]
Screens ==
    [what : {"turns"}, asked : {<<4, 3>>, <<0, 3>>}, mode : BOOLEAN,
     base : {X!Upright, [turn |-> 1, reflect |-> FALSE]},
     turns : SeqsOf([randr : Rotations, memory : {<<TRUE, TRUE>>, <<FALSE, TRUE>>, <<FALSE, FALSE>>}], 1..2)]
    \cup [what : {"damage"}, rects : SeqsOf(Rects, 0..2) \cup [1..3 -> {r \in Rects : r.y1 = 0 /\ r.x2 = 3}]]
    \cup [what : {"events"}, events : SeqsOf(Events, 0..4) \cup SeqsOf(Keys, 0..3)]

Requests == SeqsOf([op : {"append", "insert", "second"}, s : {"a", "b"}]
                   \cup [op : {"setint"}, key : {"n"}, n : {-2, 7}]
                   \cup {[op |-> "setstring", key |-> "k", s |-> "a"]}, 1..4)

Kinds == {"search", "servers", "messages", "programs", "data", "files", "sessions", "screens"}
Inputs(kind) ==
    CASE kind = "search"   -> [what : {"search"}, search : Searches]
      [] kind = "servers"  -> [what : {"servers"}, conf : Confs, options : {{}, {"rotate"}},
                               first : Changes, then : Changes]
      [] kind = "messages" ->
            [what : {"replies"}, one : {m \in Asked : Once(m)}, two : {m \in Asked : Once(m)}]
            \cup [what : {"names"}, texts : Packed \X Packed \X Packed, size : {5, 20}, room : {1, 2}]
            \cup [what : {"bytes"}, msg : SeqsOf({0, 1, 2, Pointer}, 1..5)]
            \cup [what : {"domains"}, one : Domains, other : Domains]
      [] kind = "programs" -> [what : {"files"}, fs : FileSystems,
                               env : [libs : {<<"">>, <<"", "/opt">>}, arm : BOOLEAN]]
                              \cup [what : {"command"}, command : Commands]
                              \cup [what : {"request"}, calls : Requests]
      [] kind = "data"     -> Conversions
      [] kind = "files"    -> FileCalls
      [] kind = "sessions" -> Sessions
      [] kind = "screens"  -> Screens

Init  == input = [what |-> "none"]
Begin == input.what = "none" /\ \E kind \in Kinds : input' = [what |-> "kind", kind |-> kind]
Give  == input.what = "kind" /\ input' \in Inputs(input.kind)
Next  == Begin \/ Give
Spec == Init /\ [][Next]_input

-----------------------------------------------------------------------------
CommandRuns(c) ==
    RunsAsWritten(c.fs, [path |-> c.path, libs |-> <<"">>, arm |-> FALSE], c.prog, c.args)

\* What is sent to start a program is right: the libraries that are found are
\* closed under what they need, the manifest of a dynamic program has each once,
\* a script whose first line was read runs with its interpreter as it is written
\* (nspawn_find_arch_and_library_deps, AddNmfToRequest), and a request has what
\* was put into it and leaves no reference behind (nacl_pp_helpers.c).
ProgramsLoad ==
    /\ input.what = "files" => /\ DepsAreClosure(input.fs, input.env, Prog)
                               /\ ManifestIsComplete(input.fs, input.env, Prog)
    /\ input.what = "command" /\ LineIsRead(input.command.fs, Prog) => CommandRuns(input.command)
    /\ input.what = "request" => Var!RequestsAreWhole(input.calls)

\* Names keep their meaning: what is packed into a message is read back from it,
\* pointers that form a circle give none, domains nest as their labels do, and a
\* reply is taken for the answer to the same questions only (ns_name_pack,
\* ns_name_unpack, ns_samedomain, res_queriesmatch).
NamesSurvive ==
    /\ input.what = "names" => NamesAreReadAsPacked(input.texts, Zeros, input.size, input.room)
    /\ input.what = "bytes" => NamesEnd(input.msg)
    /\ input.what = "domains" => DomainsNest(input.one, input.other)
    /\ input.what = "replies" => MatchIsSameQuestions(Blank, input.one, input.two)

\* A search asks all it should and nothing else, and every server that is listed
\* is asked, whatever changed since the last query (__libc_res_nsearch,
\* __libc_res_nsend).
SearchFinds ==
    /\ input.what = "search" =>
         SearchIsComplete(Configured(input.search), input.search.name, HookOf(input.search))
    /\ input.what = "servers" =>
         LET s == res_ninit(Blank, [local |-> <<>>, options |-> <<>>], input.conf, None, 0)
             named == {input.conf[i].server : i \in DOMAIN input.conf} \cap {V6}
         IN  ServersAreReached([s EXCEPT !.options = @ \cup input.options], named, 0,
                               <<input.first, input.then>>)

\* Files are where they belong: a path leads to the same for realpath and for the
\* system, a call below a directory does what it would do there and leaves the
\* process where it was, a temporary file is a new one, and after starts that
\* end anywhere a program finds its bundle and its home (realpath.c, openat.c,
\* mktemp.c, nacl_startup_untar, nacl_setup_env).
FilesAreFound ==
    /\ input.what = "path" /\ F!IsDir(input.fs, input.cwd) => F!PathsAreReal(input.fs, input.cwd, input.path)
    /\ input.what = "at" =>
         F!CallsAreBelow([fs |-> input.fs, cwd |-> input.cwd, dirs |-> [three |-> input.dir]],
                         input.op, input.dirfd, input.path)
    /\ input.what = "temp" =>
         F!TempIsOwn([name |-> "t", xs |-> input.xs, suffix |-> input.suffix], input.before)
    /\ input.what = "env" =>
         /\ U!HomeIsKept(input.disk, input.env, [Starting EXCEPT !.fails = input.fails])
         /\ U!StartsInPlace(input.disk, input.env, input.place)
    /\ input.what = "starts" => U!FilesAreThere(input.disk, input.starts)

\* Data keeps its meaning: a sort orders what it was given and loses nothing, an
\* address is read as it is written, unless it is full and has a gap, and the
\* buffers of one call are moved in their order (qsort_r, inet_aton, inet_pton,
\* ns_put32, writev).
ConversionsAreRight ==
    /\ input.what = "sort" => SortedBy(input.keys, input.arg)
    /\ input.what = "quad" => C!QuadIsRead(input.numbers, input.cut)
    /\ input.what = "groups" /\ ~C!IsFull(input.left, input.gap, input.right, input.quad) =>
         C!GroupsAreRead(input.left, input.gap, input.right, input.quad)
    /\ input.what = "number" => C!NumberIsKept(input.n, input.before)
    /\ input.what = "writev" => F!MovedInOrder(input.iov, input.moves)

\* The X server and its screen agree: after a turn its sizes and its memory do,
\* everything that changed is brought to the browser, and the buttons, the pen
\* and the keys are as the events left them (sdlRandRSetConfig, sdlShadowUpdate,
\* sdlPollInput).
ScreenFollows ==
    /\ input.what = "turns" => X!TurnsAreWhole(input.asked, <<40, 30>>, input.base, input.mode, input.turns)
    /\ input.what = "damage" => X!DamageIsShown(<<4, 3>>, <<40, 30>>, input.rects)
    /\ input.what = "events" => X!InputIsFollowed(input.events)

-----------------------------------------------------------------------------
(* What comments of the code say of all inputs, and the code does not do.  *)

\* "Find the end of the line", and what stands before and after its first space is
\* the interpreter and its argument (ExpandShBang, nacl_spawn.cc:190-193).
ScriptsRunAsWritten == input.what = "command" => CommandRuns(input.command)

\* ":: in a full address is silently ignored" (inet_pton6, inet_pton.c:126).
GapsAreIgnored ==
    input.what = "groups" => C!GroupsAreRead(input.left, input.gap, input.right, input.quad)
=============================================================================
