------------------------------ MODULE PepperVars ------------------------------
(***************************************************************************)
(* The helpers with which libnacl_spawn builds requests and reads replies  *)
(* (nacl_pp_helpers.c) out of the values of the browser (PP_Var): strings, *)
(* dictionaries and arrays are counted, numbers are not.                   *)
(*                                                                         *)
(* A heap gives what each value is and how many references the program     *)
(* holds to it; those of a container are the container's own.  A call      *)
(* returns the heap and a value.                                           *)
(***************************************************************************)
EXTENDS Integers, Sequences, SequencesExt

Undefined == [num |-> "undefined"]
Number(n) == [num |-> n]
Ref(id)   == [ref |-> id]
Counted(v) == "ref" \in DOMAIN v
NoHeap == [held |-> <<>>, val |-> <<>>]

-----------------------------------------------------------------------------
(* The interfaces of the browser.                                          *)

New(h, what) ==
    [h |-> [held |-> Append(h.held, 1), val |-> Append(h.val, what)], v |-> Ref(Len(h.held) + 1)]
VarFromUtf8(h, s) == New(h, [string |-> s])
AddRef(h, v)  == IF Counted(v) THEN [h EXCEPT !.held[v.ref] = @ + 1] ELSE h
Release(h, v) == IF Counted(v) THEN [h EXCEPT !.held[v.ref] = @ - 1] ELSE h

Entries(h, dict) == h.val[dict.ref].dict
HasKey(h, dict, key) == h.val[key.ref].string \in DOMAIN Entries(h, dict)
DictGet(h, dict, key) ==
    LET v == IF HasKey(h, dict, key) THEN Entries(h, dict)[h.val[key.ref].string] ELSE Undefined
    IN  [h |-> AddRef(h, v), v |-> v]
DictSet(h, dict, key, v) ==
    LET k == h.val[key.ref].string e == Entries(h, dict)
    IN  [h EXCEPT !.val[dict.ref].dict = [x \in DOMAIN e \cup {k} |-> IF x = k THEN v ELSE e[x]]]

Items(h, array) == h.val[array.ref].items
SetLength(h, array, n) ==
    [h EXCEPT !.val[array.ref].items = [i \in 1..n |-> IF i <= Len(@) THEN @[i] ELSE Undefined]]
ArrayGet(h, array, i) == LET v == Items(h, array)[i] IN [h |-> AddRef(h, v), v |-> v]
\* An index after the end makes the array longer.
ArraySet(h, array, i, v) ==
    [(IF i > Len(Items(h, array)) THEN SetLength(h, array, i) ELSE h) EXCEPT !.val[array.ref].items[i] = v]

-----------------------------------------------------------------------------
(* nacl_pp_helpers.c.  Indices begin at 0 there, at 1 here.                *)

nspawn_dict_create(h)  == New(h, [dict |-> <<>>])
nspawn_array_create(h) == New(h, [items |-> <<>>])

nspawn_dict_get(h, dict, key) ==
    LET k == VarFromUtf8(h, key) r == DictGet(k.h, dict, k.v) IN [r EXCEPT !.h = Release(r.h, k.v)]

nspawn_dict_has_key(h, dict, key) ==
    LET k == VarFromUtf8(h, key)
        r == IF HasKey(k.h, dict, k.v) THEN DictGet(k.h, dict, k.v) ELSE [h |-> k.h, v |-> Undefined]
    IN  [h |-> Release(r.h, k.v), v |-> r.v, has |-> HasKey(k.h, dict, k.v)]

\* The value is taken over from the caller.
nspawn_dict_set(h, dict, key, v) ==
    LET k == VarFromUtf8(h, key)
    IN  Release(Release(DictSet(k.h, dict, k.v, v), k.v), v)
nspawn_dict_setstring(h, dict, key, s) ==
    LET v == VarFromUtf8(h, s) IN nspawn_dict_set(v.h, dict, key, v.v)
nspawn_dict_setint(h, dict, key, n) == nspawn_dict_set(h, dict, key, Number(n))

\* The items from the index on are moved, the last one first.
nspawn_array_insert(h, array, at, v) ==
    LET n == Len(Items(h, array))
        Move(g, i) == LET from == ArrayGet(g, array, i)
                      IN  Release(ArraySet(from.h, array, i + 1, from.v), from.v)
    IN  Release(ArraySet(FoldLeft(Move, SetLength(h, array, n + 1), [k \in 1 .. n - at + 1 |-> n - k + 1]),
                         array, at, v), v)

nspawn_array_setstring(h, array, at, s) ==
    LET v == VarFromUtf8(h, s) IN Release(ArraySet(v.h, array, at, v.v), v.v)
nspawn_array_insertstring(h, array, at, s) ==
    LET v == VarFromUtf8(h, s) IN nspawn_array_insert(v.h, array, at, v.v)
nspawn_array_appendstring(h, array, s) ==
    nspawn_array_setstring(h, array, Len(Items(h, array)) + 1, s)

\* A number that is negative is an error: -1, with errno.
AsInt(r) == [h |-> r.h, v |-> IF ~r.has \/ r.v.num < 0 THEN -1 ELSE r.v.num]
nspawn_dict_getint(h, dict, key) == AsInt(nspawn_dict_has_key(h, dict, key))
nspawn_dict_getint_release(h, dict, key) ==
    LET r == nspawn_dict_getint(h, dict, key) IN [r EXCEPT !.h = Release(r.h, dict)]
\* A boolean that is missing is true: -1 is returned for it.
nspawn_dict_getbool(h, dict, key) ==
    LET r == nspawn_dict_has_key(h, dict, key)
    IN  [h |-> r.h, v |-> IF r.has THEN r.v.num # 0 ELSE TRUE]

-----------------------------------------------------------------------------
\* One call of a program that builds a request: a dictionary and an array.
Build(s, call) ==
    CASE call.op = "setstring" -> [s EXCEPT !.h = nspawn_dict_setstring(@, s.dict, call.key, call.s)]
      [] call.op = "setint"    -> [s EXCEPT !.h = nspawn_dict_setint(@, s.dict, call.key, call.n)]
      [] call.op = "append"    -> [s EXCEPT !.h = nspawn_array_appendstring(@, s.array, call.s)]
      [] call.op = "insert"    -> [s EXCEPT !.h = nspawn_array_insertstring(@, s.array, 1, call.s)]
      [] call.op = "second"    -> IF Items(s.h, s.array) = <<>> THEN s
                                  ELSE [s EXCEPT !.h = nspawn_array_insertstring(@, s.array, 2, call.s)]

\* The list and the keys the calls mean.
Listed(calls) ==
    LET Put(l, c) == CASE c.op = "append" -> Append(l, c.s)
                       [] c.op = "insert" -> <<c.s>> \o l
                       [] c.op = "second" /\ l # <<>> -> <<l[1], c.s>> \o Tail(l)
                       [] OTHER -> l
    IN  FoldLeft(Put, <<>>, calls)

Request(calls) ==
    LET dict  == nspawn_dict_create(NoHeap)
        array == nspawn_array_create(dict.h)
    IN  FoldLeft(Build, [h |-> array.h, dict |-> dict.v, array |-> array.v], calls)

\* What the program has of the request, and of the reply to it.
HasAll(s, calls) ==
    LET items == Items(s.h, s.array)
    IN  /\ [i \in DOMAIN items |-> s.h.val[items[i].ref].string] = Listed(calls)
        /\ \A id \in DOMAIN s.h.held : s.h.held[id] = IF Ref(id) \in {s.dict, s.array} THEN 1 ELSE 0
Sent(s) == nspawn_dict_get(nspawn_dict_set(s.h, s.dict, "args", s.array), s.dict, "args")
Reply(s, args) == nspawn_dict_getint_release(Release(args.h, args.v), s.dict, "n")
GivesBack(reply, calls) ==
    LET last == SelectLastInSeq(calls, LAMBDA c : c.op = "setint" /\ c.key = "n")
    IN  /\ \A id \in DOMAIN reply.h.held : reply.h.held[id] = 0
        /\ reply.v = IF last = 0 \/ calls[last].n < 0 THEN -1 ELSE calls[last].n
IsWhole(s, calls) ==
    /\ HasAll(s, calls) /\ Sent(s).v = s.array
    /\ GivesBack(Reply(s, Sent(s)), calls)

\* A request has the strings and numbers that were put into it, in the order the
\* calls give, and once it is sent, and its reply read, the program holds no
\* reference any more and gave none back twice (nspawn_array_insert,
\* nspawn_dict_set, nspawn_dict_getint_release).
RequestsAreWhole(calls) == IsWhole(Request(calls), calls)
=============================================================================
