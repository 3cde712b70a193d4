------------------------------- MODULE Resolver -------------------------------
(***************************************************************************)
(* The resolver of glibc-compat: its configuration (res_init.c,            *)
(* res_libc.c), the list of its servers (res_send.c), the queries it makes *)
(* and how a name is searched (res_mkquery.c, res_query.c).                *)
(*                                                                         *)
(* Under Native Client nothing is sent: the query hook answers, or the     *)
(* program aborts.  A hook is a function of the name that is asked (in wire *)
(* format) and of the server.  A state is a record; errno and h_errno are  *)
(* fields of it.                                                           *)
(***************************************************************************)
EXTENDS DomainName

CONSTANTS MaxNs,       \* MAXNS
          MaxDnSrch,   \* MAXDNSRCH
          MaxDots,     \* RES_MAXNDOTS
          MaxRetry,    \* RES_MAXRETRY
          MaxRetrans   \* RES_MAXRETRANS

Slot     == 0 .. MaxNs - 1
Unused   == [family |-> "none"]
AnyAddr  == [family |-> "inet", addr |-> "any"]
None     == <<[t |-> "none", c |-> 0]>>   \* no text
Header   == 12         \* HFIXEDSZ
PacketSz == 512
Least(x, y) == IF x < y THEN x ELSE y

\* A state as the loader leaves it.
Blank ==
    [options |-> {}, retrans |-> 0, retry |-> 0, ndots |-> 0, nscount |-> 0, defdname |-> None,
     dnsrch |-> <<>>, nsaddr_list |-> [n \in Slot |-> Unused], qhook |-> FALSE, stamp |-> 0,
     nsinit |-> FALSE, extcount |-> 0, nscount6 |-> 0,
     nsmap |-> [n \in Slot |-> 0], nsaddrs |-> [n \in Slot |-> Unused],
     errno |-> "0", h_errno |-> "0"]

-----------------------------------------------------------------------------
(* Configuration.                                                          *)

\* Values are bounded from above only; ndots is a field of four bits.
SetOption(s, option) ==
    LET value(max) == Least(option[2], max)
    IN  CASE option[1] = "ndots"        -> [s EXCEPT !.ndots = value(MaxDots) % 16]
          [] option[1] = "timeout"      -> [s EXCEPT !.retrans = value(MaxRetrans)]
          [] option[1] = "attempts"     -> [s EXCEPT !.retry = value(MaxRetry)]
          [] option[1] = "ip6-dotint"   -> [s EXCEPT !.options = @ \ {"no-ip6-dotint"}]
          [] option[1] \in {"inet6", "ip6-bytestring", "no-ip6-dotint", "rotate",
                            "no-check-names"} -> [s EXCEPT !.options = @ \cup {option[1]}]
          [] OTHER -> s
res_setoptions(s, options) == FoldLeft(SetOption, s, options)

\* One line of resolv.conf; c counts the servers, those of either kind in c.all.
ReadLine(c, line, haveenv) ==
    CASE line.key = "domain" /\ ~haveenv ->
            [c EXCEPT !.s.defdname = line.name, !.havesearch = FALSE]
      [] line.key = "search" /\ ~haveenv ->
            [c EXCEPT !.s.defdname = line.names[1], !.havesearch = TRUE,
                      !.s.dnsrch = SubSeq(line.names, 1, Least(Len(line.names), MaxDnSrch))]
      [] line.key = "nameserver" /\ c.all < MaxNs /\ line.server.family = "inet" ->
            [c EXCEPT !.s.nsaddr_list[c.nserv] = line.server, !.nserv = @ + 1, !.all = @ + 1]
      [] line.key = "nameserver" /\ c.all < MaxNs /\ line.server.family = "inet6" ->
            [c EXCEPT !.s.nsaddrs[c.all] = line.server, !.s.nsmap[c.all] = MaxNs + 1,
                      !.all = @ + 1]
      [] line.key = "options" -> [c EXCEPT !.s = res_setoptions(@, line.options)]
      [] OTHER -> c

Reset(s, preinit, stamp) ==
    LET fresh == IF preinit THEN s
                 ELSE [s EXCEPT !.retrans = 5, !.retry = 2,
                                !.options = {"recurse", "defnames", "dnsrch", "no-ip6-dotint"}]
    IN  [fresh EXCEPT !.stamp = stamp, !.nsaddr_list[0] = AnyAddr, !.nscount = 1,
                      !.ndots = 1, !.qhook = FALSE, !.nsinit = FALSE, !.extcount = 0,
                      !.nscount6 = 0, !.nsaddrs = [n \in Slot |-> Unused],
                      !.nsmap = [n \in Slot |-> MaxNs]]

\* The domains of the environment win over those of the file.
ReadConf(s, env, conf) ==
    LET have  == env.local # <<>>
        local == IF ~have THEN s
                 ELSE [s EXCEPT !.defdname = env.local[1],
                          !.dnsrch = SubSeq(env.local, 1, Least(Len(env.local), MaxDnSrch))]
    IN  FoldLeft(LAMBDA c, line : ReadLine(c, line, have),
                 [s |-> local, nserv |-> 0, all |-> 0, havesearch |-> have /\ Len(env.local) > 1],
                 conf)

\* Without a list of domains, the default domain is the list.
Complete(c, host) ==
    LET domain == IF c.s.defdname = None THEN host ELSE c.s.defdname
    IN  [c.s EXCEPT !.nscount = IF c.nserv > 1 THEN c.nserv ELSE @,
                    !.nscount6 = c.all - c.nserv, !.defdname = domain,
                    !.dnsrch = IF c.havesearch THEN @
                               ELSE <<IF domain = None THEN <<>> ELSE domain>>]

\* env.local is LOCALDOMAIN and env.options RES_OPTIONS; host is the domain of
\* the host's name.  The domain of an earlier initialisation stays when nothing
\* names one.
__res_vinit(s, preinit, env, conf, host, stamp) ==
    LET done == Complete(ReadConf(Reset(s, preinit, stamp), env, conf), host)
    IN  [res_setoptions(done, env.options) EXCEPT !.options = @ \cup {"init"}]

res_ninit(s, env, conf, host, stamp) == __res_vinit(s, FALSE, env, conf, host, stamp)

res_nclose(s) == [s EXCEPT !.nsinit = FALSE]

Freed(s) == [res_nclose(s) EXCEPT !.nsaddrs = [n \in Slot |-> Unused]]
Defaults(s) ==
    [s EXCEPT !.retrans = IF @ = 0 THEN 5 ELSE @, !.retry = IF @ = 0 THEN 4 ELSE @,
              !.options = IF "init" \in @ THEN @
                          ELSE {"recurse", "defnames", "dnsrch", "no-ip6-dotint"}]

\* The program's own state, whose initialisation makes all others do theirs.
res_init(s, env, conf, host, stamp) ==
    LET again == "init" \in s.options /\ s.nscount > 0
    IN  __res_vinit(IF again THEN Freed(Defaults(s)) ELSE Defaults(s), TRUE,
                    env, conf, host, stamp + 1)

__res_maybe_init(s, preinit, env, conf, host, stamp) ==
    IF "init" \in s.options
    THEN IF s.stamp # stamp /\ s.nscount > 0
         THEN __res_vinit(Freed(s), TRUE, env, conf, host, stamp) ELSE s
    ELSE IF preinit THEN __res_vinit(Defaults(s), TRUE, env, conf, host, stamp)
    ELSE res_ninit(s, env, conf, host, stamp)

-----------------------------------------------------------------------------
(* Servers.                                                                *)

res_ourserver_p(s, server) ==
    \E n \in Slot : /\ s.nsaddrs[n] # Unused /\ s.nsaddrs[n].family = server.family
                    /\ s.nsaddrs[n].addr \in {"any", server.addr}

\* The program has changed its list since it was copied.
Changed(s) ==
    /\ s.nsinit
    /\ \/ s.extcount # s.nscount
       \/ \E n \in Slot : s.nsmap[n] < MaxNs /\ s.nsaddr_list[s.nsmap[n]] # s.nsaddrs[n]

\* Each server of the list in a slot of its own, beside those of resolv.conf
\* that are not in the list; who has a slot keeps it.
Synced(s) ==
    LET gone == {n \in Slot : s.nsmap[n] \in s.nscount .. MaxNs - 1}
        kept == [n \in Slot |-> IF n \in gone THEN MaxNs ELSE s.nsmap[n]]
        free == SetToSortSeq({n \in Slot : kept[n] = MaxNs}, <)
        With(more, nsmap) ==
            [s EXCEPT !.nsinit = TRUE, !.nsmap = nsmap,
                !.extcount = IF s.nscount > @ THEN @ + more ELSE s.nscount,
                !.nsaddrs = [n \in Slot |-> IF nsmap[n] < MaxNs THEN s.nsaddr_list[nsmap[n]]
                                            ELSE IF n \in gone THEN Unused ELSE @[n]]]
        Filled(slots, more) ==
            With(more, [n \in Slot |-> IF \E i \in 1..more : slots[i] = n
                                       THEN s.extcount + (CHOOSE i \in 1..more : slots[i] = n) - 1
                                       ELSE kept[n]])
    IN  Filled(free, Least(s.nscount - s.extcount, Len(free)))

Rotated(s) ==
    LET used == SetToSortSeq({n \in Slot : s.nsmap[n] # MaxNs}, <)
        Turn(f) == [n \in Slot |->
                       IF \E i \in DOMAIN used : used[i] = n
                       THEN f[used[((CHOOSE i \in DOMAIN used : used[i] = n) % Len(used)) + 1]]
                       ELSE f[n]]
    IN  [s EXCEPT !.nsmap = Turn(@), !.nsaddrs = Turn(@)]

\* The servers in the order of the attempts.
Attempts(s) ==
    LET used  == SetToSortSeq({n \in Slot : s.nsaddrs[n] # Unused}, <)
        round == [i \in DOMAIN used |-> s.nsaddrs[used[i]]]
    IN  IF s.retry <= 0 THEN <<>> ELSE FlattenSeq([try \in 1..s.retry |-> round])

Copied(s)  == IF s.nsinit /\ ~Changed(s) THEN s ELSE Synced(s)
Prepared(s) == IF "rotate" \in s.options THEN Rotated(Copied(s)) ELSE Copied(s)
NoReply(s, asked) == [s |-> s, asked |-> asked, reply |-> [what |-> "failed"]]

\* The servers are tried in their order, up to the first that is not passed over;
\* only the first attempt leaves the state open.
Try(s, all, does, act, vc) ==
    LET ends  == {i \in DOMAIN all : does[i] # "nextns"}
        last  == Min(ends)
        after == IF last = 1 THEN s ELSE res_nclose(s)
        asked == SubSeq(all, 1, last)
    IN  IF ends = {}
        THEN NoReply([res_nclose(s) EXCEPT !.errno = IF vc THEN "ETIMEDOUT" ELSE "ECONNREFUSED"], all)
        ELSE CASE does[last] = "done" ->
                    [s |-> after, asked |-> asked,
                     reply |-> [what |-> "answered", rcode |-> act[all[last]].rcode,
                                count |-> act[all[last]].count]]
               [] does[last] = "goahead" ->
                    [s |-> after, asked |-> asked, reply |-> [what |-> "aborted"]]
               [] OTHER -> NoReply(after, asked)   \* error, modified too often

\* A query: the state after it, the servers asked, and the reply, which fails,
\* aborts, or has an rcode and a number of answers.
__libc_res_nsend(s, buflen, anssiz, act) ==
    LET Asking(ready, all) ==
            Try(ready, all, [i \in DOMAIN all |-> IF s.qhook THEN act[all[i]].act ELSE "goahead"],
                act, "usevc" \in s.options \/ buflen > PacketSz)
        Begin(ready) == Asking(ready, Attempts(ready))
    IN  IF s.nscount = 0 THEN NoReply([s EXCEPT !.errno = "ESRCH"], <<>>)
        ELSE IF anssiz < Header THEN NoReply([s EXCEPT !.errno = "EINVAL"], <<>>)
        ELSE Begin(Prepared(s))

-----------------------------------------------------------------------------
(* Messages.                                                               *)

Short(n)    == <<n \div 256, n % 256>>
Word(m, at) == m[at + 1] * 256 + m[at + 2]
Counts(m)   == [qd |-> Word(m, 4), an |-> Word(m, 6), ar |-> Word(m, 10), op |-> m[3] \div 8 % 16]
Heading(s, op, qd, an, ar) ==
    Short(0) \o <<8 * op + (IF "recurse" \in s.options THEN 1 ELSE 0), 0>>
    \o Short(qd) \o Short(an) \o Short(0) \o Short(ar)

QUERY  == 0
IQUERY == 1
NOTIFY == 4
UPDATE == 5

\* A question, and the second name of a notification, packed against the first.
OneQuestion(s, op, asked, type, class) ==
    Heading(s, op, 1, 0, 0) \o asked.dst \o Short(type) \o Short(class)
Notice(s, op, one, extra, class) ==
    IF ~extra.ok THEN Failed
    ELSE [ok |-> TRUE, msg |-> Heading(s, op, 1, 0, 1) \o SubSeq(one, Header + 1, Len(one))
                               \o extra.dst \o Short(10) \o Short(class)
                               \o Short(0) \o Short(0) \o Short(0)]
Ask(s, op, asked, class, type, data, size) ==
    LET one == OneQuestion(s, op, asked, type, class)
    IN  IF ~asked.ok THEN Failed
        ELSE IF op = QUERY \/ data = None THEN [ok |-> TRUE, msg |-> one]
        ELSE Notice(s, op, one,
                    ns_name_compress(data, one, size - Len(one) - 10, asked.dnptrs, 18), class)

\* The answer of an inverse query is the data.
res_nmkquery(s, op, name, class, type, data, size) ==
    CASE size < Header -> Failed
      [] op \in {QUERY, NOTIFY} /\ size >= Header ->
            Ask(s, op, ns_name_compress(name, Heading(s, op, 1, 0, 0), size - Header - 4, <<>>, 18),
                class, type, data, size)
      [] op = IQUERY /\ size >= Header + 11 + Len(data) ->
            [ok |-> TRUE,
             msg |-> Heading(s, op, 0, 1, 0) \o <<0>> \o Short(type) \o Short(class)
                     \o Short(0) \o Short(0) \o Short(Len(data)) \o data]
      [] OTHER -> Failed

\* The question at an offset: its name, type and class, and where the next is.
Fields(m, at, name) ==
    LET end == at + name.used
    IN  IF ~name.ok THEN Failed
        ELSE IF end + 4 > Len(m) THEN Failed
        ELSE [ok |-> TRUE, name |-> Chars(name.text), type |-> Word(m, end),
              class |-> Word(m, end + 2), next |-> end + 4]
QuestionAt(m, at) == Fields(m, at, dn_expand(m, at, MaxDName + 1))

RECURSIVE Lookup(_, _, _, _)
Lookup(question, m, at, left) ==
    LET Compare(q) ==
            IF ~q.ok THEN -1
            ELSE IF /\ q.type = question.type /\ q.class = question.class
                    /\ ns_samename(q.name, question.name) = 1 THEN 1
            ELSE Lookup(question, m, q.next, left - 1)
    IN  IF left = 0 THEN 0 ELSE Compare(QuestionAt(m, at))
res_nameinquery(question, m) == Lookup(question, m, Header, Counts(m).qd)

\* A malformed second message counts as found.
RECURSIVE AllFound(_, _, _, _)
AllFound(one, two, at, left) ==
    LET Seek(q) == IF ~q.ok THEN -1
                   ELSE IF res_nameinquery(q, two) = 0 THEN 0
                   ELSE AllFound(one, two, q.next, left - 1)
    IN  IF left = 0 THEN 1 ELSE Seek(QuestionAt(one, at))

res_queriesmatch(one, two) ==
    IF Len(one) < Header \/ Len(two) < Header THEN -1
    ELSE IF Counts(one).op = UPDATE /\ Counts(two).op = UPDATE THEN 1
    ELSE IF Counts(one).qd # Counts(two).qd THEN 0
    ELSE AllFound(one, two, Header, Counts(one).qd)

-----------------------------------------------------------------------------
(* Searching a name.  The result of a query has the state after it, the    *)
(* names asked so far, and whether there is an answer.                     *)

\* The reason for an answer that is none.
Reason(reply) ==
    CASE reply.rcode = "NXDOMAIN" -> "HOST_NOT_FOUND"
      [] reply.rcode = "SERVFAIL" -> "TRY_AGAIN"
      [] reply.rcode = "NOERROR"  -> "NO_DATA"
      [] OTHER                    -> "NO_RECOVERY"

NotFound(s, why, names, rcode) ==
    [s |-> [s EXCEPT !.h_errno = why], names |-> names, found |-> FALSE, aborted |-> FALSE,
     rcode |-> rcode]
Outcome(sent, wire, h_errno) ==
    CASE sent.reply.what = "failed"  -> NotFound(sent.s, "TRY_AGAIN", <<wire>>, "NOERROR")
      [] sent.reply.what = "aborted" ->
           [NotFound(sent.s, "0", <<wire>>, "NOERROR") EXCEPT !.aborted = TRUE]
      [] OTHER ->
           IF sent.reply.rcode # "NOERROR" \/ sent.reply.count = 0
           THEN NotFound(sent.s, Reason(sent.reply), <<wire>>, sent.reply.rcode)
           ELSE [NotFound(sent.s, h_errno, <<wire>>, "NOERROR") EXCEPT !.found = TRUE]

\* A query for a text that is no name is not sent.
__libc_res_nquery(s, name, hook) ==
    LET Send(wire, query) ==
            IF ~query.ok
            THEN NotFound([s EXCEPT !.errno = "EMSGSIZE"], "NO_RECOVERY", <<>>, "NOERROR")
            ELSE Outcome(__libc_res_nsend(s, Len(query.msg), 1024, hook[wire]), wire, s.h_errno)
    IN  Send(ns_name_pton(name, MaxCdName).wire,
             res_nmkquery(s, QUERY, name, 1, 1, None, Header + 4 + MaxCdName + 1))

\* The name as it is, without a dot at its end, or under a domain.
__libc_res_nquerydomain(s, name, domain, hook) ==
    LET full == IF domain # None THEN name \o <<Chr(Dot)>> \o domain
                ELSE IF name # <<>> /\ Last(name) = Chr(Dot) THEN Front(name) ELSE name
    IN  IF Len(Chars(full)) >= MaxDName
        THEN NotFound(s, "NO_RECOVERY", <<>>, "NOERROR")
        ELSE __libc_res_nquery(s, full, hook)

\* The file of $HOSTALIASES, up to a line without a second word.
res_hostalias(s, name, lines) ==
    LET same == {i \in DOMAIN lines : ns_samename(Chars(lines[i].alias), Chars(name)) = 1}
        bad  == {i \in DOMAIN lines : lines[i].host = None}
    IN  IF "noaliases" \in s.options \/ same = {} THEN None
        ELSE IF \E i \in bad : i < Min(same) THEN None
        ELSE lines[Min(same)].host

\* A defect: a name that exists without the data ends the search.
StopsWithoutData(why, rcode) == why = "HOST_NOT_FOUND" \/ (why = "TRY_AGAIN" /\ rcode = "SERVFAIL")

\* What does not end the search.
GoesOn(why, rcode) ==
    why \in {"NO_DATA", "HOST_NOT_FOUND"} \/ (why = "TRY_AGAIN" /\ rcode = "SERVFAIL")

\* The search so far: what was met, and whether it is over.
Over(c) == c.done \/ c.found \/ c.aborted \/ c.refused
Met(c, q, domain) ==
    LET why  == q.s.h_errno
        next == [c EXCEPT !.s = q.s, !.names = @ \o q.names,
                          !.root = @ \/ domain \in {<<>>, <<Chr(Dot)>>}]
    IN  IF q.found \/ q.aborted
        THEN [next EXCEPT !.found = q.found, !.aborted = q.aborted]
        ELSE IF q.s.errno = "ECONNREFUSED"
        THEN [next EXCEPT !.refused = TRUE, !.s.h_errno = "TRY_AGAIN"]
        ELSE [next EXCEPT
                !.nodata = @ \/ why = "NO_DATA",
                !.servfail = @ \/ (why = "TRY_AGAIN" /\ q.rcode = "SERVFAIL"),
                !.done = "dnsrch" \notin c.s.options \/ ~GoesOn(why, q.rcode)]
Step(name, hook, c, domain) ==
    IF Over(c) THEN c ELSE Met(c, __libc_res_nquerydomain(c.s, name, domain, hook), domain)

\* The name as it is, at first if it has the dots for it or else at the end;
\* first is the h_errno of that.
Begun(s) == [s |-> s, names |-> <<>>, found |-> FALSE, aborted |-> FALSE, refused |-> FALSE,
             done |-> FALSE, nodata |-> FALSE, servfail |-> FALSE, root |-> FALSE,
             first |-> "none"]
AsIs(c, q) == [c EXCEPT !.s = q.s, !.names = @ \o q.names, !.found = q.found,
                        !.aborted = q.aborted]
FirstAsIs(s, name, hook, trailing) ==
    LET First(q) == [AsIs(Begun(s), q) EXCEPT !.first = q.s.h_errno, !.done = trailing]
    IN  First(__libc_res_nquerydomain(s, name, None, hook))
AtLast(c, name, hook) ==
    IF c.root THEN c ELSE AsIs(c, __libc_res_nquerydomain(c.s, name, None, hook))

\* Of several reasons, the one that says most.
Concluded(c) ==
    IF c.found \/ c.aborted THEN c
    ELSE [c EXCEPT !.s.h_errno = CASE c.first # "none" -> c.first
                                   [] c.first = "none" /\ c.nodata -> "NO_DATA"
                                   [] c.first = "none" /\ ~c.nodata /\ c.servfail -> "TRY_AGAIN"
                                   [] OTHER -> @]

Extend(c, name, hook, dots, trailing, asis) ==
    LET searches == \/ dots = 0 /\ "defnames" \in c.s.options
                    \/ dots > 0 /\ ~trailing /\ "dnsrch" \in c.s.options
        End(l) == IF l.found \/ l.aborted \/ l.refused \/ (asis /\ trailing) THEN l
                  ELSE Concluded(IF dots > 0 /\ ~asis THEN AtLast(l, name, hook) ELSE l)
    IN  End(IF searches
            THEN FoldLeft(LAMBDA l, domain : Step(name, hook, l, domain), c, c.s.dnsrch)
            ELSE c)

__libc_res_nsearch(state, name, hook, aliases) ==
    LET s        == [state EXCEPT !.errno = "0", !.h_errno = "HOST_NOT_FOUND"]
        chars    == Chars(name)
        dots     == Cardinality({i \in DOMAIN chars : chars[i] = Dot})
        trailing == chars # <<>> /\ Last(chars) = Dot
        asis     == dots >= s.ndots \/ trailing
        Aliased(alias) ==
            IF dots = 0 /\ alias # None THEN __libc_res_nquery(s, alias, hook)
            ELSE Extend(IF asis THEN FirstAsIs(s, name, hook, trailing) ELSE Begun(s),
                        name, hook, dots, trailing, asis)
    IN  Aliased(res_hostalias(s, name, aliases))

-----------------------------------------------------------------------------
(* The calls of programs that have no state of their own (res_data.c).  A  *)
(* world is what an initialisation reads: env, conf, host and stamp.       *)

Ready(s, w) == __res_maybe_init(s, TRUE, w.env, w.conf, w.host, w.stamp)

res_mkquery(s, w, op, name, class, type, data, size) ==
    res_nmkquery(Ready(s, w), op, name, class, type, data, size)
res_query(s, w, name, hook) == __libc_res_nquery(Ready(s, w), name, hook)
res_querydomain(s, w, name, domain, hook) ==
    __libc_res_nquerydomain(Ready(s, w), name, domain, hook)
res_search(s, w, name, hook, aliases) == __libc_res_nsearch(Ready(s, w), name, hook, aliases)
res_send(s, w, buflen, anssiz, act) == __libc_res_nsend(Ready(s, w), buflen, anssiz, act)
res_send_setqhook(s, hook) == [s EXCEPT !.qhook = hook]
res_isourserver(s, server) == res_ourserver_p(s, server)
hostalias(s, name, lines)  == res_hostalias(s, name, lines)

\* Programs close what they have not opened.
res_close(s) == IF "init" \in s.options THEN res_nclose(s) ELSE s

-----------------------------------------------------------------------------
SameWorld(s) == [env |-> [local |-> <<>>, options |-> <<>>], conf |-> <<>>, host |-> None,
                 stamp |-> s.stamp]
OnWire(name) == ns_name_pton(name, MaxCdName).wire
Under(name, domain) == OnWire(name \o <<Chr(Dot)>> \o domain)

\* What a search for a name with dots, or without, may ask: the name, and the
\* name under the domains of the list.
SearchDomains(s, name) ==
    IF IsDot(Last(name)) \/ ({"defnames", "dnsrch"} \cap s.options = {}) THEN <<>>
    ELSE IF "dnsrch" \in s.options
    THEN IF "defnames" \in s.options \/ Dot \in ToSet(Chars(name)) THEN s.dnsrch ELSE <<>>
    ELSE IF Dot \in ToSet(Chars(name)) THEN <<>> ELSE SubSeq(s.dnsrch, 1, 1)

AsksAll(s, name, hook, r) ==
    LET list  == SearchDomains(s, name)
        under == {Under(name, list[i]) : i \in DOMAIN list}
        asis  == OnWire(name)
        dots  == Dot \in ToSet(Chars(name))
        kind(w) == hook[w][CHOOSE x \in DOMAIN hook[w] : TRUE]
        yes(w)  == kind(w).act = "done" /\ kind(w).rcode = "NOERROR" /\ kind(w).count > 0
        soft(w) == kind(w).act = "done" /\ kind(w).rcode \in {"NOERROR", "NXDOMAIN", "SERVFAIL"}
        not(w)  == kind(w).act = "done" /\ kind(w).rcode = "NXDOMAIN"
        asked   == ToSet(r.names)
        all     == under \cup (IF dots THEN {asis} ELSE {})
    IN  /\ asked \subseteq all
        /\ \A i \in DOMAIN r.names : yes(r.names[i]) <=> (r.found /\ i = Len(r.names))
        /\ ~r.found =>
             /\ (\A w \in asked : soft(w)) => all \subseteq asked
             /\ r.s.h_errno = "HOST_NOT_FOUND" =>
                    (asis \in asked /\ not(asis)) \/ (\A w \in asked : not(w))

\* A search asks nothing but the name and its extensions; it ends at the first
\* that has an answer; without an answer all of them have been asked, unless a
\* query failed for a reason of its own; and that a name does not exist is said
\* only when it does not, or when none of its extensions does
\* (res_search with __res_vinit and __libc_res_nsend).  A list with "."
\* is left out: "name.." is no name.
SearchIsComplete(s, name, hook) ==
    AsksAll(s, name, hook, res_search(s, SameWorld(s), name, hook, <<>>))

\* A query that every server passes on goes to each server the program has
\* listed and to each that resolv.conf named, as often as there are attempts,
\* whatever changed since the query before (Synced, Changed, Rotated).
Listed(s) == {s.nsaddr_list[n] : n \in 0 .. s.nscount - 1}
PassOn(s) == [x \in {s.nsaddr_list[n] : n \in Slot} \cup {s.nsaddrs[n] : n \in Slot} |->
                 [act |-> "nextns"]]
AllPass(s) == res_send(res_send_setqhook(s, TRUE), SameWorld(s), 40, 1024, PassOn(s))
AskedInTurn(r, all, retry) ==
    LET k == Cardinality(all)
    IN  /\ Len(r.asked) = k * retry
        /\ \A try \in 1..retry : {r.asked[i] : i \in (try - 1) * k + 1 .. try * k} = all
        /\ \A x \in all : res_isourserver(r.s, x)
ServersAsked(s, named) == AskedInTurn(AllPass(s), Listed(s) \cup named, s.retry)

\* The same after each of a sequence of changes: a list of its own, or another
\* initialisation.
RECURSIVE ServersAreReached(_, _, _, _)
ServersAreReached(s, named, stamp, changes) ==
    LET c     == Head(changes)
        env   == [local |-> <<>>, options |-> <<>>]
        v6    == {x \in {c.conf[i].server : i \in DOMAIN c.conf} : x.family = "inet6"}
        Change(after) ==
            CASE c.what = "list"  ->
                    [after EXCEPT !.nscount = Len(c.list),
                                  !.nsaddr_list = [n \in Slot |-> IF n < Len(c.list) THEN c.list[n + 1]
                                                                   ELSE @[n]]]
              [] c.what = "init"  -> res_init(after, env, c.conf, None, stamp)
              [] c.what = "maybe" -> __res_maybe_init(after, FALSE, env, c.conf, None, stamp + 1)
    IN  /\ ServersAsked(s, named)
        /\ changes # <<>> =>
             ServersAreReached(Change(AllPass(s).s), IF c.what = "list" THEN named ELSE v6,
                               IF c.what = "list" THEN stamp ELSE stamp + 1, Tail(changes))

\* Two messages match when they ask the same, in any order, in names of any case
\* (res_queriesmatch); a question twice in a message is left out, and an update.
MessageOf(s, questions) ==
    LET Add(c, q) ==
            LET name == ns_name_compress(q.name, c.msg, 300, c.dnptrs, 18)
            IN  [msg |-> c.msg \o name.dst \o Short(q.type) \o Short(1), dnptrs |-> name.dnptrs]
    IN  FoldLeft(Add, [msg |-> Heading(s, QUERY, Len(questions), 0, 0), dnptrs |-> <<>>],
                 questions).msg
Asks(questions) ==
    {<<Lowered(OnWire(questions[i].name)), questions[i].type>> : i \in DOMAIN questions}
MatchIsSameQuestions(s, one, two) ==
    (res_queriesmatch(MessageOf(s, one), MessageOf(s, two)) = 1) <=> (Asks(one) = Asks(two))
=============================================================================
