------------------------------ MODULE DomainName ------------------------------
(***************************************************************************)
(* The domain names of the resolver in glibc-compat: ns_name.c (text, wire *)
(* format, compression), res_comp.c and ns_samedomain.c.                   *)
(*                                                                         *)
(* A text is a sequence of tokens: a character, an escaped one, a number   *)
(* (\ddd), a bit string (\[x...]).  A name in wire format and a message    *)
(* are sequences of bytes; offsets in a message begin with 0.              *)
(***************************************************************************)
EXTENDS Integers, Sequences, SequencesExt, FiniteSets, FiniteSetsExt

CONSTANTS MaxLabel,    \* 63: longer lengths are flags
          MaxCdName,   \* NS_MAXCDNAME
          MaxDName     \* NS_MAXDNAME

Bitstring == 65        \* 0x41
Pointer   == 192       \* NS_CMPRSFLGS
Failed    == [ok |-> FALSE]

Chr(c)      == [t |-> "chr", c |-> c]
Esc(c)      == [t |-> "esc", c |-> c]
Dec(c)      == [t |-> "dec", c |-> c]
Bits(bytes) == [t |-> "bits", c |-> bytes]

Dot   == 46
Slash == 92
Upper == 65..90
Lower == 97..122
Digit == 48..57

mklower(c)    == IF c \in Upper THEN c + 32 ELSE c
special(c)    == c \in {34, Dot, 59, Slash, 64, 36}
printable(c)  == c > 32 /\ c < 127
Lowered(s)    == [i \in DOMAIN s |-> mklower(s[i])]

\* The characters of a text.
Written(token) ==
    CASE token.t = "chr"  -> <<token.c>>
      [] token.t = "esc"  -> <<Slash, token.c>>
      [] token.t = "dec"  -> <<Slash, 48 + token.c \div 100, 48 + (token.c % 100) \div 10,
                               48 + (token.c % 10)>>
      [] token.t = "bits" -> [i \in 1 .. 4 + 2 * Len(token.c) |-> 48]
Chars(text) == FlattenSeq([i \in DOMAIN text |-> Written(text[i])])

-----------------------------------------------------------------------------
(* Text to wire format and back.                                           *)

IsDot(token) == token = Chr(Dot)
Bytes(label) == [i \in DOMAIN label |-> label[i].c]

\* The labels of a text, each a sequence of tokens.
Split(text) ==
    LET Add(labels, token) ==
            IF IsDot(token) THEN Append(labels, <<>>)
            ELSE [labels EXCEPT ![Len(labels)] = Append(@, token)]
    IN  FoldLeft(Add, << <<>> >>, text)

IsBits(label) == label # <<>> /\ label[1].t = "bits"
Wire(label) ==
    IF IsBits(label) THEN <<Bitstring, 8 * Len(label[1].c)>> \o label[1].c
    ELSE <<Len(label)>> \o Bytes(label)

\* A dot at the end makes the name fully qualified; no other label is empty.
\* A bit string wants a dot after it, which does not make the name qualified,
\* and a byte more.
Encode(text, labels, size) ==
    LET proper == IF Last(labels) = <<>> THEN Front(labels) ELSE labels
        bits   == proper # <<>> /\ IsBits(Last(proper))
        full   == Len(labels) > 1 /\ Last(labels) = <<>> /\ ~bits
        wire   == FlattenSeq([i \in DOMAIN proper |-> Wire(proper[i])]) \o <<0>>
        spare  == IF bits THEN 1 ELSE 0
    IN  IF /\ \A i \in DOMAIN proper :
                 IF IsBits(proper[i]) THEN Len(proper[i]) = 1 /\ i < Len(labels)
                 ELSE proper[i] # <<>> /\ Len(proper[i]) <= MaxLabel
           /\ Len(wire) + spare <= size /\ Len(wire) <= MaxCdName
        THEN [ok |-> TRUE, full |-> full, wire |-> wire]
        ELSE IF text = <<Chr(Dot)>> /\ size > 0 THEN [ok |-> TRUE, full |-> TRUE, wire |-> <<0>>]
        ELSE Failed
ns_name_pton(text, size) == Encode(text, Split(text), size)

\* The labels of a name in wire format: where each begins, and what is in it.
RECURSIVE Labels(_, _)
Labels(wire, at) ==
    LET n == IF wire[at] = Bitstring THEN wire[at + 1] \div 8 + 1 ELSE wire[at]
    IN  IF wire[at] = 0 THEN <<>>
        ELSE <<SubSeq(wire, at, at + n)>> \o Labels(wire, at + n + 1)

Printed(label) ==
    IF label[1] = Bitstring THEN <<Bits(SubSeq(label, 3, Len(label)))>>
    ELSE [i \in 1 .. Len(label) - 1 |->
             LET c == label[i + 1]
             IN  IF special(c) THEN Esc(c) ELSE IF printable(c) THEN Chr(c) ELSE Dec(c)]

\* The root is ".", no other name ends with a dot.
ns_name_ntop(wire, size) ==
    LET labels == Labels(wire, 1)
        Add(text, label) ==
            text \o (IF text = <<>> THEN <<>> ELSE <<Chr(Dot)>>) \o Printed(label)
        text == IF labels = <<>> THEN <<Chr(Dot)>> ELSE FoldLeft(Add, <<>>, labels)
    IN  IF Len(Chars(text)) < size THEN [ok |-> TRUE, text |-> text] ELSE Failed

\* To lower case; a bit string is refused.
ns_name_ntol(wire, size) ==
    IF (\E i \in DOMAIN Labels(wire, 1) : Labels(wire, 1)[i][1] > MaxLabel) \/ Len(wire) > size
    THEN Failed
    ELSE [ok |-> TRUE,
          wire |-> FlattenSeq([i \in DOMAIN Labels(wire, 1) |-> Lowered(Labels(wire, 1)[i])])
                   \o <<0>>]

-----------------------------------------------------------------------------
(* Compression.                                                            *)

At(msg, offset)  == msg[offset + 1]
Jump(msg, offset) == (At(msg, offset) - Pointer) * 256 + At(msg, offset + 1)

\* The name at an offset: dst so far, the octets consumed (-1 before the first
\* pointer), and how much of the message was looked at.
RECURSIVE Unpack(_, _, _, _, _, _)
Unpack(msg, at, size, dst, first, checked) ==
    LET n    == At(msg, at)
        bits == n = Bitstring
        len  == IF bits THEN At(msg, at + 1) \div 8 + 1 ELSE n
        end  == at + 1 + len
        seen == checked + len + 1
    IN  IF n = 0 THEN [ok |-> TRUE, wire |-> Append(dst, 0),
                       used |-> IF first.used < 0 THEN at + 1 - first.src ELSE first.used]
        ELSE IF n >= Pointer
        THEN IF \/ at + 1 >= Len(msg) \/ Jump(msg, at) >= Len(msg)
                \/ checked + 2 >= Len(msg)
             THEN Failed
             ELSE Unpack(msg, Jump(msg, at), size, dst,
                         [first EXCEPT !.used = IF @ < 0 THEN at + 2 - first.src ELSE @],
                         checked + 2)
        ELSE IF (n > MaxLabel /\ ~bits) \/ Len(dst) + len + 1 >= size \/ end >= Len(msg)
        THEN Failed
        ELSE Unpack(msg, end, size, dst \o SubSeq(msg, at + 1, end), first, seen)

\* As much as the whole message looked at: there is a loop.
ns_name_unpack(msg, src, size) ==
    IF src >= Len(msg) THEN Failed
    ELSE Unpack(msg, src, size, <<>>, [src |-> src, used |-> -1], 0)

\* Over a compressed name; a bit string is refused.
RECURSIVE ns_name_skip(_, _)
ns_name_skip(msg, at) ==
    IF at >= Len(msg) THEN IF at > Len(msg) THEN -1 ELSE at
    ELSE IF At(msg, at) = 0 THEN at + 1
    ELSE IF At(msg, at) >= Pointer THEN IF at + 2 > Len(msg) THEN -1 ELSE at + 2
    ELSE IF At(msg, at) > MaxLabel THEN -1
    ELSE ns_name_skip(msg, at + 1 + At(msg, at))

\* Whether the rest of a name is what is at an offset of the message; "stop" at a
\* bit string.
RECURSIVE Matches(_, _, _)
Matches(msg, at, labels) ==
    LET n    == At(msg, at)
        same == Lowered(SubSeq(msg, at + 1, at + 1 + n)) = Lowered(labels[1])
        end  == at + n + 1
    IN  IF n >= Pointer THEN Matches(msg, Jump(msg, at), labels)
        ELSE IF n > MaxLabel THEN "stop"
        ELSE IF n = 0 \/ ~same THEN "no"
        ELSE IF Len(labels) > 1 THEN Matches(msg, end, Tail(labels))
        ELSE IF At(msg, end) = 0 THEN "yes" ELSE "no"

\* The labels in the message that a search can find, of the names in dnptrs.
RECURSIVE Starts(_, _)
Starts(msg, at) ==
    IF At(msg, at) = 0 \/ At(msg, at) > MaxLabel \/ at >= 16384 THEN <<>>
    ELSE <<at>> \o Starts(msg, at + At(msg, at) + 1)

\* A defect: the comparison does not see that the name in the message goes on.
FindPrefix(msg, dnptrs, labels) ==
    LET all  == FlattenSeq([i \in DOMAIN dnptrs |-> Starts(msg, dnptrs[i])])
        same == {i \in DOMAIN all :
                    Lowered(SubSeq(msg, all[i] + 1, all[i] + 1 + At(msg, all[i]))) =
                    Lowered(labels[1])}
    IN  IF same = {} THEN -1 ELSE all[Min(same)]

\* The first place that has the name, unless the search stops before.
dn_find(msg, dnptrs, labels) ==
    LET all  == FlattenSeq([i \in DOMAIN dnptrs |-> Starts(msg, dnptrs[i])])
        hits == {i \in DOMAIN all : Matches(msg, all[i], labels) # "no"}
    IN  IF hits = {} \/ Matches(msg, all[Min(hits)], labels) = "stop" THEN -1
        ELSE all[Min(hits)]

\* The labels of a name go to the end of the message, up to the first that is
\* there already; only the first that is new is noted, if dnptrs has room for it.
\* An empty bit string ends the name, as the root does.
RECURSIVE Pack(_, _, _, _)
Pack(labels, msg, s, room) ==
    LET plain == labels # <<>> /\ labels[1][1] # Bitstring
        found == IF plain THEN dn_find(msg, s.dnptrs, labels) ELSE -1
        note  == plain /\ s.new = <<>> /\ Len(s.dnptrs) < room
                 /\ Len(msg) + Len(s.dst) < 16384
        label == IF labels = <<>> THEN <<0>> ELSE labels[1]
        ended == labels = <<>> \/ labels[1] = <<Bitstring, 0>>
        next  == [s EXCEPT !.dst = @ \o label,
                           !.new = IF note THEN <<Len(msg) + Len(s.dst)>> ELSE @]
    IN  IF found >= 0
        THEN IF Len(s.dst) + 1 >= s.size THEN Failed
             ELSE [ok |-> TRUE, dnptrs |-> s.dnptrs \o s.new,
                   dst |-> s.dst \o <<Pointer + found \div 256, found % 256>>]
        ELSE IF Len(s.dst) + Len(label) >= s.size THEN Failed
        ELSE IF ended THEN [ok |-> TRUE, dst |-> next.dst, dnptrs |-> s.dnptrs \o next.new]
        ELSE Pack(Tail(labels), msg, next, room)

ns_name_pack(wire, msg, size, dnptrs, room) ==
    IF Len(wire) - Cardinality({i \in DOMAIN Labels(wire, 1) : Labels(wire, 1)[i][1] = Bitstring})
       > MaxCdName
    THEN Failed
    ELSE Pack(Labels(wire, 1), msg,
              [dst |-> <<>>, new |-> <<>>, size |-> size, dnptrs |-> dnptrs], room)

ns_name_compress(text, msg, size, dnptrs, room) ==
    LET name == ns_name_pton(text, MaxCdName)
    IN  IF name.ok THEN ns_name_pack(name.wire, msg, size, dnptrs, room) ELSE Failed

Shown(name, size) ==
    LET text == ns_name_ntop(name.wire, size)
    IN  IF name.ok /\ text.ok THEN [ok |-> TRUE, used |-> name.used, text |-> text.text]
        ELSE Failed
ns_name_uncompress(msg, src, size) == Shown(ns_name_unpack(msg, src, MaxCdName), size)

\* res_comp.c: the root is "", and what a name is made of.
Expanded(name) ==
    IF name.ok /\ name.text = <<Chr(Dot)>> THEN [name EXCEPT !.text = <<>>] ELSE name
dn_expand(msg, src, size) == Expanded(ns_name_uncompress(msg, src, size))

ns_name_rollback(src, dnptrs) ==
    LET old == {i \in DOMAIN dnptrs : dnptrs[i] >= src}
    IN  IF old = {} THEN dnptrs ELSE SubSeq(dnptrs, 1, Min(old) - 1)

borderchar(c) == c \in Upper \cup Lower \cup Digit
middlechar(c) == borderchar(c) \/ c \in {45, 95}
domainchar(c) == c > 32 /\ c < 127

res_hnok(s) ==
    \A i \in DOMAIN s :
        \/ s[i] = Dot
        \/ IF i = 1 \/ i = Len(s) \/ s[IF i = 1 THEN 1 ELSE i - 1] = Dot
              \/ s[IF i = Len(s) THEN i ELSE i + 1] = Dot
           THEN borderchar(s[i]) ELSE middlechar(s[i])

res_ownok(s) ==
    IF Len(s) > 1 /\ s[1] = 42 /\ s[2] = Dot THEN res_hnok(SubSeq(s, 3, Len(s)))
    ELSE s = <<42>> \/ res_hnok(s)

res_dnok(s) == \A i \in DOMAIN s : domainchar(s[i])

\* A dot is escaped by an odd number of backslashes before it.
Escaped(s, i) ==
    Cardinality({j \in 1..i-1 : \A k \in j..i-1 : s[k] = Slash}) % 2 = 1

res_mailok(s) ==
    LET dots == {i \in DOMAIN s : s[i] = Dot /\ ~Escaped(s, i)}
    IN  \/ s = <<>>
        \/ /\ dots # {} /\ res_dnok(SubSeq(s, 1, Min(dots)))
           /\ res_hnok(SubSeq(s, Min(dots) + 1, Len(s)))

-----------------------------------------------------------------------------
(* ns_samedomain.c, on the characters of a text.                           *)

Trimmed(s) == IF s # <<>> /\ Last(s) = Dot /\ ~Escaped(s, Len(s)) THEN Front(s) ELSE s

ns_samedomain(a, b) ==
    LET d == Len(Trimmed(a)) - Len(Trimmed(b))
    IN  \/ Trimmed(b) = <<>>
        \/ /\ d = 0 \/ (d >= 2 /\ a[d] = Dot /\ ~Escaped(a, d))
           /\ Lowered(SubSeq(a, d + 1, Len(Trimmed(a)))) = Lowered(Trimmed(b))

\* The dots at the end are one dot; a dot is kept if one backslash is before it
\* (a text "\." makes the code read in front of its buffer).
RECURSIVE Stripped(_)
Stripped(s) ==
    LET n == Len(s)
        kept == n > 1 /\ s[n - 1] = Slash /\ (n < 3 \/ s[n - 2] # Slash)
    IN  IF s # <<>> /\ Last(s) = Dot /\ ~kept THEN Stripped(Front(s)) ELSE s

ns_makecanon(s) ==
    IF Len(s) + 2 > MaxDName THEN Failed ELSE [ok |-> TRUE, text |-> Append(Stripped(s), Dot)]

ns_samename(a, b) ==
    IF ~ns_makecanon(a).ok \/ ~ns_makecanon(b).ok THEN -1
    ELSE IF Lowered(ns_makecanon(a).text) = Lowered(ns_makecanon(b).text) THEN 1 ELSE 0

ns_subdomain(a, b) == ns_samename(a, b) # 1 /\ ns_samedomain(a, b)

-----------------------------------------------------------------------------
\* The names of a message, one packed after the other: the message, where each
\* begins, what is noted of them; a name that has no room is left out.
PackAll(texts, msg, size, room) ==
    LET Add(s, text) ==
            LET name == ns_name_compress(text, s.msg, size, s.dnptrs, room)
            IN  IF name.ok
                THEN [msg |-> s.msg \o name.dst, dnptrs |-> name.dnptrs,
                      names |-> Append(s.names, [text |-> text, at |-> Len(s.msg)])]
                ELSE s
    IN  FoldLeft(Add, [msg |-> msg, dnptrs |-> <<>>, names |-> <<>>], texts)

HasBits(text) == \E i \in DOMAIN text : text[i].t = "bits"

IsReadBack(message, name, after, read, wire) ==
    LET shown == ns_name_ntop(read.wire, MaxDName)
        lower == ns_name_ntol(read.wire, MaxCdName)
    IN  /\ read.ok /\ Lowered(read.wire) = Lowered(wire)
        /\ read.used = after - name.at
        /\ shown.ok
        /\ IF HasBits(name.text) THEN ~lower.ok
           ELSE /\ ns_name_skip(message, name.at) = after
                /\ lower.ok /\ lower.wire = Lowered(wire)
                /\ ns_name_pton(shown.text, MaxCdName).wire = read.wire
AreReadBack(s, message) ==
    \A i \in DOMAIN s.names :
        LET name  == s.names[i]
            after == IF i < Len(s.names) THEN s.names[i + 1].at ELSE Len(s.msg)
        IN  IsReadBack(message, name, after, ns_name_unpack(message, name.at, MaxCdName),
                       ns_name_pton(name.text, MaxCdName).wire)
Closed(s) == AreReadBack(s, s.msg \o <<0>>)

\* Each name of a message is read as it was written but for the case, of which
\* the first to be written decides; what it occupies is what was written; to
\* skip it is to read it, which does not work for a bit string; and its text
\* gives the name again (ns_name_pack and dn_find against ns_name_unpack,
\* ns_name_skip and ns_name_ntop).
NamesAreReadAsPacked(texts, header, size, room) == Closed(PackAll(texts, header, size, room))

\* One domain is in another when its last labels are those of the other, and
\* two are the same when all are (ns_samedomain, ns_samename, ns_subdomain).
Names(text) == LET all == Split(text) IN IF Last(all) = <<>> THEN Front(all) ELSE all
Caseless(text) ==
    [i \in DOMAIN Names(text) |->
        [j \in DOMAIN Names(text)[i] |->
            [Names(text)[i][j] EXCEPT !.c = mklower(Names(text)[i][j].c)]]]
DomainsNest(a, b) ==
    LET la == Caseless(a)
        lb == Caseless(b)
    IN  /\ ns_samedomain(Chars(a), Chars(b)) <=> IsSuffix(lb, la)
        /\ (ns_samename(Chars(a), Chars(b)) = 1) <=> (la = lb)
        /\ ns_subdomain(Chars(a), Chars(b)) <=> (IsStrictSuffix(lb, la))

\* From an offset, labels and pointers lead to the end of a name.
LeadsToEnd(msg, src) ==
    LET Onward(at) == IF At(msg, at) = 0 THEN at
                      ELSE IF At(msg, at) < Pointer THEN at + 1 + At(msg, at)
                      ELSE IF at + 1 < Len(msg) THEN Jump(msg, at) ELSE Len(msg)
        walk[n \in 0..Len(msg)] ==
            IF n = 0 THEN src ELSE IF walk[n-1] < Len(msg) THEN Onward(walk[n-1]) ELSE walk[n-1]
    IN  walk[Len(msg)] < Len(msg) /\ At(msg, walk[Len(msg)]) = 0

\* Whatever the bytes of a message are, reading a name comes to an end, and finds
\* one only where there is one, not where pointers lead in a circle
\* (ns_name_unpack).
NamesEnd(msg) ==
    \A src \in 0..Len(msg) : ns_name_unpack(msg, src, MaxCdName).ok => LeadsToEnd(msg, src)
=============================================================================
