---------------------------- MODULE Conversions ----------------------------
(***************************************************************************)
(* Functions of glibc-compat that read addresses (inet_pton.c, inet_addr.c) *)
(* and sort (qsort_r.c).                                                   *)
(*                                                                         *)
(* A text is a sequence of characters, an address a sequence of bytes, of  *)
(* ByteSize values each; the sizes of the code are parameters so that small *)
(* instances reach their limits.                                           *)
(***************************************************************************)
EXTENDS Integers, Sequences, SequencesExt, FiniteSets, FiniteSetsExt

CONSTANTS ByteSize,    \* 256
          V6Bytes,     \* NS_IN6ADDRSZ
          SmallSort,   \* 7: fewer elements are sorted by insertion
          Ninther,     \* 40: more elements than these have a median of nine
          Eighth       \* 8: how far apart the elements of that median are

V4Bytes == 4
NoAddress == <<>>

Decimal == <<"0", "1", "2", "3", "4", "5", "6", "7", "8", "9">>
Hex     == Decimal \o <<"a", "b", "c", "d", "e", "f">>
Value(ch) == (CHOOSE i \in DOMAIN Hex : Hex[i] = ch) - 1

-----------------------------------------------------------------------------
(* inet_pton.c.                                                            *)

Complete(s) ==
    IF s.ok /\ s.saw_digit /\ Len(s.tmp) = V4Bytes THEN s.tmp ELSE NoAddress

\* Four numbers in decimal, however many zeros are in front of them.
inet_pton4(text) ==
    LET Read(s, ch) ==
            LET last == Len(s.tmp)
                new  == s.tmp[last] * 10 + Value(ch)
            IN  IF ~s.ok THEN s
                ELSE IF ch \in ToSet(Decimal)
                THEN [tmp |-> [s.tmp EXCEPT ![last] = new], saw_digit |-> TRUE,
                      ok |-> new < ByteSize]
                ELSE [tmp |-> Append(s.tmp, 0), saw_digit |-> FALSE,
                      ok |-> ch = "." /\ s.saw_digit /\ last < V4Bytes]
    IN  Complete(FoldLeft(Read, [tmp |-> <<0>>, saw_digit |-> FALSE, ok |-> TRUE], text))

TwoBytes(val) == <<val \div ByteSize, val % ByteSize>>

\* ns_netint.c: the numbers of a message, cut to the bytes they have there.
ns_put16(src) == TwoBytes(src % (ByteSize * ByteSize))
ns_put32(src) == ns_put16(src \div (ByteSize * ByteSize)) \o ns_put16(src)
ns_get16(src) == src[1] * ByteSize + src[2]
ns_get32(src) == ns_get16(src) * ByteSize * ByteSize + ns_get16(SubSeq(src, 3, 4))

\* The groups of a text, read up to its end or to a dotted quad at its end; gap is
\* the number of bytes before "::", or -1.
Groups(text) ==
    LET Read(s, i) ==
            LET ch   == text[i]
                val  == s.val * 16 + Value(ch)
                full == Len(s.tmp) + 2 > V6Bytes
                End(quad) == IF quad = NoAddress THEN [s EXCEPT !.end = "bad"]
                             ELSE [s EXCEPT !.tmp = @ \o quad, !.saw = FALSE, !.end = "quad"]
            IN  IF s.end # "no" THEN s
                ELSE IF ch \in ToSet(Hex)
                THEN IF val >= ByteSize * ByteSize THEN [s EXCEPT !.end = "bad"]
                     ELSE [s EXCEPT !.val = val, !.saw = TRUE]
                ELSE IF ch = ":" /\ ~s.saw
                THEN IF s.gap >= 0 THEN [s EXCEPT !.end = "bad"]
                     ELSE [s EXCEPT !.gap = Len(s.tmp), !.curtok = i + 1]
                ELSE IF ch = ":"
                THEN IF full THEN [s EXCEPT !.end = "bad"]
                     ELSE [s EXCEPT !.tmp = @ \o TwoBytes(s.val), !.saw = FALSE, !.val = 0,
                                    !.curtok = i + 1]
                ELSE IF ch = "." /\ Len(s.tmp) + V4Bytes <= V6Bytes
                THEN End(inet_pton4(SubSeq(text, s.curtok, Len(text))))
                ELSE [s EXCEPT !.end = "bad"]
        start == IF text # <<>> /\ text[1] = ":" THEN 2 ELSE 1
    IN  FoldLeft(Read, [tmp |-> <<>>, gap |-> -1, curtok |-> start, saw |-> FALSE, val |-> 0,
                        end |-> "no"],
                 [i \in 1 .. Len(text) - start + 1 |-> i + start - 1])

\* What follows the gap is moved to the end, from its last byte on, and zeros are
\* left.  Bytes that are at the end already, as there is no room for a gap, are
\* moved onto themselves and cleared.
Pad(bytes, gap) ==
    LET Move(tmp, i) ==
            LET from == Len(bytes) + 1 - i
            IN  [[tmp EXCEPT ![V6Bytes + 1 - i] = tmp[from]] EXCEPT ![from] = 0]
    IN  FoldLeft(Move, bytes \o [i \in 1 .. V6Bytes - Len(bytes) |-> 0],
                 [i \in 1 .. Len(bytes) - gap |-> i])

\* A colon alone at the end is not noticed.
Filled(s) ==
    LET bytes == IF s.saw THEN s.tmp \o TwoBytes(s.val) ELSE s.tmp
    IN  IF s.end = "bad" \/ Len(bytes) > V6Bytes \/ (s.gap < 0 /\ Len(bytes) # V6Bytes)
        THEN NoAddress
        ELSE IF s.gap < 0 THEN bytes ELSE Pad(bytes, s.gap)
inet_pton6(text) ==
    IF text # <<>> /\ text[1] = ":" /\ (Len(text) = 1 \/ text[2] # ":") THEN NoAddress
    ELSE Filled(Groups(text))

inet_pton(af, text) ==
    CASE af = "inet" -> inet_pton4(text) [] af = "inet6" -> inet_pton6(text) [] OTHER -> NoAddress

-----------------------------------------------------------------------------
(* inet_addr.c.  A text is the numbers that strtoul reads, each with a dot  *)
(* behind it but the last, and the character after them.                   *)

Power(n) == LET p[i \in Nat] == IF i = 0 THEN 1 ELSE ByteSize * p[i - 1] IN p[n]

\* The last number fills the bytes that the others leave.
inet_aton(numbers, after) ==
    LET n    == Len(numbers)
        last == numbers[n]
        rest == [i \in 1 .. V4Bytes - n + 1 |-> last \div Power(V4Bytes - n + 1 - i) % ByteSize]
    IN  IF /\ n \in 1 .. V4Bytes /\ after \in {"", " "}
           /\ \A i \in DOMAIN numbers : numbers[i] < Power(V4Bytes)   \* else ERANGE
           /\ last < Power(V4Bytes - n + 1)
           /\ \A i \in 1 .. n - 1 : numbers[i] < ByteSize
        THEN Front(numbers) \o rest
        ELSE NoAddress

INADDR_NONE == [i \in 1 .. V4Bytes |-> ByteSize - 1]
inet_addr(numbers, after) ==
    IF inet_aton(numbers, after) = NoAddress THEN INADDR_NONE ELSE inet_aton(numbers, after)

-----------------------------------------------------------------------------
(* qsort_r.c.  cmp[x, y, arg] is negative, 0 or positive.  An array is a   *)
(* sequence of which the n elements from a are sorted.                     *)

Swap(s, i, j) == [s EXCEPT ![i] = s[j], ![j] = s[i]]
SwapRuns(s, i, j, n) ==
    [k \in DOMAIN s |-> CASE k \in i .. i + n - 1 -> s[k - i + j]
                          [] k \in j .. j + n - 1 -> s[k - j + i]
                          [] OTHER -> s[k]]

RECURSIVE Sink(_, _, _, _, _)
Sink(s, a, pl, cmp, arg) ==
    IF pl > a /\ cmp[s[pl - 1], s[pl], arg] > 0 THEN Sink(Swap(s, pl, pl - 1), a, pl - 1, cmp, arg)
    ELSE s
Insertion(s, a, n, cmp, arg) ==
    FoldLeft(LAMBDA t, i : Sink(t, a, a + i, cmp, arg), s, [i \in 1 .. n - 1 |-> i])

med3(s, i, j, k, cmp, arg) ==
    IF cmp[s[i], s[j], arg] < 0
    THEN IF cmp[s[j], s[k], arg] < 0 THEN j ELSE IF cmp[s[i], s[k], arg] < 0 THEN k ELSE i
    ELSE IF cmp[s[j], s[k], arg] > 0 THEN j ELSE IF cmp[s[i], s[k], arg] < 0 THEN i ELSE k

Pivot(s, a, n, cmp, arg) ==
    LET d  == n \div Eighth
        pm == a + n \div 2
        pn == a + n - 1
    IN  IF n <= SmallSort THEN pm
        ELSE IF n <= Ninther THEN med3(s, a, pm, pn, cmp, arg)
        ELSE med3(s, med3(s, a, a + d, a + 2 * d, cmp, arg),
                     med3(s, pm - d, pm, pm + d, cmp, arg),
                     med3(s, pn - 2 * d, pn - d, pn, cmp, arg), cmp, arg)

\* The elements equal to the first go to both ends, the smaller and the greater
\* ones to both sides of the middle.
RECURSIVE Up(_, _, _, _), Down(_, _, _, _), Partition(_, _, _, _)
Up(p, a, cmp, arg) ==
    LET r == cmp[p.s[p.pb], p.s[a], arg]
    IN  IF p.pb > p.pc \/ r > 0 THEN p
        ELSE IF r = 0 THEN Up([p EXCEPT !.s = Swap(@, p.pa, p.pb), !.pa = @ + 1, !.pb = @ + 1,
                                        !.swapped = TRUE], a, cmp, arg)
        ELSE Up([p EXCEPT !.pb = @ + 1], a, cmp, arg)
Down(p, a, cmp, arg) ==
    LET r == cmp[p.s[p.pc], p.s[a], arg]
    IN  IF p.pb > p.pc \/ r < 0 THEN p
        ELSE IF r = 0 THEN Down([p EXCEPT !.s = Swap(@, p.pc, p.pd), !.pd = @ - 1, !.pc = @ - 1,
                                          !.swapped = TRUE], a, cmp, arg)
        ELSE Down([p EXCEPT !.pc = @ - 1], a, cmp, arg)
Partition(p, a, cmp, arg) ==
    LET q == Down(Up(p, a, cmp, arg), a, cmp, arg)
    IN  IF q.pb > q.pc THEN q
        ELSE Partition([q EXCEPT !.s = Swap(@, q.pb, q.pc), !.pb = @ + 1, !.pc = @ - 1,
                                 !.swapped = TRUE], a, cmp, arg)

\* A defect: those that are equal to the first stay at the beginning.
GatherRight(p, a, n) ==
    LET right == Min({p.pd - p.pc, a + n - 1 - p.pd})
    IN  SwapRuns(p.s, p.pb, a + n - right, right)

Gather(p, a, n) ==
    LET left  == Min({p.pa - a, p.pb - p.pa})
        right == Min({p.pd - p.pc, a + n - 1 - p.pd})
    IN  SwapRuns(SwapRuns(p.s, a, p.pb - left, left), p.pb, a + n - right, right)

\* Elements that are in place already are a hint that all but are.
RECURSIVE Sort(_, _, _, _, _)
Sort(s, a, n, cmp, arg) ==
    LET first == Swap(s, a, Pivot(s, a, n, cmp, arg))
        p == Partition([s |-> first, pa |-> a + 1, pb |-> a + 1, pc |-> a + n - 1,
                        pd |-> a + n - 1, swapped |-> FALSE], a, cmp, arg)
        less    == p.pb - p.pa
        greater == p.pd - p.pc
        low == IF less > 1 THEN Sort(Gather(p, a, n), a, less, cmp, arg) ELSE Gather(p, a, n)
    IN  IF n < SmallSort THEN Insertion(s, a, n, cmp, arg)
        ELSE IF ~p.swapped THEN Insertion(p.s, a, n, cmp, arg)
        ELSE IF greater > 1 THEN Sort(low, a + n - greater, greater, cmp, arg) ELSE low

qsort_r(s, cmp, arg) == Sort(s, 1, Len(s), cmp, arg)

-----------------------------------------------------------------------------
\* The array is sorted by cmp and arg, and its elements are those it had
\* (qsort_r).
SortIsRight(s, cmp, arg) ==
    LET t == qsort_r(s, cmp, arg)
    IN  /\ \A i \in 1 .. Len(t) - 1 : cmp[t[i], t[i + 1], arg] <= 0
        /\ Len(t) = Len(s) /\ ToSet(t) = ToSet(s)

\* The characters of a number, and of texts in a row.
Digits(n, base) ==
    LET d[i \in Nat] == IF i < base THEN <<Hex[i + 1]>> ELSE Append(d[i \div base], Hex[(i % base) + 1])
    IN  d[n]
Joined(texts, between) ==
    FoldLeft(LAMBDA all, i : all \o (IF i = 1 THEN <<>> ELSE between) \o texts[i], <<>>,
             [i \in DOMAIN texts |-> i])
Dotted(numbers) == Joined([i \in DOMAIN numbers |-> Digits(numbers[i], 10)], <<".">>)

\* Four numbers in decimal are an address when each is a byte; both functions
\* read the same address, and neither reads more or fewer than four for it, or
\* what is cut off or followed by anything (inet_pton4, inet_aton).
QuadIsRead(numbers, cut) ==
    LET text  == Dotted(numbers)
        whole == Len(numbers) = V4Bytes /\ \A i \in DOMAIN numbers : numbers[i] < ByteSize
        part  == SubSeq(text, 1, Len(text) - cut)
    IN  /\ inet_pton4(text) = IF whole THEN numbers ELSE NoAddress
        /\ inet_pton4(text \o <<".">>) = NoAddress /\ inet_pton4(<<".">> \o text) = NoAddress
        /\ whole => inet_aton(numbers, "") = numbers /\ inet_addr(numbers, " ") = numbers
        /\ inet_aton(numbers, "x") = NoAddress
        /\ Len(numbers) < V4Bytes => inet_pton4(part) = NoAddress

\* A number that is put into a message after other bytes is read from there, cut
\* to its width, and in the order of the bytes of an address (inet_addr).
NumberIsKept(n, before) ==
    LET short == before \o ns_put16(n)
        long  == before \o ns_put32(n)
        At(s) == SubSeq(s, Len(before) + 1, Len(s))
    IN  /\ ns_get16(At(short)) = n % Power(2) /\ ns_get32(At(long)) = n % Power(V4Bytes)
        /\ n < Power(V4Bytes) => At(long) = inet_addr(<<n>>, "")

\* There is a gap, and no room for it.
IsFull(left, gap, right, quad) ==
    gap /\ 2 * Len(left) + 2 * Len(right) + Len(quad) = V6Bytes

\* The groups around a gap, with or without a dotted quad at the end, are an
\* address when they fill it, or leave room in it for the gap (inet_pton6); a gap
\* in a full address is ignored, and a colon alone at the end is left out.
GroupsAreRead(left, gap, right, quad) ==
    LET Text(groups) == Joined([i \in DOMAIN groups |-> Digits(groups[i], 16)], <<":">>)
        Raw(groups)  == FlattenSeq([i \in DOMAIN groups |-> TwoBytes(groups[i])])
        tail  == IF quad = <<>> THEN Text(right)
                 ELSE Text(right) \o (IF right = <<>> THEN <<>> ELSE <<":">>) \o Dotted(quad)
        bytes == Raw(right) \o quad
        sep   == IF gap THEN <<":", ":">> ELSE IF left # <<>> /\ tail # <<>> THEN <<":">> ELSE <<>>
        read  == inet_pton(IF gap \/ left \o right # <<>> THEN "inet6" ELSE "none",
                           Text(left) \o sep \o tail)
        size  == Len(Raw(left)) + Len(bytes)
    IN  read = IF \/ size > V6Bytes \/ (~gap /\ size # V6Bytes)
                  \/ \E g \in ToSet(left \o right) : g >= ByteSize * ByteSize
               THEN NoAddress
               ELSE Raw(left) \o [i \in 1 .. V6Bytes - size |-> 0] \o bytes
=============================================================================
