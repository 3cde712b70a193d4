----------------------------- MODULE Ports_proofs -----------------------------
(***************************************************************************)
(* Theorems about two libraries of ports.                                  *)
(*                                                                         *)
(* The walk of a file tree by fts.c, for every tree, every list of roots   *)
(* and any number of changes by others: the process is where the walk is,  *)
(* and no directory is on the way to the current entry twice.  What a path *)
(* leads to is left open: the walk only trusts what it compares.           *)
(*                                                                         *)
(* The driver of xaos, for every length of the queue and any number of     *)
(* frames and events: no event is lost on a queue that was never full, and *)
(* a flush that is done shows one frame.                                   *)
(***************************************************************************)
EXTENDS Fts, XaosDriver, FiniteSetTheorems, SequenceTheorems,
        WellFoundedInduction, TLAPS

-----------------------------------------------------------------------------
(* The inductive invariant of a walk.                                      *)

Infos  == {"INIT", "NS", "NSOK", "SLNONE", "D", "DC", "DP", "DNR", "ERR", "SL", "F"}
Instrs == {"NOINSTR", "AGAIN", "FOLLOW", "SKIP"}
Entries ==
    [name : Name \cup {None}, acc : Name \cup {"path"}, info : Infos,
     ino : Dir \cup {None}, err : BOOLEAN, dont : BOOLEAN,
     sym : Dir \cup {None, Closed}, instr : Instrs, in : BOOLEAN]
Levels == Seq(Entries) \ {<<>>}
Builds == [type : {"READ", "CHILD", "NAMES"}, todo : Seq(Name), got : Seq(Entries),
           descend : BOOLEAN, cderr : BOOLEAN]

TypeCorrect ==
    /\ cwd \in Dir /\ levels \in Seq(Levels) /\ child \in Seq(Entries)
    /\ stop \in BOOLEAN /\ astray \in BOOLEAN /\ stale \in BOOLEAN
    /\ build \in {Idle} \cup Builds
    /\ build # Idle => levels # <<>> /\ ~stop

\* An entry that was not visited.
Unvisited(e) == ~e.in /\ e.sym = None

\* Only the entries above the current one are directories gone to, or else the
\* walk failed to go to them.
LevelsOK ==
    /\ \A k \in 1 .. Len(levels) : \A i \in 2 .. Len(levels[k]) : Unvisited(levels[k][i])
    /\ \A k \in 1 .. Len(levels) - 1 :
          /\ levels[k][1].info = "D"
          /\ Chdir => levels[k][1].in \/ levels[k][1].dont
    /\ levels # <<>> => ~levels[Len(levels)][1].in

ChildOK == \A i \in 1 .. Len(child) : Unvisited(child[i])

BuildOK ==
    build # Idle =>
        /\ Cur.info = "D" /\ child = <<>>
        /\ \A i \in 1 .. Len(build.got) : Unvisited(build.got[i])
        /\ build.type = "READ" /\ Chdir /\ ~build.descend => Cur.dont
        /\ build.type = "NAMES" => ~build.descend

\* A walk that does not change directories.
NeverIn == ~Chdir => \A k \in 1 .. Len(levels) : ~levels[k][1].in
AtStart == ~Chdir => cwd = Start

\* The descriptors kept lead to where the walk was when it opened them.
SymsOK    == \A k \in 1 .. Len(levels) : levels[k][1].sym \in {None, Closed, Where(k)}
NoGap     == \A k \in 2 .. Len(levels) - 1 : levels[k][1].in => levels[k - 1][1].in
Gone      == build # Idle /\ build.descend
InPlace   == /\ cwd = IF Gone THEN Cur.ino ELSE Where(Len(levels))
             /\ Gone /\ Len(levels) > 1 => Parent.in
Following == Chdir /\ ~astray /\ ~stop /\ levels # <<>>
OnTrack   == Following => SymsOK /\ NoGap /\ InPlace

\* A directory that would be visited is not one of those above it.
NewTo(e, n) == e.info = "D" => \A j \in 1 .. n : levels[j][1].ino # e.ino
LevelsNew == \A k \in 1 .. Len(levels) : \A i \in 1 .. Len(levels[k]) : NewTo(levels[k][i], k - 1)
ChildNew  == /\ child # <<>> => levels # <<>> /\ Cur.info = "D"
             /\ \A i \in 1 .. Len(child) : NewTo(child[i], Len(levels))
BuildNew  == build # Idle => \A i \in 1 .. Len(build.got) : NewTo(build.got[i], Len(levels))
Distinct  == ~stale => LevelsNew /\ ChildNew /\ BuildNew

IInv == /\ TypeCorrect /\ LevelsOK /\ ChildOK /\ BuildOK
        /\ NeverIn /\ AtStart /\ OnTrack /\ Distinct

-----------------------------------------------------------------------------
(* Lists.                                                                  *)

\* Concatenation under a name.
Cat(s, t) == s \o t

LEMMA ConsIs ==
    ASSUME NEW S, NEW x \in S, NEW t \in Seq(S), NEW l, l = Cat(<<x>>, t)
    PROVE  /\ l \in Seq(S) /\ l # <<>> /\ Len(l) = Len(t) + 1 /\ l[1] = x
           /\ \A i \in 2 .. Len(l) : i - 1 \in 1 .. Len(t) /\ l[i] = t[i - 1]
  BY DEF Cat

LEMMA TailIs ==
    ASSUME NEW S, NEW s \in Seq(S), s # <<>>, NEW t, t = Tail(s)
    PROVE  /\ t \in Seq(S) /\ Len(t) = Len(s) - 1
           /\ \A i \in 1 .. Len(t) : i + 1 \in 2 .. Len(s) /\ t[i] = s[i + 1]
  OBVIOUS

LEMMA PushIs ==
    ASSUME NEW S, NEW s \in Seq(S), NEW x \in S, NEW t, t = Append(s, x)
    PROVE  /\ t \in Seq(S) /\ t # <<>> /\ Len(t) = Len(s) + 1 /\ t[Len(t)] = x
           /\ \A i \in 1 .. Len(s) : t[i] = s[i]
  OBVIOUS

LEMMA SubSeqIs ==
    ASSUME NEW S, NEW s \in Seq(S), NEW m \in Nat \ {0}, NEW n \in Nat, n <= Len(s), m <= n + 1,
           NEW t, t = SubSeq(s, m, n)
    PROVE  /\ t \in Seq(S) /\ Len(t) = n - m + 1
           /\ \A i \in 1 .. Len(t) : i + m - 1 \in m .. n /\ t[i] = s[i + m - 1]
<1>1. \A i \in m .. n : s[i] \in S
  OBVIOUS
<1>2. /\ t \in Seq(S) /\ Len(t) = IF m <= n THEN n - m + 1 ELSE 0
      /\ \A i \in 1 .. n - m + 1 : t[i] = s[m + i - 1]
  BY <1>1, SubSeqProperties
<1> QED
  BY <1>2

LEMMA FrontIs ==
    ASSUME NEW S, NEW s \in Seq(S), s # <<>>, NEW t, t = Front(s)
    PROVE  /\ t \in Seq(S) /\ Len(t) = Len(s) - 1
           /\ \A i \in 1 .. Len(t) : t[i] = s[i]
<1>1. PICK n : n = Len(s) - 1
  OBVIOUS
<1>2. n \in Nat /\ n <= Len(s) /\ t = SubSeq(s, 1, n)
  BY <1>1 DEF Front
<1>3. /\ t \in Seq(S) /\ Len(t) = n - 1 + 1
      /\ \A i \in 1 .. Len(t) : t[i] = s[i + 1 - 1]
  BY <1>2, SubSeqIs
<1> QED
  BY <1>1, <1>2, <1>3

-----------------------------------------------------------------------------
(* Entries.                                                                *)

\* The fields of an entry that the walk relies on.
Same(e, d) == e.in = d.in /\ e.sym = d.sym /\ e.dont = d.dont

\* What fts_stat says of an entry: a directory to visit is none of those above.
LEMMA StatIs ==
    ASSUME NEW above, NEW buffer, NEW e \in Entries, NEW follow,
           NEW s, s = fts_stat(above, buffer, e, follow)
    PROVE  /\ s \in Entries /\ Same(s, e)
           /\ s.info = "D" => s.ino \notin Inos(above)
<1> DEFINE node == Resolve(Accpath(buffer, e))
           all  == follow \/ "LOGICAL" \in options
           n    == IF all THEN Follow(node) ELSE node
<1>1. \/ s = [e EXCEPT !.info = "NS", !.err = TRUE]
      \/ s = [e EXCEPT !.info = "SLNONE"]
      \/ n \in Dir /\ n \in Inos(above) /\ s = [e EXCEPT !.info = "DC", !.ino = n]
      \/ n \in Dir /\ n \notin Inos(above) /\ s = [e EXCEPT !.info = "D", !.ino = n]
      \/ s = [e EXCEPT !.info = "SL"] \/ s = [e EXCEPT !.info = "F"]
  BY ZenonT(30) DEF fts_stat
<1>2. PICK m : m = n
  OBVIOUS
<1> HIDE DEF n
<1>3. CASE m \in Dir /\ m \in Inos(above) /\ s = [e EXCEPT !.info = "DC", !.ino = m]
  BY <1>3 DEF Entries, Infos, Same
<1>4. CASE m \in Dir /\ m \notin Inos(above) /\ s = [e EXCEPT !.info = "D", !.ino = m]
  BY <1>4 DEF Entries, Infos, Same
<1>5. CASE s = [e EXCEPT !.info = "NS", !.err = TRUE]
  BY <1>5 DEF Entries, Infos, Same
<1>6. CASE s = [e EXCEPT !.info = "SLNONE"]
  BY <1>6 DEF Entries, Infos, Same
<1>7. CASE s = [e EXCEPT !.info = "SL"]
  BY <1>7 DEF Entries, Infos, Same
<1>8. CASE s = [e EXCEPT !.info = "F"]
  BY <1>8 DEF Entries, Infos, Same
<1> QED
  BY <1>1, <1>2, <1>3, <1>4, <1>5, <1>6, <1>7, <1>8, Zenon

\* What Followed makes of an entry.
LEMMA FollowedIs ==
    ASSUME cwd \in Dir, NEW above, NEW e \in Entries, NEW q \in Followed(above, e)
    PROVE  /\ q \in Entries /\ q.in = e.in /\ q.dont = e.dont
           /\ q.sym = e.sym \/ (Chdir /\ q.sym = cwd)
           /\ q.info = "D" => q.ino \notin Inos(above)
<1>1. PICK s : s = fts_stat(above, Path(levels), e, TRUE)
  OBVIOUS
<1>2. PICK r : r = [s EXCEPT !.instr = "NOINSTR"]
  OBVIOUS
<1>3. s \in Entries /\ Same(s, e) /\ (s.info = "D" => s.ino \notin Inos(above))
  BY <1>1, StatIs
<1>4. r \in Entries /\ Same(r, e) /\ (r.info = "D" => r.ino \notin Inos(above))
  BY <1>2, <1>3 DEF Entries, Instrs, Same
<1>5. \/ q = r
      \/ Chdir /\ q = [r EXCEPT !.sym = cwd]
      \/ q = [r EXCEPT !.err = TRUE, !.info = "ERR"]
  BY <1>1, <1>2, Zenon DEF Followed
<1>6. CASE q = r
  BY <1>4, <1>6 DEF Same
<1>7. CASE Chdir /\ q = [r EXCEPT !.sym = cwd]
  BY <1>4, <1>7 DEF Same, Entries
<1>8. CASE q = [r EXCEPT !.err = TRUE, !.info = "ERR"]
  BY <1>4, <1>8 DEF Same, Entries, Infos
<1> QED
  BY <1>5, <1>6, <1>7, <1>8

\* An entry of a directory that is read.
LEMMA EntryIs ==
    ASSUME NEW name \in Name \cup {None}, NEW acc \in Name \cup {"path"},
           NEW e, e = Entry(name, acc)
    PROVE  e \in Entries /\ Unvisited(e) /\ ~e.dont /\ e.info = "INIT"
  BY DEF Entry, Entries, Infos, Instrs, Unvisited

LEMMA NewToAll ==
    ASSUME NEW e, levels \in Seq(Levels), e.info = "D" => e.ino \notin Inos(levels)
    PROVE  NewTo(e, Len(levels))
  BY DEF NewTo, Inos

LEMMA NewToAbove ==
    ASSUME NEW e, levels \in Seq(Levels), levels # <<>>, e.info = "D" => e.ino \notin Inos(Above)
    PROVE  NewTo(e, Len(levels) - 1)
<1>1. PICK a : a = Above
  OBVIOUS
<1>2. Len(a) = Len(levels) - 1 /\ a \in Seq(Levels) /\ \A j \in 1 .. Len(a) : a[j] = levels[j]
  BY <1>1, FrontIs DEF Above
<1>3. \A j \in 1 .. Len(levels) - 1 : levels[j][1].ino \in Inos(a)
  BY <1>2 DEF Inos
<1> QED
  BY <1>1, <1>3 DEF NewTo

LEMMA StatedIs ==
    ASSUME levels \in Seq(Levels), levels # <<>>, NEW name \in Name, NEW e, e = Stated(name)
    PROVE  e \in Entries /\ Unvisited(e) /\ NewTo(e, Len(levels))
<1> DEFINE own == Entry(name, IF Chdir THEN name ELSE "path")
<1>1. own \in Entries /\ Unvisited(own)
  BY EntryIs
<1>2. Cur \in Entries
  BY DEF Cur, Last, Levels
<1>3. CASE build.cderr
  <2>1. PICK d : d = Entry(name, Cur.acc)
    OBVIOUS
  <2>2. d \in Entries /\ Unvisited(d)
    BY <1>2, <2>1, EntryIs DEF Entries
  <2>3. e = [d EXCEPT !.info = "NS", !.err = TRUE]
    BY <1>3, <2>1 DEF Stated
  <2> QED
    BY <2>2, <2>3 DEF Entries, Infos, Unvisited, NewTo
<1>4. CASE ~build.cderr /\ build.type = "NAMES"
  <2>1. e = [own EXCEPT !.info = "NSOK"]
    BY <1>4 DEF Stated
  <2> HIDE DEF own
  <2> QED
    BY <1>1, <2>1 DEF Entries, Infos, Unvisited, NewTo
<1>5. CASE ~build.cderr /\ build.type # "NAMES"
  <2>1. e = fts_stat(levels, Append(Path(levels), name), own, FALSE)
    BY <1>5 DEF Stated
  <2> HIDE DEF own
  <2>2. e \in Entries /\ Same(e, own) /\ (e.info = "D" => e.ino \notin Inos(levels))
    BY <1>1, <2>1, StatIs
  <2> QED
    BY <1>1, <2>2, NewToAll DEF Same, Unvisited
<1> QED
  BY <1>3, <1>4, <1>5

LEMMA ListingIs ==
    ASSUME NEW d PROVE Listing(d) \in Seq(Name)
<1> DEFINE N == {n \in Name : world[d][n] # None}
<1>1. IsFiniteSet(N)
  BY FtsAssumption, FS_Subset
<1>2. Cardinality(N) \in Nat /\ ExistsBijection(1 .. Cardinality(N), N)
  BY <1>1, FS_CardinalityType
<1>3. \E f \in [1 .. Cardinality(N) -> N] : IsInjective(f)
  BY <1>2 DEF ExistsBijection, Bijection, Injection
<1>4. Listing(d) \in [1 .. Cardinality(N) -> N]
  BY <1>3, Zenon DEF Listing, SetToSeq
<1>5. PICK n : n = Cardinality(N)
  OBVIOUS
<1>6. N \subseteq Name
  OBVIOUS
<1> HIDE DEF N
<1> QED
  BY <1>2, <1>4, <1>5, <1>6

-----------------------------------------------------------------------------
(* Where the walk is.                                                      *)

Lower == {ss \in Nat \X Nat : ss[1] < ss[2]}

LEMMA Least ==
    ASSUME NEW T, T \subseteq Nat, T # {}
    PROVE  \E x \in T : \A y \in T : x <= y
<1>1. IsWellFoundedOn(Lower, Nat)
  BY NatLessThanWellFounded, Zenon DEF OpToRel, Lower
<1>2. PICK x \in T : \A y \in T : ~(<<y, x>> \in Lower)
  BY <1>1, WFMin
<1>3. \A y \in T : ~(y < x)
  BY <1>2 DEF Lower
<1> QED
  BY <1>3

LEMMA Largest ==
    ASSUME NEW T, T \subseteq Nat, T # {}, NEW n \in Nat, \A x \in T : x <= n
    PROVE  \E x \in T : \A y \in T : y <= x
<1> DEFINE F == {n - x : x \in T}
<1>1. F \subseteq Nat
  OBVIOUS
<1>2. F # {}
  <2>1. PICK x : x \in T
    OBVIOUS
  <2>2. n - x \in F
    BY <2>1
  <2> QED
    BY <2>2
<1>3. PICK m \in F : \A y \in F : m <= y
  BY <1>1, <1>2, Least
<1>4. PICK x \in T : m = n - x
  OBVIOUS
<1>5. \A y \in T : n - x <= n - y
  BY <1>3, <1>4
<1> QED
  BY <1>5

LEMMA WentIs ==
    ASSUME NEW k \in Nat, Went(k) # {}
    PROVE  Max(Went(k)) \in Went(k) /\ \A j \in Went(k) : j <= Max(Went(k))
<1>1. Went(k) \subseteq Nat /\ \A j \in Went(k) : j <= k
  BY DEF Went
<1>2. PICK W : W = Went(k)
  OBVIOUS
<1>3. \E x \in W : \A y \in W : y <= x
  BY ONLY k \in Nat, W = Went(k), Went(k) # {}, <1>1, Largest
<1>4. \E x \in W : \A y \in W : x >= y
  BY <1>1, <1>2, <1>3
<1>5. Max(W) \in W /\ \A y \in W : Max(W) >= y
  BY <1>4, Zenon DEF Max
<1> QED
  BY <1>1, <1>2, <1>5

LEMMA WhereSame ==
    ASSUME NEW k \in Nat, \A j \in 1 .. k - 1 : levels'[j][1].in = levels[j][1].in
                                              /\ levels'[j][1].ino = levels[j][1].ino
    PROVE  Where(k)' = Where(k)
<1>1. Went(k)' = Went(k)
  BY DEF Went
<1>2. CASE Went(k) = {}
  BY <1>1, <1>2 DEF Where, Start
<1>3. CASE Went(k) # {}
  <2>1. PICK m : m = Max(Went(k))
    OBVIOUS
  <2>2. m \in 1 .. k - 1
    BY <1>3, <2>1, WentIs DEF Went
  <2>3. Where(k) = levels[m][1].ino /\ Where(k)' = levels'[m][1].ino
    BY <1>1, <1>3, <2>1, Zenon DEF Where
  <2> QED
    BY <2>2, <2>3
<1> QED
  BY <1>2, <1>3

LEMMA WhereIn ==
    ASSUME NEW k \in Nat, k > 1, levels[k - 1][1].in
    PROVE  Where(k) = levels[k - 1][1].ino
<1>1. k - 1 \in Went(k) /\ \A j \in Went(k) : j \in Nat /\ j <= k - 1
  BY DEF Went
<1>2. Max(Went(k)) = k - 1
  BY <1>1, WentIs
<1> QED
  BY <1>1, <1>2, Zenon DEF Where

LEMMA WhereOut ==
    ASSUME NEW k \in Nat, k > 1, ~levels[k - 1][1].in
    PROVE  Where(k) = Where(k - 1)
<1>1. Went(k) = Went(k - 1)
  BY DEF Went
<1> QED
  BY <1>1, Zenon DEF Where

LEMMA WhereLast ==
    \A k \in Nat : k > 1 =>
        Where(k) = IF levels[k - 1][1].in THEN levels[k - 1][1].ino ELSE Where(k - 1)
  BY WhereIn, WhereOut

LEMMA WhereLastNext ==
    (\A k \in Nat : k > 1 =>
        Where(k) = IF levels[k - 1][1].in THEN levels[k - 1][1].ino ELSE Where(k - 1))'
  BY WhereLast, PTL

LEMMA WhereFirst == Where(1) = Start
<1>1. Went(1) = {}
  BY DEF Went
<1> QED
  BY <1>1, Zenon DEF Where

-----------------------------------------------------------------------------
(* The levels after a step.                                                *)

\* The first n levels stay, and one more is all there is: the current entry was
\* replaced, or the walk went on to the next or up to the parent.
Ends(n) ==
    /\ levels' \in Seq(Levels) /\ Len(levels') = n + 1 /\ options' = options
    /\ \A j \in 1 .. n : levels'[j] = levels[j]
    /\ ~levels'[n + 1][1].in
    /\ \A i \in 2 .. Len(levels'[n + 1]) : Unvisited(levels'[n + 1][i])

LEMMA EndsOK ==
    ASSUME levels \in Seq(Levels), LevelsOK, NeverIn, NEW n \in Nat, n < Len(levels), Ends(n)
    PROVE  LevelsOK' /\ NeverIn'
<1>1. PICK m : m = n + 1
  OBVIOUS
<1>2. Len(levels') = m /\ m \in Nat /\ \A k \in 1 .. m : k \in 1 .. n \/ k = m
  BY <1>1 DEF Ends
<1>3. \A k \in 1 .. n : levels'[k] = levels[k] /\ k \in 1 .. Len(levels) - 1 /\ k \in 1 .. Len(levels)
  BY DEF Ends
<1>4. Chdir' <=> Chdir
  BY DEF Ends, Chdir
<1>5. \A k \in 1 .. m - 1 : k \in 1 .. n
  BY <1>1
<1>6. ~levels'[m][1].in /\ \A i \in 2 .. Len(levels'[m]) : Unvisited(levels'[m][i])
  BY <1>1 DEF Ends
<1>7. LevelsOK'
  <2>1. ASSUME NEW k \in 1 .. m, NEW i \in 2 .. Len(levels'[k]) PROVE Unvisited(levels'[k][i])
    BY <1>2, <1>3, <1>6, <2>1 DEF LevelsOK
  <2>2. ASSUME NEW k \in 1 .. m - 1
        PROVE  levels'[k][1].info = "D" /\ (Chdir => levels'[k][1].in \/ levels'[k][1].dont)
    BY <1>3, <1>5, <2>2 DEF LevelsOK
  <2> QED
    BY <1>2, <1>4, <1>6, <2>1, <2>2 DEF LevelsOK, Unvisited
<1>8. NeverIn'
  BY <1>2, <1>3, <1>4, <1>6 DEF NeverIn
<1> QED
  BY <1>7, <1>8

LEMMA EndsWhere ==
    ASSUME NEW n \in Nat, Ends(n)
    PROVE  \A k \in 1 .. n + 1 : Where(k)' = Where(k)
<1> SUFFICES ASSUME NEW k \in 1 .. n + 1 PROVE Where(k)' = Where(k)
  OBVIOUS
<1>1. k \in Nat /\ \A j \in 1 .. k - 1 : j \in 1 .. n
  OBVIOUS
<1> QED
  BY <1>1, WhereSame DEF Ends

LEMMA EndsOnTrack ==
    ASSUME levels \in Seq(Levels), NEW n \in Nat, n < Len(levels), Ends(n), SymsOK, NoGap,
           levels'[n + 1][1].sym \in {None, Closed, Where(n + 1)}
    PROVE  SymsOK' /\ NoGap'
<1>1. PICK m : m = n + 1
  OBVIOUS
<1>2. Len(levels') = m /\ m \in Nat /\ \A k \in 1 .. m : k \in 1 .. n \/ k = m
  BY <1>1 DEF Ends
<1>3. \A k \in 1 .. n : levels'[k] = levels[k] /\ k \in 1 .. Len(levels)
  BY DEF Ends
<1>4. \A k \in 1 .. m : Where(k)' = Where(k)
  BY <1>1, EndsWhere
<1>5. SymsOK'
  BY <1>1, <1>2, <1>3, <1>4 DEF SymsOK, None, Closed
<1>6. \A k \in 2 .. m - 1 : k \in 2 .. Len(levels) - 1 /\ k \in 1 .. n /\ k - 1 \in 1 .. n
  BY <1>1
<1>7. NoGap'
  BY <1>2, <1>3, <1>6 DEF NoGap
<1> QED
  BY <1>5, <1>7

LEMMA EndsNew ==
    ASSUME levels \in Seq(Levels), NEW n \in Nat, n < Len(levels), Ends(n), LevelsNew,
           \A i \in 1 .. Len(levels'[n + 1]) : NewTo(levels'[n + 1][i], n)
    PROVE  LevelsNew'
<1>1. PICK m : m = n + 1
  OBVIOUS
<1>2. Len(levels') = m /\ m \in Nat /\ \A k \in 1 .. m : k \in 1 .. n \/ k = m
  BY <1>1 DEF Ends
<1>3. \A k \in 1 .. n : levels'[k] = levels[k] /\ k \in 1 .. Len(levels)
  BY DEF Ends
<1>4. ASSUME NEW e, NEW k \in 1 .. m, NewTo(e, k - 1) PROVE NewTo(e, k - 1)'
  <2>1. \A j \in 1 .. k - 1 : j \in 1 .. n
    BY <1>1
  <2> QED
    BY <1>3, <1>4, <2>1 DEF NewTo
<1>5. ASSUME NEW k \in 1 .. m, NEW i \in 1 .. Len(levels'[k]) PROVE NewTo(levels'[k][i], k - 1)
  <2>1. CASE k = m
    BY <1>1, <2>1
  <2>2. CASE k \in 1 .. n
    BY <1>3, <2>2 DEF LevelsNew
  <2> QED
    BY <1>2, <2>1, <2>2
<1> QED
  BY <1>2, <1>4, <1>5 DEF LevelsNew

LEMMA ParentIs ==
    ASSUME levels \in Seq(Levels), NEW n, n = Len(levels), n > 1
    PROVE  Parent = levels[n - 1][1]
<1>1. PICK a : a = Above
  OBVIOUS
<1>2. Len(a) = Len(levels) - 1 /\ a \in Seq(Levels) /\ \A j \in 1 .. Len(a) : a[j] = levels[j]
  BY <1>1, FrontIs DEF Above
<1>3. Parent = a[Len(a)][1]
  BY <1>1 DEF Parent, Last
<1> QED
  BY <1>2, <1>3

\* The first entry of the last level of s becomes e.
Replace(s, e) == [s EXCEPT ![Len(s)] = <<e>> \o Tail(@)]

LEMMA ReplaceIs ==
    ASSUME NEW s \in Seq(Levels), s # <<>>, NEW e \in Entries,
           NEW l, l = Replace(s, e), NEW n, n = Len(s)
    PROVE  /\ l \in Seq(Levels) /\ Len(l) = n
           /\ \A j \in 1 .. n - 1 : l[j] = s[j]
           /\ l[n][1] = e /\ Len(l[n]) = Len(s[n])
           /\ \A i \in 2 .. Len(s[n]) : l[n][i] = s[n][i]
<1>1. PICK u : u = s[n]
  OBVIOUS
<1>2. n \in Nat /\ n >= 1 /\ u \in Seq(Entries) /\ u # <<>>
  BY <1>1 DEF Levels
<1>3. PICK t : t = Tail(u)
  OBVIOUS
<1>4. t \in Seq(Entries) /\ Len(t) = Len(u) - 1 /\ \A i \in 1 .. Len(t) : t[i] = u[i + 1]
  BY <1>2, <1>3, TailIs
<1>5. PICK v : v = Cat(<<e>>, t)
  OBVIOUS
<1>6. /\ v \in Seq(Entries) /\ v # <<>> /\ Len(v) = Len(t) + 1 /\ v[1] = e
      /\ \A i \in 2 .. Len(v) : i - 1 \in 1 .. Len(t) /\ v[i] = t[i - 1]
  BY ONLY <1>4, <1>5, e \in Entries, ConsIs
<1>7. Len(v) = Len(u) /\ \A i \in 2 .. Len(u) : v[i] = u[i]
  BY <1>2, <1>4, <1>6
<1>8. l = [s EXCEPT ![n] = v]
  BY <1>1, <1>3, <1>5, Zenon DEF Cat, Replace
<1>9. v \in Levels
  BY <1>6 DEF Levels
<1>10. l \in Seq(Levels) /\ Len(l) = n /\ l[n] = v /\ \A j \in 1 .. n - 1 : l[j] = s[j]
  BY ONLY <1>2, <1>8, <1>9, s \in Seq(Levels), n = Len(s)
<1> QED
  BY <1>1, <1>6, <1>7, <1>10

LEMMA SetCurIs ==
    ASSUME levels \in Seq(Levels), levels # <<>>, NEW e \in Entries, NEW l, l = SetCur(e),
           NEW n, n = Len(levels)
    PROVE  /\ l \in Seq(Levels) /\ Len(l) = n
           /\ \A j \in 1 .. n - 1 : l[j] = levels[j]
           /\ l[n][1] = e /\ Len(l[n]) = Len(levels[n])
           /\ \A i \in 2 .. Len(levels[n]) : l[n][i] = levels[n][i]
<1>1. l = Replace(levels, e)
  BY Zenon DEF SetCur, Replace
<1> QED
  BY ONLY <1>1, levels \in Seq(Levels), levels # <<>>, e \in Entries, n = Len(levels), ReplaceIs, SMTT(60)

\* The current entry becomes e, and the walk goes down to the list c.
Deepens(e, c) ==
    /\ levels # <<>> /\ e \in Entries /\ c \in Levels /\ options' = options
    /\ levels' = Append(SetCur(e), c)
    /\ e.info = "D" /\ e.ino = Cur.ino
    /\ Chdir => e.in \/ e.dont
    /\ ~Chdir => ~e.in
    /\ \A i \in 1 .. Len(c) : Unvisited(c[i])

LEMMA DeepensIs ==
    ASSUME levels \in Seq(Levels), NEW e, NEW c, Deepens(e, c), NEW n, n = Len(levels)
    PROVE  /\ n \in Nat /\ n >= 1 /\ n - 1 \in Nat
           /\ levels' \in Seq(Levels) /\ Len(levels') = n + 1 /\ levels'[n + 1] = c
           /\ \A j \in 1 .. n - 1 : levels'[j] = levels[j]
           /\ levels'[n][1] = e /\ Len(levels'[n]) = Len(levels[n])
           /\ \A i \in 2 .. Len(levels[n]) : levels'[n][i] = levels[n][i]
           /\ e.ino = levels[n][1].ino /\ (Chdir' <=> Chdir)
           /\ c[1].sym = None /\ ~c[1].in
<1>1. PICK l : l = SetCur(e)
  OBVIOUS
<1>2. /\ l \in Seq(Levels) /\ Len(l) = n /\ \A j \in 1 .. n - 1 : l[j] = levels[j]
      /\ l[n][1] = e /\ Len(l[n]) = Len(levels[n])
      /\ \A i \in 2 .. Len(levels[n]) : l[n][i] = levels[n][i]
  <2>1. levels # <<>> /\ e \in Entries
    BY DEF Deepens
  <2> QED
    BY <1>1, <2>1, SetCurIs
<1>3. PICK m : m = levels'
  OBVIOUS
<1>4. c \in Levels /\ m = Append(l, c)
  BY <1>1, <1>3 DEF Deepens
<1>5. m \in Seq(Levels) /\ Len(m) = n + 1 /\ m[Len(m)] = c /\ \A i \in 1 .. n : m[i] = l[i]
  BY <1>2, <1>4, PushIs
<1>6. n \in Nat /\ n >= 1
  BY DEF Deepens
<1>7. Unvisited(c[1])
  BY <1>4 DEF Deepens, Levels
<1>8. e.ino = levels[n][1].ino /\ (Chdir' <=> Chdir)
  BY DEF Deepens, Cur, Last, Chdir
<1>9. levels' \in Seq(Levels) /\ Len(levels') = n + 1 /\ levels'[n + 1] = c
  BY <1>3, <1>5
<1>10. \A i \in 1 .. n : levels'[i] = l[i]
  BY <1>3, <1>5
<1>11. n - 1 \in Nat /\ n \in 1 .. n /\ \A j \in 1 .. n - 1 : j \in 1 .. n
  BY <1>6
<1>12. levels'[n] = l[n] /\ \A j \in 1 .. n - 1 : levels'[j] = levels[j]
  BY <1>2, <1>10, <1>11
<1> QED
  BY <1>2, <1>6, <1>7, <1>8, <1>9, <1>11, <1>12 DEF Unvisited

LEMMA DeepensOK ==
    ASSUME levels \in Seq(Levels), LevelsOK, NeverIn, NEW e, NEW c, Deepens(e, c)
    PROVE  LevelsOK' /\ NeverIn'
<1>1. PICK n : n = Len(levels)
  OBVIOUS
<1>2. PICK m : m = n + 1
  OBVIOUS
<1>3. /\ n \in Nat /\ n >= 1 /\ Len(levels') = m /\ levels'[m] = c
      /\ \A j \in 1 .. n - 1 : levels'[j] = levels[j]
      /\ levels'[n][1] = e /\ Len(levels'[n]) = Len(levels[n])
      /\ \A i \in 2 .. Len(levels[n]) : levels'[n][i] = levels[n][i]
      /\ (Chdir' <=> Chdir) /\ ~c[1].in
  BY <1>1, <1>2, DeepensIs
<1>4. \A k \in 1 .. m : k \in 1 .. n - 1 \/ k = n \/ k = m
  BY <1>2, <1>3
<1>5. \A k \in 1 .. m - 1 : k \in 1 .. n - 1 \/ k = n
  BY <1>2, <1>3
<1>6. /\ \A i \in 1 .. Len(c) : Unvisited(c[i])
      /\ e.info = "D" /\ (Chdir => e.in \/ e.dont) /\ (~Chdir => ~e.in)
  BY DEF Deepens
<1>7. ASSUME NEW k \in 1 .. m, NEW i \in 2 .. Len(levels'[k]) PROVE Unvisited(levels'[k][i])
  <2>0. \A h \in 1 .. n : \A j \in 2 .. Len(levels[h]) : Unvisited(levels[h][j])
    BY <1>1 DEF LevelsOK
  <2>1. CASE k \in 1 .. n - 1
    <3>1. k \in 1 .. n /\ levels'[k] = levels[k]
      BY <1>3, <2>1
    <3> QED
      BY <1>7, <2>0, <3>1
  <2>2. CASE k = n
    <3>1. k \in 1 .. n /\ i \in 2 .. Len(levels[n]) /\ levels'[n][i] = levels[n][i]
      BY <1>3, <1>7, <2>2
    <3> QED
      BY <2>0, <2>2, <3>1
  <2>3. CASE k = m
    BY <1>3, <1>6, <2>3
  <2> QED
    BY <1>4, <2>1, <2>2, <2>3
<1>8. ASSUME NEW k \in 1 .. m - 1
      PROVE  levels'[k][1].info = "D" /\ (Chdir => levels'[k][1].in \/ levels'[k][1].dont)
  <2>1. CASE k \in 1 .. n - 1
    BY <1>1, <1>3, <2>1 DEF LevelsOK
  <2>2. CASE k = n
    BY <1>3, <1>6, <2>2
  <2> QED
    BY <1>5, <2>1, <2>2
<1>9. LevelsOK'
  BY <1>3, <1>7, <1>8 DEF LevelsOK, Unvisited
<1>10. NeverIn'
  <2>1. ASSUME ~Chdir, NEW k \in 1 .. m PROVE ~levels'[k][1].in
    BY <1>1, <1>3, <1>4, <1>6, <2>1 DEF NeverIn
  <2> QED
    BY <1>3, <2>1 DEF NeverIn
<1> QED
  BY <1>9, <1>10

LEMMA DeepensWhere ==
    ASSUME levels \in Seq(Levels), NEW e, NEW c, Deepens(e, c), NEW n, n = Len(levels)
    PROVE  /\ \A k \in 1 .. n : Where(k)' = Where(k)
           /\ Where(n + 1)' = IF e.in THEN e.ino ELSE Where(n)
<1>1. n = Len(levels)
  OBVIOUS
<1>2. /\ n \in Nat /\ n >= 1
      /\ \A j \in 1 .. n - 1 : levels'[j] = levels[j]
      /\ levels'[n][1] = e
  BY <1>1, DeepensIs
<1>3. ASSUME NEW k \in 1 .. n PROVE Where(k)' = Where(k)
  <2>1. k \in Nat /\ \A j \in 1 .. k - 1 : j \in 1 .. n - 1
    BY <1>2
  <2> QED
    BY <1>2, <2>1, WhereSame
<1>4. PICK m : m = n + 1
  OBVIOUS
<1>5. m \in Nat /\ m > 1 /\ m - 1 = n
  BY <1>2, <1>4
<1>6. Where(m)' = IF levels'[m - 1][1].in THEN levels'[m - 1][1].ino ELSE Where(m - 1)'
  BY <1>5, WhereLastNext
<1> QED
  BY <1>1, <1>2, <1>3, <1>4, <1>5, <1>6

LEMMA DeepensOnTrack ==
    ASSUME levels \in Seq(Levels), NEW e, NEW c, Deepens(e, c), SymsOK, NoGap,
           e.sym = Cur.sym, e.in /\ Len(levels) > 1 => Parent.in
    PROVE  SymsOK' /\ NoGap'
<1>1. PICK n : n = Len(levels)
  OBVIOUS
<1>2. PICK m : m = n + 1
  OBVIOUS
<1>3. /\ n \in Nat /\ n >= 1 /\ Len(levels') = m /\ levels'[m] = c
      /\ \A j \in 1 .. n - 1 : levels'[j] = levels[j]
      /\ levels'[n][1] = e
      /\ c[1].sym = None
  BY <1>1, <1>2, DeepensIs
<1>4. \A k \in 1 .. m : k \in 1 .. n - 1 \/ k = n \/ k = m
  BY <1>2, <1>3
<1>5. \A k \in 1 .. n : Where(k)' = Where(k)
  BY <1>1, DeepensWhere
<1>6. e.sym = levels[n][1].sym
  BY <1>1, <1>3 DEF Cur, Last
<1>7. \A k \in 1 .. n : levels[k][1].sym \in {None, Closed, Where(k)}
  BY <1>1 DEF SymsOK
<1>8. ASSUME NEW k \in 1 .. m PROVE levels'[k][1].sym \in {None, Closed, Where(k)'}
  <2>1. CASE k \in 1 .. n - 1
    BY <1>3, <1>5, <1>7, <2>1
  <2>2. CASE k = n
    BY <1>3, <1>5, <1>6, <1>7, <2>2
  <2>3. CASE k = m
    BY <1>3, <2>3
  <2> QED
    BY <1>4, <2>1, <2>2, <2>3
<1>9. SymsOK'
  BY <1>3, <1>8 DEF SymsOK, None, Closed
<1>10. n > 1 => Parent = levels[n - 1][1]
  BY <1>1, <1>3, ParentIs
<1>11. ASSUME NEW k \in 2 .. m - 1, levels'[k][1].in PROVE levels'[k - 1][1].in
  <2>1. CASE k = n
    <3>1. n > 1 /\ Parent.in /\ n - 1 \in 1 .. n - 1
      BY <1>1, <1>3, <1>11, <2>1
    <3> QED
      BY <1>3, <1>10, <2>1, <3>1
  <2>2. CASE k # n
    <3>1. k \in 2 .. n - 1 /\ k \in 1 .. n - 1 /\ k - 1 \in 1 .. n - 1
      BY <1>2, <1>3, <2>2
    <3> QED
      BY <1>1, <1>3, <1>11, <3>1 DEF NoGap
  <2> QED
    BY <2>1, <2>2
<1>12. NoGap'
  BY <1>3, <1>11 DEF NoGap
<1> QED
  BY <1>9, <1>12

LEMMA DeepensNew ==
    ASSUME levels \in Seq(Levels), NEW e, NEW c, Deepens(e, c), LevelsNew, Cur.info = "D",
           \A i \in 1 .. Len(c) : NewTo(c[i], Len(levels))
    PROVE  LevelsNew'
<1>1. PICK n : n = Len(levels)
  OBVIOUS
<1>2. PICK m : m = n + 1
  OBVIOUS
<1>3. /\ n \in Nat /\ n >= 1 /\ Len(levels') = m /\ levels'[m] = c
      /\ \A j \in 1 .. n - 1 : levels'[j] = levels[j]
      /\ levels'[n][1] = e /\ Len(levels'[n]) = Len(levels[n])
      /\ \A i \in 2 .. Len(levels[n]) : levels'[n][i] = levels[n][i]
      /\ e.ino = levels[n][1].ino
  BY <1>1, <1>2, DeepensIs
<1>4. \A k \in 1 .. m : k \in 1 .. n - 1 \/ k = n \/ k = m
  BY <1>2, <1>3
<1>5. \A j \in 1 .. n : levels'[j][1].ino = levels[j][1].ino
  BY <1>3
<1>6. ASSUME NEW d, NEW k \in 1 .. m, NewTo(d, k - 1) PROVE NewTo(d, k - 1)'
  <2>1. \A j \in 1 .. k - 1 : j \in 1 .. n
    BY <1>2, <1>3
  <2> QED
    BY <1>5, <1>6, <2>1 DEF NewTo
<1>7. \A k \in 1 .. n : \A i \in 1 .. Len(levels[k]) : NewTo(levels[k][i], k - 1)
  BY <1>1 DEF LevelsNew
<1>8. ASSUME NEW k \in 1 .. m, NEW i \in 1 .. Len(levels'[k]) PROVE NewTo(levels'[k][i], k - 1)
  <2>1. CASE k \in 1 .. n - 1
    BY <1>3, <1>7, <2>1
  <2>2. CASE k = n /\ i # 1
    <3>1. i \in 2 .. Len(levels[n]) /\ i \in 1 .. Len(levels[n])
      BY <1>3, <2>2
    <3>2. levels'[k][i] = levels[n][i] /\ NewTo(levels[n][i], n - 1)
      BY <1>3, <1>7, <2>2, <3>1
    <3> QED
      BY <2>2, <3>2
  <2>3. CASE k = n /\ i = 1
    <3>1. levels[n][1].info = "D" /\ NewTo(levels[n][1], n - 1)
      BY <1>1, <1>3, <1>7, <2>3 DEF Cur, Last
    <3>2. NewTo(e, n - 1)
      BY <1>3, <3>1 DEF NewTo
    <3> QED
      BY <1>3, <2>3, <3>2
  <2>4. CASE k = m
    BY <1>1, <1>2, <1>3, <2>4
  <2> QED
    BY <1>4, <2>1, <2>2, <2>3, <2>4
<1> QED
  BY <1>3, <1>6, <1>8 DEF LevelsNew

-----------------------------------------------------------------------------
(* Steps of fts_read.                                                      *)

LEMMA CurNext ==
    ASSUME NEW n, levels' # <<>>, Len(levels') = n
    PROVE  Cur' = levels'[n][1]
  BY DEF Cur, Last

\* The walk stays at level n + 1 or comes up to it.
LEMMA EndStep ==
    ASSUME IInv, build' \in {Idle} \cup Builds, build' # Idle => ~stop',
           stop' \in BOOLEAN, stop => stop',
           NEW n \in Nat, n < Len(levels), Ends(n),
           cwd' \in Dir, astray' \in BOOLEAN, astray => astray',
           stale' \in BOOLEAN, stale => stale',
           ~Chdir => cwd' = Start,
           Following /\ ~astray' /\ ~stop' =>
               levels'[n + 1][1].sym \in {None, Closed, Where(n + 1)} /\ InPlace',
           ~stale' => \A i \in 1 .. Len(levels'[n + 1]) : NewTo(levels'[n + 1][i], n),
           child' \in Seq(Entries), ChildOK', ~stale' => ChildNew',
           BuildOK', ~stale' => BuildNew'
    PROVE  IInv'
<1>1. PICK m : m = n + 1
  OBVIOUS
<1>2. /\ levels \in Seq(Levels) /\ stop \in BOOLEAN
      /\ LevelsOK /\ NeverIn /\ OnTrack /\ Distinct
  BY DEF IInv, TypeCorrect
<1>3. /\ levels' \in Seq(Levels) /\ levels' # <<>> /\ Len(levels') = m /\ options' = options
      /\ \A j \in 1 .. n : levels'[j] = levels[j]
  BY <1>1 DEF Ends
<1>4. TypeCorrect'
  <2>1. build' \in {Idle} \cup Builds /\ (build # Idle => levels # <<>> /\ ~stop)'
    BY <1>3 DEF Idle
  <2>2. ({Idle} \cup Builds)' = {Idle} \cup Builds
    BY DEF Idle, Builds, Entries, Infos, Instrs, None, Closed
  <2> QED
    BY <1>3, <2>1, <2>2, Zenon DEF TypeCorrect
<1>5. LevelsOK' /\ NeverIn'
  BY <1>2, EndsOK
<1>6. AtStart'
  BY <1>3 DEF AtStart, Chdir, Start
<1>7. OnTrack'
  <2>1. ASSUME Following' PROVE SymsOK' /\ NoGap' /\ InPlace'
    <3>1. Following /\ ~astray' /\ ~stop'
      BY <1>2, <1>3, <2>1 DEF Following, Chdir
    <3>2. SymsOK' /\ NoGap'
      BY <1>2, <3>1, EndsOnTrack DEF OnTrack
    <3> QED
      BY <3>1, <3>2
  <2> QED
    BY <2>1 DEF OnTrack
<1>8. Distinct'
  <2>1. ASSUME ~stale' PROVE LevelsNew'
    <3>1. LevelsNew
      BY <1>2, <2>1 DEF Distinct
    <3> QED
      BY <1>2, <2>1, <3>1, EndsNew
  <2> QED
    BY <2>1 DEF Distinct
<1> QED
  BY <1>4, <1>5, <1>6, <1>7, <1>8 DEF IInv

\* Where the walk is, when it is not reading a directory.
LEMMA IdlePlace ==
    ASSUME build' = Idle, NEW n \in Nat, Ends(n), cwd' = Where(n + 1)
    PROVE  InPlace'
<1>1. PICK m : m = n + 1
  OBVIOUS
<1>2. Len(levels') = m /\ Where(m)' = Where(m) /\ cwd' = Where(m)
  <2>1. Len(levels') = m
    BY <1>1 DEF Ends
  <2>2. \A k \in 1 .. n + 1 : Where(k)' = Where(k)
    BY EndsWhere
  <2>3. m \in 1 .. n + 1
    BY <1>1
  <2>4. Where(m)' = Where(m)
    BY ONLY <2>2, <2>3, Zenon
  <2>5. cwd' = Where(m)
    BY <1>1
  <2> QED
    BY <2>1, <2>4, <2>5
<1> QED
  BY <1>2 DEF InPlace, Gone, Idle

LEMMA IdleBuild == ASSUME build' = Idle PROVE BuildOK' /\ BuildNew'
  BY DEF BuildOK, BuildNew, Idle

\* The children that fts_children found are forgotten, or the current entry stays.
LEMMA ChildKept ==
    ASSUME IInv, stale' \in BOOLEAN, stale => stale', child' = child \/ child' = <<>>,
           levels' \in Seq(Levels), levels' # <<>>, NEW n, Len(levels') = n,
           ~stale' /\ child' # <<>> =>
               /\ n = Len(levels) /\ levels'[n][1].info = "D"
               /\ \A j \in 1 .. n : levels'[j][1].ino = levels[j][1].ino
    PROVE  child' \in Seq(Entries) /\ ChildOK' /\ (~stale' => ChildNew')
<1>1. CASE child' = <<>>
  <2>1. 1 .. Len(child') = {} /\ <<>> \in Seq(Entries)
    BY <1>1
  <2> QED
    BY <1>1, <2>1 DEF ChildOK, ChildNew
<1>2. CASE child' = child /\ child # <<>>
  <2>1. child' \in Seq(Entries) /\ ChildOK'
    BY <1>2 DEF IInv, TypeCorrect, ChildOK
  <2>2. ASSUME ~stale' PROVE ChildNew'
    <3>1. ChildNew
      BY <2>2 DEF IInv, Distinct
    <3>2. /\ n = Len(levels) /\ levels'[n][1].info = "D"
          /\ \A j \in 1 .. n : levels'[j][1].ino = levels[j][1].ino
      BY <1>2, <2>2
    <3>3. Cur'.info = "D"
      BY <3>2, CurNext
    <3>4. ASSUME NEW i \in 1 .. Len(child'), child'[i].info = "D", NEW j \in 1 .. n
          PROVE  levels'[j][1].ino # child'[i].ino
      BY <1>2, <3>1, <3>2, <3>4 DEF ChildNew, NewTo
    <3> QED
      BY <3>3, <3>4 DEF ChildNew, NewTo
  <2> QED
    BY <2>1, <2>2
<1> QED
  BY <1>1, <1>2

\* The walk goes down.
LEMMA DeepStep ==
    ASSUME IInv, build' = Idle, stop' = stop, NEW e, NEW c, Deepens(e, c),
           cwd' \in Dir, astray' \in BOOLEAN, astray => astray', stale' = stale,
           child' = <<>>, Cur.info = "D", e.sym = Cur.sym, ~Chdir => cwd' = Start,
           Following /\ ~astray' =>
               /\ e.in /\ Len(levels) > 1 => Parent.in
               /\ cwd' = IF e.in THEN Cur.ino ELSE Where(Len(levels)),
           ~stale => \A i \in 1 .. Len(c) : NewTo(c[i], Len(levels))
    PROVE  IInv'
<1>1. PICK n : n = Len(levels)
  OBVIOUS
<1>2. PICK m : m = n + 1
  OBVIOUS
<1>3. /\ levels \in Seq(Levels) /\ stop \in BOOLEAN /\ stale \in BOOLEAN
      /\ LevelsOK /\ NeverIn /\ OnTrack /\ Distinct
  BY DEF IInv, TypeCorrect
<1>4. /\ levels' \in Seq(Levels) /\ Len(levels') = m /\ levels' # <<>> /\ n >= 1 /\ n \in Nat
      /\ (Chdir' <=> Chdir)
  BY <1>1, <1>2, <1>3, DeepensIs
<1>5. TypeCorrect'
  <2>1. build' \in {Idle} /\ (build # Idle)' = FALSE /\ <<>> \in Seq(Entries)
    BY DEF Idle
  <2> QED
    BY <1>3, <1>4, <2>1, Zenon DEF TypeCorrect
<1>6. LevelsOK' /\ NeverIn'
  BY <1>3, DeepensOK
<1>7. BuildOK' /\ AtStart' /\ BuildNew' /\ ChildOK' /\ ChildNew'
  <2>1. 1 .. Len(child') = {}
    OBVIOUS
  <2> QED
    BY <1>4, <2>1 DEF BuildOK, AtStart, BuildNew, Idle, Start, ChildOK, ChildNew
<1>8. OnTrack'
  <2>1. ASSUME Following' PROVE SymsOK' /\ NoGap' /\ InPlace'
    <3>1. Following /\ ~astray'
      BY <1>3, <1>4, <2>1 DEF Following, Deepens
    <3>2. SymsOK' /\ NoGap'
      BY <1>3, <3>1, DeepensOnTrack DEF OnTrack
    <3>3. Where(m)' = IF e.in THEN e.ino ELSE Where(n)
      BY <1>1, <1>2, <1>3, DeepensWhere
    <3>4. cwd' = IF e.in THEN e.ino ELSE Where(n)
      BY <1>1, <3>1 DEF Deepens
    <3>5. InPlace'
      BY <1>4, <3>3, <3>4 DEF InPlace, Gone, Idle
    <3> QED
      BY <3>2, <3>5
  <2> QED
    BY <2>1 DEF OnTrack
<1>9. Distinct'
  <2>1. ASSUME ~stale' PROVE LevelsNew'
    <3>1. LevelsNew
      BY <1>3, <2>1 DEF Distinct
    <3> QED
      BY <1>3, <2>1, <3>1, DeepensNew
  <2> QED
    BY <1>7, <2>1 DEF Distinct
<1> QED
  BY <1>5, <1>6, <1>7, <1>8, <1>9 DEF IInv

\* The current entry becomes e.
LEMMA RevisitIs ==
    ASSUME IInv, levels # <<>>, NEW e \in Entries, ~e.in, levels' = SetCur(e),
           options' = options, NEW n, n = Len(levels)
    PROVE  /\ n - 1 \in Nat /\ n - 1 < n /\ n - 1 + 1 = n /\ n >= 1 /\ Ends(n - 1)
           /\ levels' \in Seq(Levels) /\ levels' # <<>> /\ Len(levels') = n
           /\ levels'[n][1] = e /\ levels[n][1] = Cur /\ Cur' = e
           /\ Len(levels'[n]) = Len(levels[n])
           /\ \A j \in 1 .. n - 1 : levels'[j] = levels[j]
           /\ \A i \in 2 .. Len(levels[n]) : levels'[n][i] = levels[n][i]
<1>1. levels \in Seq(Levels) /\ LevelsOK
  BY DEF IInv, TypeCorrect
<1>2. PICK l : l = levels'
  OBVIOUS
<1>3. /\ l \in Seq(Levels) /\ Len(l) = n /\ \A j \in 1 .. n - 1 : l[j] = levels[j]
      /\ l[n][1] = e /\ Len(l[n]) = Len(levels[n])
      /\ \A i \in 2 .. Len(levels[n]) : l[n][i] = levels[n][i]
  BY <1>1, <1>2, SetCurIs
<1>4. n \in Nat /\ n >= 1
  BY <1>1
<1>5. l # <<>>
  BY <1>3, <1>4
<1>6. levels[n][1] = Cur
  BY DEF Cur, Last
<1>7. Cur' = e
  BY <1>2, <1>3, <1>5, CurNext
<1>8. PICK m : m = n - 1
  OBVIOUS
<1>9. m \in Nat /\ m + 1 = n /\ m < n
  BY <1>4, <1>8
<1>10. \A i \in 2 .. Len(levels[n]) : Unvisited(levels[n][i])
  BY <1>1, <1>4 DEF LevelsOK
<1>11. Ends(m)
  BY <1>2, <1>3, <1>8, <1>9, <1>10 DEF Ends
<1> QED
  BY <1>2, <1>3, <1>4, <1>5, <1>6, <1>7, <1>8, <1>9, <1>11

LEMMA RevisitStep ==
    ASSUME IInv, levels # <<>>, NEW e \in Entries, ~e.in, levels' = SetCur(e),
           options' = options, build' = Idle, stop' \in BOOLEAN, stop => stop',
           cwd' \in Dir, astray' \in BOOLEAN, astray => astray',
           stale' \in BOOLEAN, stale => stale',
           ~Chdir => cwd' = Start,
           Following /\ ~astray' /\ ~stop' =>
               e.sym \in {Cur.sym, None, Closed, cwd'} /\ cwd' = Where(Len(levels)),
           ~stale' => NewTo(e, Len(levels) - 1),
           child' = child \/ child' = <<>>,
           ~stale' /\ child' # <<>> => e.info = "D" /\ e.ino = Cur.ino
    PROVE  IInv'
<1>1. PICK n : n = Len(levels)
  OBVIOUS
<1>2. /\ n - 1 \in Nat /\ n - 1 < n /\ n - 1 + 1 = n /\ n >= 1 /\ Ends(n - 1)
      /\ levels' \in Seq(Levels) /\ levels' # <<>> /\ Len(levels') = n
      /\ levels'[n][1] = e /\ levels[n][1] = Cur
      /\ Len(levels'[n]) = Len(levels[n])
      /\ \A j \in 1 .. n - 1 : levels'[j] = levels[j]
      /\ \A i \in 2 .. Len(levels[n]) : levels'[n][i] = levels[n][i]
  BY <1>1, RevisitIs
<1>3. BuildOK' /\ BuildNew'
  BY IdleBuild
<1>4. ASSUME Following, ~astray', ~stop'
      PROVE  levels'[n][1].sym \in {None, Closed, Where(n)} /\ InPlace'
  <2>1. SymsOK
    BY <1>4 DEF IInv, OnTrack
  <2>2. Cur.sym \in {None, Closed, Where(n)}
    BY <1>1, <1>2, <2>1 DEF SymsOK
  <2>3. cwd' = Where(n)
    BY <1>1, <1>4
  <2>4. InPlace'
    BY <1>2, <2>3, IdlePlace
  <2> QED
    BY <1>2, <1>4, <2>2, <2>3, <2>4
<1>5. ASSUME ~stale', NEW i \in 1 .. Len(levels'[n]) PROVE NewTo(levels'[n][i], n - 1)
  <2>1. CASE i = 1
    BY <1>1, <1>2, <1>5, <2>1
  <2>2. CASE i # 1
    <3>1. i \in 2 .. Len(levels[n]) /\ i \in 1 .. Len(levels[n]) /\ n \in 1 .. Len(levels)
      BY <1>1, <1>2, <2>2
    <3>2. LevelsNew
      BY <1>5 DEF IInv, Distinct
    <3>3. NewTo(levels[n][i], n - 1)
      BY <3>1, <3>2 DEF LevelsNew
    <3> QED
      BY <1>2, <3>1, <3>3
  <2> QED
    BY <2>1, <2>2
<1>6. \A j \in 1 .. n : j \in 1 .. n - 1 \/ j = n
  BY <1>2
<1>7. child' \in Seq(Entries) /\ ChildOK' /\ (~stale' => ChildNew')
  BY <1>1, <1>2, <1>6, ChildKept
<1>8. PICK m : m = n - 1
  OBVIOUS
<1>9. m \in Nat /\ m < Len(levels) /\ m + 1 = n /\ Ends(m)
  BY <1>1, <1>2, <1>8
<1> QED
  BY <1>3, <1>4, <1>5, <1>7, <1>8, <1>9, EndStep

\* What the invariant says of the current entry.
LEMMA CurIs ==
    ASSUME IInv, levels # <<>>
    PROVE  /\ Cur \in Entries /\ ~Cur.in /\ levels \in Seq(Levels)
           /\ P \in Entries /\ Same(P, Cur) /\ P.info = Cur.info /\ P.ino = Cur.ino
           /\ cwd \in Dir /\ stop \in BOOLEAN /\ astray \in BOOLEAN /\ stale \in BOOLEAN
           /\ (~Chdir => cwd = Start)
           /\ (~stale => NewTo(Cur, Len(levels) - 1))
           /\ (~stale /\ child # <<>> => Cur.info = "D")
<1>1. PICK n : n = Len(levels)
  OBVIOUS
<1>2. n \in 1 .. n /\ levels[n] \in Levels /\ 1 \in 1 .. Len(levels[n]) /\ Cur = levels[n][1]
  BY <1>1 DEF IInv, TypeCorrect, Levels, Cur, Last
<1>3. Cur \in Entries /\ ~Cur.in
  BY <1>1, <1>2 DEF IInv, LevelsOK, Levels
<1>4. P \in Entries /\ Same(P, Cur) /\ P.info = Cur.info /\ P.ino = Cur.ino
  BY <1>3 DEF P, Same, Entries, Instrs
<1>5. ASSUME ~stale PROVE NewTo(Cur, n - 1)
  <2>1. LevelsNew
    BY <1>5 DEF IInv, Distinct
  <2> QED
    BY <1>1, <1>2, <2>1 DEF LevelsNew
<1>6. ~stale /\ child # <<>> => Cur.info = "D"
  BY DEF IInv, Distinct, ChildNew
<1> QED
  BY <1>1, <1>3, <1>4, <1>5, <1>6 DEF IInv, TypeCorrect, AtStart

\* Where the walk is when fts_read or fts_children is called.
LEMMA ReadsPlace ==
    ASSUME IInv, build = Idle, Following
    PROVE  cwd = Where(Len(levels))
  BY DEF IInv, OnTrack, InPlace, Gone

LEMMA AgainOK == ASSUME IInv, Again PROVE IInv'
<1>1. /\ build = Idle /\ levels # <<>> /\ build' = Idle /\ stop' = stop /\ cwd' = cwd
      /\ child' = child /\ astray' = astray /\ stale' = (stale \/ child # <<>>)
      /\ options' = options
  BY DEF Again, Reads, Rest, Idle
<1>2. PICK e : e = fts_stat(Above, Path(levels), P, FALSE)
  OBVIOUS
<1>3. levels' = SetCur(e)
  BY <1>2 DEF Again, Return
<1>4. e \in Entries /\ Same(e, P) /\ (e.info = "D" => e.ino \notin Inos(Above))
  BY <1>1, <1>2, CurIs, StatIs
<1>5. ~e.in /\ e.sym = Cur.sym
  BY <1>1, <1>4, CurIs DEF Same
<1>6. NewTo(e, Len(levels) - 1)
  BY <1>1, <1>4, CurIs, NewToAbove
<1>7. Following => cwd = Where(Len(levels))
  BY <1>1, ReadsPlace
<1>8. /\ cwd \in Dir /\ stop \in BOOLEAN /\ astray \in BOOLEAN /\ stale \in BOOLEAN
      /\ (~Chdir => cwd = Start)
  BY <1>1, CurIs
<1>9. stale' \in BOOLEAN /\ (stale => stale') /\ (~stale' => child' = <<>>)
  BY <1>1, <1>8
<1> QED
  BY <1>1, <1>3, <1>4, <1>5, <1>6, <1>7, <1>8, <1>9, RevisitStep

LEMMA FollowLinkOK == ASSUME IInv, FollowLink PROVE IInv'
<1>1. /\ build = Idle /\ levels # <<>> /\ build' = Idle /\ stop' = stop /\ cwd' = cwd
      /\ child' = child /\ astray' = astray /\ stale' = stale
      /\ options' = options /\ Cur.info # "D"
  BY DEF FollowLink, Reads, Rest, Idle, past
<1>2. PICK q \in Followed(Above, P) : levels' = SetCur(q)
  BY DEF FollowLink, Return
<1>3. /\ q \in Entries /\ ~q.in /\ q.sym \in {Cur.sym, cwd}
      /\ (q.info = "D" => q.ino \notin Inos(Above))
  <2>1. P \in Entries /\ Same(P, Cur) /\ ~Cur.in /\ cwd \in Dir
    BY <1>1, CurIs
  <2>2. /\ q \in Entries /\ q.in = P.in
        /\ q.sym = P.sym \/ (Chdir /\ q.sym = cwd)
        /\ q.info = "D" => q.ino \notin Inos(Above)
    BY <2>1, FollowedIs
  <2> QED
    BY <2>1, <2>2 DEF Same
<1>4. NewTo(q, Len(levels) - 1)
  BY <1>1, <1>3, CurIs, NewToAbove
<1>5. Following => cwd = Where(Len(levels))
  BY <1>1, ReadsPlace
<1>6. /\ cwd \in Dir /\ stop \in BOOLEAN /\ astray \in BOOLEAN /\ stale \in BOOLEAN
      /\ (~Chdir => cwd = Start) /\ (~stale => child = <<>>)
  BY <1>1, CurIs
<1> QED
  BY <1>1, <1>2, <1>3, <1>4, <1>5, <1>6, RevisitStep

LEMMA SkipDirectoryOK == ASSUME IInv, SkipDirectory PROVE IInv'
<1>1. /\ build = Idle /\ levels # <<>> /\ build' = Idle /\ stop' = stop /\ cwd' = cwd
      /\ child' = <<>> /\ astray' = astray /\ stale' = stale /\ options' = options
  BY DEF SkipDirectory, Preorder, Reads, Rest, Idle, past
<1>2. PICK e : e = [P EXCEPT !.info = "DP", !.sym = IF @ = None THEN None ELSE Closed]
  OBVIOUS
<1>3. levels' = SetCur(e)
  BY <1>2 DEF SkipDirectory, Return
<1>4. P \in Entries /\ Same(P, Cur) /\ ~Cur.in
  BY <1>1, CurIs
<1>5. e \in Entries /\ e.in = P.in /\ e.sym \in {None, Closed} /\ e.info = "DP"
  BY <1>2, <1>4 DEF Entries, Infos
<1>6. ~e.in /\ NewTo(e, Len(levels) - 1)
  BY <1>4, <1>5 DEF Same, NewTo
<1>7. Following => cwd = Where(Len(levels))
  BY <1>1, ReadsPlace
<1>8. /\ cwd \in Dir /\ stop \in BOOLEAN /\ astray \in BOOLEAN /\ stale \in BOOLEAN
      /\ (~Chdir => cwd = Start)
  BY <1>1, CurIs
<1> QED
  BY <1>1, <1>3, <1>5, <1>6, <1>7, <1>8, RevisitStep

LEMMA DescendOK == ASSUME IInv, Descend PROVE IInv'
<1>1. /\ build = Idle /\ levels # <<>> /\ build' = Idle /\ stop' = stop /\ ~stop
      /\ child' = <<>> /\ child # <<>> /\ stale' = stale /\ options' = options /\ Cur.info = "D"
  BY DEF Descend, Preorder, Reads, Rest, Idle
<1>2. /\ P \in Entries /\ Same(P, Cur) /\ P.info = "D" /\ P.ino = Cur.ino /\ ~Cur.in
      /\ cwd \in Dir /\ astray \in BOOLEAN /\ (~Chdir => cwd = Start)
  BY <1>1, CurIs
<1>3. child \in Levels /\ \A i \in 1 .. Len(child) : Unvisited(child[i])
  BY <1>1 DEF IInv, TypeCorrect, ChildOK, Levels
<1>4. ~stale => \A i \in 1 .. Len(child) : NewTo(child[i], Len(levels))
  BY DEF IInv, Distinct, ChildNew
<1>5. Following => cwd = Where(Len(levels))
  BY <1>1, ReadsPlace
<1>6. PICK node : node = Follow(Resolve(Accpath(Path(levels), Cur)))
  OBVIOUS
<1>7. CASE fts_safe_changedir(Cur, node)
  <2>1. PICK e : e = [P EXCEPT !.in = Chdir]
    OBVIOUS
  <2>2. /\ cwd' = IF Chdir THEN node ELSE cwd
        /\ levels' = Append(SetCur(e), child) /\ astray' = (astray \/ Strays)
    BY <1>6, <1>7, <2>1 DEF Descend, Return, GoTo
  <2>3. e \in Entries /\ e.info = "D" /\ e.ino = Cur.ino /\ e.in = Chdir /\ e.sym = Cur.sym
    BY <1>2, <2>1 DEF Entries, Same, Chdir
  <2>4. Chdir => node \in Dir /\ node = Cur.ino
    BY <1>7 DEF fts_safe_changedir
  <2>5. Deepens(e, child)
    BY <1>1, <1>3, <2>2, <2>3 DEF Deepens
  <2>6. /\ cwd' \in Dir /\ astray' \in BOOLEAN /\ (astray => astray')
        /\ (~Chdir => cwd' = Start)
    BY <1>2, <2>2, <2>4 DEF Strays, Chdir
  <2>7. Following /\ ~astray' =>
            /\ e.in /\ Len(levels) > 1 => Parent.in
            /\ cwd' = IF e.in THEN Cur.ino ELSE Where(Len(levels))
    BY <2>2, <2>3, <2>4 DEF Following, Strays
  <2> QED
    BY <1>1, <1>4, <2>3, <2>5, <2>6, <2>7, DeepStep
<1>8. CASE ~fts_safe_changedir(Cur, node)
  <2>1. PICK e : e = [P EXCEPT !.err = TRUE, !.dont = TRUE]
    OBVIOUS
  <2>2. PICK c : c = [i \in DOMAIN child |-> [child[i] EXCEPT !.acc = Cur.acc]]
    OBVIOUS
  <2>3. /\ cwd' = cwd /\ astray' = astray /\ levels' = Append(SetCur(e), c)
    BY <1>6, <1>8, <2>1, <2>2 DEF Descend, Return
  <2>4. /\ e \in Entries /\ e.info = "D" /\ e.ino = Cur.ino /\ ~e.in /\ e.sym = Cur.sym
        /\ e.dont
    BY <1>2, <2>1 DEF Entries, Same
  <2>5. Cur.acc \in Name \cup {"path"}
    BY <1>1, CurIs DEF Entries
  <2>6. PICK n : n = Len(child) /\ n \in Nat /\ n >= 1 /\ DOMAIN child = 1 .. n
    BY <1>3 DEF Levels
  <2>7. ASSUME NEW i \in 1 .. n
        PROVE  /\ c[i] \in Entries /\ Unvisited(c[i])
               /\ c[i].info = child[i].info /\ c[i].ino = child[i].ino
    <3>1. PICK d : d = child[i]
      OBVIOUS
    <3>2. d \in Entries /\ Unvisited(d)
      BY <1>3, <2>6, <3>1 DEF Levels
    <3>3. c[i] = [d EXCEPT !.acc = Cur.acc]
      BY <2>2, <2>6, <3>1
    <3> QED
      BY <2>5, <3>1, <3>2, <3>3 DEF Entries, Unvisited
  <2>8. c \in Levels /\ Len(c) = n
    <3>1. DOMAIN c = 1 .. n /\ c = [i \in 1 .. n |-> c[i]]
      BY <2>2, <2>6
    <3>2. c \in [1 .. n -> Entries]
      BY <2>7, <3>1
    <3> QED
      BY <2>6, <3>2 DEF Levels
  <2>9. Deepens(e, c)
    BY <1>1, <2>3, <2>4, <2>6, <2>7, <2>8 DEF Deepens
  <2>10. ~stale => \A i \in 1 .. Len(c) : NewTo(c[i], Len(levels))
    BY <1>4, <2>6, <2>7, <2>8 DEF NewTo
  <2> QED
    BY <1>1, <1>2, <1>5, <2>3, <2>4, <2>9, <2>10, DeepStep
<1> QED
  BY <1>7, <1>8

\* The levels stay.
LEMMA StayIs ==
    ASSUME IInv, levels # <<>>, levels' = levels, options' = options, NEW n, n = Len(levels)
    PROVE  /\ n - 1 \in Nat /\ n - 1 < n /\ n - 1 + 1 = n /\ n >= 1 /\ Ends(n - 1)
           /\ Cur' = Cur /\ levels[n][1] = Cur
           /\ (Following => Cur.sym \in {None, Closed, Where(n)})
           /\ (~stale => \A i \in 1 .. Len(levels[n]) : NewTo(levels[n][i], n - 1))
<1>1. levels \in Seq(Levels) /\ LevelsOK /\ n \in Nat /\ n >= 1 /\ n \in 1 .. n
  BY DEF IInv, TypeCorrect
<1>2. PICK m : m = n - 1
  OBVIOUS
<1>3. m \in Nat /\ m + 1 = n /\ m < n
  BY <1>1, <1>2
<1>4. Ends(m)
  BY <1>1, <1>3 DEF Ends, LevelsOK
<1>5. Cur' = Cur /\ levels[n][1] = Cur
  BY DEF Cur, Last
<1>6. Following => Cur.sym \in {None, Closed, Where(n)}
  BY <1>1, <1>5 DEF IInv, OnTrack, SymsOK
<1>7. ~stale => \A i \in 1 .. Len(levels[n]) : NewTo(levels[n][i], n - 1)
  BY <1>1 DEF IInv, Distinct, LevelsNew
<1> QED
  BY <1>1, <1>2, <1>3, <1>4, <1>5, <1>6, <1>7

LEMMA StayStep ==
    ASSUME IInv, levels # <<>>, levels' = levels, options' = options, build' = Idle,
           stop' \in BOOLEAN, stop => stop', cwd' \in Dir, astray' = astray, stale' = stale,
           ~Chdir => cwd' = Start,
           Following /\ ~stop' => cwd' = Where(Len(levels)),
           child' = child \/ child' = <<>>
    PROVE  IInv'
<1>1. PICK n : n = Len(levels)
  OBVIOUS
<1>2. PICK m : m = n - 1
  OBVIOUS
<1>3. /\ m \in Nat /\ m < Len(levels) /\ m + 1 = n /\ Ends(m)
      /\ levels[n][1] = Cur
      /\ (Following => Cur.sym \in {None, Closed, Where(n)})
      /\ (~stale => \A i \in 1 .. Len(levels[n]) : NewTo(levels[n][i], m))
  BY <1>1, <1>2, StayIs
<1>4. BuildOK' /\ BuildNew'
  BY IdleBuild
<1>5. child' \in Seq(Entries) /\ ChildOK' /\ (~stale' => ChildNew')
  <2>1. /\ stale' \in BOOLEAN /\ (stale => stale') /\ levels' \in Seq(Levels)
        /\ levels' # <<>> /\ Len(levels') = n
        /\ (~stale' /\ child' # <<>> => levels'[n][1].info = "D")
    BY <1>1, <1>3, CurIs
  <2> QED
    BY <1>1, <2>1, ChildKept
<1>6. Following /\ ~stop' => InPlace'
  BY <1>1, <1>3, IdlePlace
<1>7. stale \in BOOLEAN /\ astray \in BOOLEAN
  BY DEF IInv, TypeCorrect
<1> QED
  BY <1>1, <1>3, <1>4, <1>5, <1>6, <1>7, EndStep

-----------------------------------------------------------------------------
(* Steps of fts_build.                                                     *)

LEMMA ParentNext ==
    ASSUME levels' \in Seq(Levels), NEW n, Len(levels') = n, n > 1
    PROVE  Parent' = levels'[n - 1][1]
<1>1. PICK l : l = levels'
  OBVIOUS
<1>2. PICK a : a = Front(l)
  OBVIOUS
<1>3. l \in Seq(Levels) /\ l # <<>> /\ Len(l) = n
  BY <1>1
<1>4. Len(a) = n - 1 /\ a \in Seq(Levels) /\ \A j \in 1 .. Len(a) : a[j] = l[j]
  BY <1>2, <1>3, FrontIs
<1>5. Parent' = a[Len(a)][1]
  BY <1>1, <1>2 DEF Parent, Last, Above
<1> QED
  BY <1>1, <1>3, <1>4, <1>5

LEMMA BuildOpenOK ==
    ASSUME IInv, build = Idle, ~stop, levels # <<>>, Cur.info = "D",
           NEW type \in {"READ", "CHILD", "NAMES"}, NEW e \in Entries,
           Same(e, Cur), e.info = "D", e.ino = Cur.ino, BuildOpen(type, e),
           child' = <<>>, stop' = stop, stale' = stale, options' = options
    PROVE  IInv'
<1>1. /\ cwd \in Dir /\ stop \in BOOLEAN /\ astray \in BOOLEAN /\ stale \in BOOLEAN
      /\ (~Chdir => cwd = Start) /\ levels \in Seq(Levels) /\ ~Cur.in
      /\ (~stale => NewTo(Cur, Len(levels) - 1))
  BY CurIs
<1>2. Following => cwd = Where(Len(levels))
  BY ReadsPlace
<1>3. PICK node : node = Follow(Resolve(Accpath(Path(levels), e)))
  OBVIOUS
<1>4. PICK goes \in BOOLEAN : goes = (type # "NAMES" /\ fts_safe_changedir(e, node))
  OBVIOUS
<1>5. CASE node \in Dir
  <2>1. PICK fails \in BOOLEAN : fails = (type # "NAMES" /\ ~goes)
    OBVIOUS
  <2>2. PICK d : d = [e EXCEPT !.err = @ \/ (fails /\ type = "READ"), !.dont = @ \/ fails]
    OBVIOUS
  <2>3. PICK todo : todo = Listing(node)
    OBVIOUS
  <2>4. /\ cwd' = IF goes /\ Chdir THEN node ELSE cwd
        /\ astray' = (astray \/ (goes /\ Strays))
        /\ build' = [type |-> type, todo |-> todo, got |-> <<>>,
                     descend |-> goes, cderr |-> fails]
        /\ levels' = SetCur(d)
    BY <1>3, <1>4, <1>5, <2>1, <2>2, <2>3 DEF BuildOpen, GoTo
  <2>5. todo \in Seq(Name)
    BY <2>3, ListingIs
  <2>6. /\ d \in Entries /\ d.in = Cur.in /\ d.sym = Cur.sym /\ d.info = "D" /\ d.ino = Cur.ino
        /\ fails => d.dont
    BY <2>2 DEF Entries, Same
  <2>7. goes /\ Chdir => node \in Dir /\ node = Cur.ino
    BY <1>4 DEF fts_safe_changedir
  <2>8. PICK n : n = Len(levels)
    OBVIOUS
  <2>9. /\ n - 1 \in Nat /\ n - 1 < n /\ n - 1 + 1 = n /\ n >= 1 /\ Ends(n - 1)
        /\ levels' \in Seq(Levels) /\ levels' # <<>> /\ Len(levels') = n
        /\ levels'[n][1] = d /\ levels[n][1] = Cur /\ Cur' = d
        /\ Len(levels'[n]) = Len(levels[n])
        /\ \A j \in 1 .. n - 1 : levels'[j] = levels[j]
        /\ \A i \in 2 .. Len(levels[n]) : levels'[n][i] = levels[n][i]
    BY <1>1, <2>4, <2>6, <2>8, RevisitIs
  <2>10. build' \in Builds /\ build' # Idle
    <3>1. <<>> \in Seq(Entries)
      OBVIOUS
    <3>2. build'.type = type /\ Idle.type = "none"
      BY <2>4 DEF Idle
    <3> QED
      BY <2>4, <2>5, <3>1, <3>2 DEF Builds
  <2>11. BuildOK' /\ BuildNew'
    <3>1. build'.got = <<>> /\ 1 .. Len(build'.got) = {}
      BY <2>4
    <3>2. /\ build'.type = "READ" /\ Chdir /\ ~build'.descend => d.dont
          /\ build'.type = "NAMES" => ~build'.descend
      BY <1>4, <2>1, <2>4, <2>6
    <3> QED
      BY <2>6, <2>9, <3>1, <3>2 DEF BuildOK, BuildNew, Chdir
  <2>12. ASSUME Following, ~astray'
         PROVE  levels'[n][1].sym \in {None, Closed, Where(n)} /\ InPlace'
    <3>1. SymsOK
      BY <2>12 DEF IInv, OnTrack
    <3>2. d.sym \in {None, Closed, Where(n)}
      BY <2>6, <2>8, <2>9, <3>1 DEF SymsOK
    <3>3. Where(n)' = Where(n)
      <4>1. PICK m : m = n - 1
        OBVIOUS
      <4>2. m \in Nat /\ Ends(m) /\ n \in 1 .. m + 1
        BY <2>9, <4>1
      <4> QED
        BY <4>2, EndsWhere
    <3>4. Gone' = goes
      BY <2>4, <2>10 DEF Gone
    <3>5. cwd' = IF goes THEN Cur'.ino ELSE Where(n)'
      BY <1>2, <2>4, <2>6, <2>7, <2>8, <2>9, <2>12, <3>3 DEF Following
    <3>6. goes /\ n > 1 => Parent'.in
      <4>1. SUFFICES ASSUME goes, n > 1 PROVE Parent'.in
        OBVIOUS
      <4>2. Parent.in
        BY <2>4, <2>8, <2>12, <4>1 DEF Following, Strays
      <4>3. n - 1 \in 1 .. n - 1
        BY <2>9, <4>1
      <4> QED
        BY <1>1, <2>8, <2>9, <4>1, <4>2, <4>3, ParentIs, ParentNext
    <3>7. InPlace'
      BY <2>9, <3>4, <3>5, <3>6 DEF InPlace
    <3> QED
      BY <2>9, <3>2, <3>7
  <2>13. ASSUME ~stale', NEW i \in 1 .. Len(levels'[n]) PROVE NewTo(levels'[n][i], n - 1)
    <3>1. CASE i = 1
      BY <1>1, <2>6, <2>8, <2>9, <2>13, <3>1 DEF NewTo
    <3>2. CASE i # 1
      <4>1. i \in 2 .. Len(levels[n]) /\ i \in 1 .. Len(levels[n]) /\ n \in 1 .. Len(levels)
        BY <2>8, <2>9, <3>2
      <4>2. NewTo(levels[n][i], n - 1)
        BY <2>13, <4>1 DEF IInv, Distinct, LevelsNew
      <4> QED
        BY <2>9, <4>1, <4>2
    <3> QED
      BY <3>1, <3>2
  <2>14. child' \in Seq(Entries) /\ ChildOK' /\ ChildNew'
    <3>1. 1 .. Len(child') = {} /\ <<>> \in Seq(Entries)
      OBVIOUS
    <3> QED
      BY <3>1 DEF ChildOK, ChildNew
  <2>15. /\ cwd' \in Dir /\ astray' \in BOOLEAN /\ (astray => astray')
         /\ (~Chdir => cwd' = Start)
    BY <1>1, <2>4, <2>7 DEF Strays, Chdir
  <2>16. PICK m : m = n - 1
    OBVIOUS
  <2>17. m \in Nat /\ m < Len(levels) /\ m + 1 = n /\ Ends(m)
    BY <2>8, <2>9, <2>16
  <2> QED
    BY <1>1, <2>10, <2>11, <2>12, <2>13, <2>14, <2>15, <2>16, <2>17, EndStep
<1>6. CASE node \notin Dir
  <2>1. cwd' = cwd /\ build' = Idle /\ astray' = astray
    BY <1>3, <1>6 DEF BuildOpen
  <2>2. CASE type = "READ"
    <3>1. PICK d : d = [e EXCEPT !.info = "DNR", !.err = TRUE]
      OBVIOUS
    <3>2. levels' = SetCur(d)
      BY <1>3, <1>6, <2>2, <3>1 DEF BuildOpen, Return
    <3>3. d \in Entries /\ d.in = Cur.in /\ d.sym = Cur.sym /\ d.info = "DNR"
      BY <3>1 DEF Entries, Infos, Same
    <3>4. NewTo(d, Len(levels) - 1)
      BY <3>3 DEF NewTo
    <3> QED
      BY <1>1, <1>2, <2>1, <3>2, <3>3, <3>4, RevisitStep
  <2>3. CASE type # "READ"
    <3>1. levels' = levels
      BY <1>3, <1>6, <2>3 DEF BuildOpen
    <3> QED
      BY <1>1, <1>2, <2>1, <3>1, StayStep
  <2> QED
    BY <2>2, <2>3
<1> QED
  BY <1>5, <1>6

LEMMA ReadDirectoryOK == ASSUME IInv, ReadDirectory PROVE IInv'
<1>1. /\ build = Idle /\ levels # <<>> /\ ~stop /\ Cur.info = "D" /\ stop' = stop
      /\ child' = <<>> /\ stale' = stale /\ options' = options /\ BuildOpen("READ", P)
  BY DEF ReadDirectory, Preorder, Reads, Rest
<1>2. P \in Entries /\ Same(P, Cur) /\ P.info = "D" /\ P.ino = Cur.ino
  BY <1>1, CurIs
<1> QED
  BY <1>1, <1>2, BuildOpenOK

LEMMA ChildrenOK ==
    ASSUME IInv, NEW type \in {"CHILD", "NAMES"}, fts_children(type) PROVE IInv'
<1>1. /\ build = Idle /\ levels # <<>> /\ ~stop /\ Cur.info = "D" /\ stop' = stop
      /\ child' = <<>> /\ stale' = stale /\ options' = options /\ BuildOpen(type, Cur)
  BY DEF fts_children, Reads, Rest
<1>2. Cur \in Entries /\ Same(Cur, Cur)
  BY <1>1, CurIs DEF Same
<1> QED
  BY <1>1, <1>2, BuildOpenOK

LEMMA BuildIs ==
    ASSUME IInv, build # Idle
    PROVE  /\ build \in Builds /\ levels # <<>> /\ ~stop /\ child = <<>> /\ Cur.info = "D"
           /\ \A i \in 1 .. Len(build.got) : Unvisited(build.got[i])
           /\ (build.type = "READ" /\ Chdir /\ ~build.descend => Cur.dont)
           /\ (build.type = "NAMES" => ~build.descend)
           /\ (~stale => \A i \in 1 .. Len(build.got) : NewTo(build.got[i], Len(levels)))
  BY DEF IInv, TypeCorrect, BuildOK, Distinct, BuildNew

LEMMA BuildEntryOK == ASSUME IInv, BuildEntry PROVE IInv'
<1>1. /\ build # Idle /\ build.todo # <<>> /\ levels' = levels /\ stop' = stop /\ cwd' = cwd
      /\ child' = child /\ stale' = stale /\ astray' = astray /\ options' = options
  BY DEF BuildEntry, Rest, past
<1>2. /\ build \in Builds /\ levels # <<>> /\ ~stop /\ child = <<>> /\ Cur.info = "D"
      /\ \A i \in 1 .. Len(build.got) : Unvisited(build.got[i])
      /\ (build.type = "READ" /\ Chdir /\ ~build.descend => Cur.dont)
      /\ (build.type = "NAMES" => ~build.descend)
      /\ (~stale => \A i \in 1 .. Len(build.got) : NewTo(build.got[i], Len(levels)))
  BY <1>1, BuildIs
<1>3. PICK e : e = Stated(Head(build.todo))
  OBVIOUS
<1>4. PICK todo : todo = Tail(build.todo)
  OBVIOUS
<1>5. PICK got : got = Append(build.got, e)
  OBVIOUS
<1>6. build' = [build EXCEPT !.todo = todo, !.got = got]
  BY <1>3, <1>4, <1>5 DEF BuildEntry
<1>7. /\ cwd \in Dir /\ stop \in BOOLEAN /\ astray \in BOOLEAN /\ stale \in BOOLEAN
      /\ (~Chdir => cwd = Start) /\ levels \in Seq(Levels)
  BY <1>2, CurIs
<1>8. e \in Entries /\ Unvisited(e) /\ NewTo(e, Len(levels))
  <2>1. Head(build.todo) \in Name
    BY <1>1, <1>2 DEF Builds
  <2> QED
    BY <1>2, <1>3, <1>7, <2>1, StatedIs
<1>9. build.got \in Seq(Entries) /\ todo \in Seq(Name)
  BY <1>1, <1>2, <1>4 DEF Builds
<1>10. /\ got \in Seq(Entries) /\ Len(got) = Len(build.got) + 1 /\ got[Len(got)] = e
       /\ \A i \in 1 .. Len(build.got) : got[i] = build.got[i]
  BY <1>5, <1>8, <1>9, PushIs
<1>11. \A i \in 1 .. Len(got) : i \in 1 .. Len(build.got) \/ i = Len(got)
  BY <1>9, <1>10
<1>12. /\ \A i \in 1 .. Len(got) : Unvisited(got[i])
       /\ ~stale => \A i \in 1 .. Len(got) : NewTo(got[i], Len(levels))
  BY <1>2, <1>8, <1>10, <1>11
<1>13. /\ build' \in Builds /\ build'.type = build.type /\ build'.descend = build.descend
       /\ build'.got = got
  BY <1>2, <1>6, <1>9, <1>10 DEF Builds
<1>14. build' # Idle
  BY <1>13 DEF Builds, Idle
<1>15. PICK n : n = Len(levels)
  OBVIOUS
<1>16. PICK m : m = n - 1
  OBVIOUS
<1>17. /\ m \in Nat /\ m < Len(levels) /\ m + 1 = n /\ Ends(m) /\ Cur' = Cur
       /\ levels[n][1] = Cur
       /\ (Following => Cur.sym \in {None, Closed, Where(n)})
       /\ (~stale => \A i \in 1 .. Len(levels[n]) : NewTo(levels[n][i], m))
  BY <1>1, <1>2, <1>15, <1>16, StayIs
<1>18. BuildOK'
  BY <1>1, <1>2, <1>12, <1>13, <1>17 DEF BuildOK, Chdir
<1>19. ~stale' => BuildNew'
  BY <1>1, <1>12, <1>13 DEF BuildNew, NewTo
<1>20. child' \in Seq(Entries) /\ ChildOK' /\ ChildNew'
  <2>1. 1 .. Len(child') = {} /\ <<>> \in Seq(Entries)
    BY <1>1, <1>2
  <2> QED
    BY <1>1, <1>2, <2>1 DEF ChildOK, ChildNew
<1>21. ASSUME Following PROVE InPlace'
  <2>1. InPlace
    BY <1>21 DEF IInv, OnTrack
  <2>2. Gone' <=> Gone
    BY <1>1, <1>13, <1>14 DEF Gone
  <2>3. Where(n)' = Where(n)
    BY <1>17, EndsWhere
  <2>4. n > 1 => Parent' = Parent
    BY <1>1, <1>7, <1>15, ParentIs, ParentNext
  <2> QED
    BY <1>1, <1>15, <1>17, <2>1, <2>2, <2>3, <2>4 DEF InPlace
<1> QED
  BY <1>1, <1>2, <1>7, <1>13, <1>15, <1>17, <1>18, <1>19, <1>20, <1>21, EndStep

LEMMA BuildFailsOK == ASSUME IInv, BuildFails PROVE IInv'
<1>1. /\ build # Idle /\ build' = Idle /\ stop' = TRUE /\ child' = child /\ stale' = stale
      /\ astray' = astray /\ options' = options
      /\ cwd' = IF build.type # "READ" /\ Len(levels) = 1 THEN Start ELSE cwd
  BY DEF BuildFails, Rest, past
<1>2. PICK e : e = [Cur EXCEPT !.info = "ERR"]
  OBVIOUS
<1>3. levels' = SetCur(e)
  BY <1>2 DEF BuildFails
<1>4. levels # <<>> /\ child = <<>>
  BY <1>1, BuildIs
<1>5. /\ cwd \in Dir /\ stop \in BOOLEAN /\ astray \in BOOLEAN /\ stale \in BOOLEAN
      /\ (~Chdir => cwd = Start) /\ ~Cur.in /\ Cur \in Entries
  BY <1>4, CurIs
<1>6. e \in Entries /\ ~e.in /\ e.info = "ERR"
  BY <1>2, <1>5 DEF Entries, Infos
<1>7. NewTo(e, Len(levels) - 1) /\ cwd' \in Dir /\ (~Chdir => cwd' = Start)
  BY <1>1, <1>5, <1>6, FtsAssumption DEF NewTo, Start
<1> QED
  BY <1>1, <1>3, <1>4, <1>5, <1>6, <1>7, RevisitStep

\* Going back from a directory that was read ends where its entry is.
LEMMA BackIs ==
    ASSUME IInv, build # Idle, GoesBack => CanGoUp,
           cwd' = IF GoesBack /\ Chdir THEN Up ELSE cwd
    PROVE  /\ cwd' \in Dir /\ (~Chdir => cwd' = Start)
           /\ Following /\ (build.descend => GoesBack) => cwd' = Where(Len(levels))
<1>1. PICK n : n = Len(levels)
  OBVIOUS
<1>2. /\ levels # <<>> /\ levels \in Seq(Levels) /\ n \in Nat /\ n >= 1
      /\ cwd \in Dir /\ (~Chdir => cwd = Start)
  BY <1>1, BuildIs, CurIs
<1>3. CASE GoesBack /\ Chdir /\ n = 1
  BY <1>1, <1>3, FtsAssumption, WhereFirst DEF Up, Start
<1>4. CASE GoesBack /\ Chdir /\ n > 1
  <2>1. cwd' = DotDot /\ DotDot \in Dir /\ DotDot = Parent.ino
    BY <1>1, <1>4 DEF Up, CanGoUp, fts_safe_changedir, Parent
  <2>2. Parent = levels[n - 1][1]
    BY <1>1, <1>2, <1>4, ParentIs
  <2>3. ASSUME Following PROVE cwd' = Where(n)
    <3>1. Parent.in
      BY <1>1, <1>4, <2>3 DEF IInv, OnTrack, InPlace, Gone, GoesBack
    <3> QED
      BY <1>2, <1>4, <2>1, <2>2, <3>1, WhereIn
  <2> QED
    BY <1>1, <1>4, <2>1, <2>3
<1>5. CASE ~GoesBack \/ ~Chdir
  BY <1>2, <1>5 DEF Following, IInv, OnTrack, InPlace, Gone
<1> QED
  BY <1>2, <1>3, <1>4, <1>5

LEMMA BuildDoneOK == ASSUME IInv, BuildDone PROVE IInv'
<1>1. /\ build # Idle /\ build' = Idle /\ stale' = stale /\ astray' = astray /\ options' = options
  BY DEF BuildDone, Rest, past
<1>2. /\ build \in Builds /\ levels # <<>> /\ ~stop /\ child = <<>> /\ Cur.info = "D"
      /\ \A i \in 1 .. Len(build.got) : Unvisited(build.got[i])
      /\ (build.type = "READ" /\ Chdir /\ ~build.descend => Cur.dont)
      /\ (build.type = "NAMES" => ~build.descend)
      /\ (~stale => \A i \in 1 .. Len(build.got) : NewTo(build.got[i], Len(levels)))
  BY <1>1, BuildIs
<1>3. /\ cwd \in Dir /\ stop \in BOOLEAN /\ astray \in BOOLEAN /\ stale \in BOOLEAN
      /\ (~Chdir => cwd = Start) /\ levels \in Seq(Levels) /\ Cur \in Entries /\ ~Cur.in
  BY <1>2, CurIs
<1>4. CASE GoesBack /\ ~CanGoUp
  <2>1. PICK e : e = [Cur EXCEPT !.info = "ERR"]
    OBVIOUS
  <2>2. stop' = TRUE /\ levels' = SetCur(e) /\ cwd' = cwd /\ child' = child
    BY <1>4, <2>1 DEF BuildDone
  <2>3. e \in Entries /\ ~e.in /\ e.info = "ERR"
    BY <1>3, <2>1 DEF Entries, Infos
  <2>4. NewTo(e, Len(levels) - 1)
    BY <2>3 DEF NewTo
  <2> QED
    BY <1>1, <1>2, <1>3, <2>2, <2>3, <2>4, RevisitStep
<1>5. CASE GoesBack => CanGoUp
  <2>1. stop' = stop /\ cwd' = IF GoesBack /\ Chdir THEN Up ELSE cwd
    BY <1>5 DEF BuildDone, GoTo
  <2>2. /\ cwd' \in Dir /\ (~Chdir => cwd' = Start)
        /\ Following /\ (build.descend => GoesBack) => cwd' = Where(Len(levels))
    BY <1>1, <1>5, <2>1, BackIs
  <2>3. CASE build.type # "READ"
    <3>1. child' = build.got /\ levels' = levels
      BY <1>5, <2>3 DEF BuildDone
    <3>2. build.descend => GoesBack
      BY <1>2, <2>3 DEF Builds, GoesBack
    <3>3. PICK n : n = Len(levels)
      OBVIOUS
    <3>4. PICK m : m = n - 1
      OBVIOUS
    <3>5. /\ m \in Nat /\ m < Len(levels) /\ m + 1 = n /\ Ends(m)
          /\ Cur' = Cur /\ levels[n][1] = Cur
          /\ (Following => Cur.sym \in {None, Closed, Where(n)})
          /\ (~stale => \A i \in 1 .. Len(levels[n]) : NewTo(levels[n][i], m))
      BY <1>1, <1>2, <3>1, <3>3, <3>4, StayIs
    <3>6. BuildOK' /\ BuildNew'
      BY <1>1, IdleBuild
    <3>7. child' \in Seq(Entries) /\ ChildOK' /\ (~stale' => ChildNew')
      BY <1>1, <1>2, <3>1, <3>5 DEF Builds, ChildOK, ChildNew, NewTo
    <3>8. Following => InPlace'
      BY <1>1, <2>2, <3>2, <3>3, <3>5, IdlePlace
    <3> QED
      BY <1>1, <1>2, <1>3, <2>1, <2>2, <3>1, <3>3, <3>5, <3>6, <3>7, <3>8, EndStep
  <2>4. CASE build.type = "READ" /\ build.got = <<>>
    <3>1. PICK e : e = [Cur EXCEPT !.info = "DP"]
      OBVIOUS
    <3>2. levels' = SetCur(e) /\ child' = child
      BY <1>5, <2>4, <3>1 DEF BuildDone, Return
    <3>3. build.descend => GoesBack
      BY <2>4 DEF GoesBack
    <3>4. e \in Entries /\ ~e.in /\ e.info = "DP" /\ e.sym = Cur.sym
      BY <1>3, <3>1 DEF Entries, Infos
    <3>5. NewTo(e, Len(levels) - 1)
      BY <3>4 DEF NewTo
    <3> QED
      BY <1>1, <1>2, <1>3, <2>1, <2>2, <3>2, <3>3, <3>4, <3>5, RevisitStep
  <2>5. CASE build.type = "READ" /\ build.got # <<>>
    <3>1. PICK e : e = [Cur EXCEPT !.in = Chdir /\ build.descend]
      OBVIOUS
    <3>2. levels' = Append(SetCur(e), build.got) /\ child' = child
      BY <1>5, <2>5, <3>1 DEF BuildDone, Return
    <3>3. ~GoesBack /\ cwd' = cwd
      BY <2>1, <2>5 DEF GoesBack
    <3>4. /\ e \in Entries /\ e.info = "D" /\ e.ino = Cur.ino /\ e.sym = Cur.sym
          /\ e.dont = Cur.dont /\ e.in = (Chdir /\ build.descend)
      BY <1>2, <1>3, <3>1 DEF Entries, Chdir, Builds
    <3>5. Deepens(e, build.got)
      BY <1>1, <1>2, <2>5, <3>2, <3>4 DEF Deepens, Levels, Builds
    <3>6. Following =>
              /\ e.in /\ Len(levels) > 1 => Parent.in
              /\ cwd' = IF e.in THEN Cur.ino ELSE Where(Len(levels))
      BY <1>1, <3>3, <3>4 DEF IInv, OnTrack, InPlace, Gone, Following
    <3> QED
      BY <1>1, <1>2, <1>3, <2>1, <2>2, <3>2, <3>4, <3>5, <3>6, DeepStep
  <2> QED
    BY <2>3, <2>4, <2>5
<1> QED
  BY <1>4, <1>5

-----------------------------------------------------------------------------
(* Steps to the next entry, or up.                                         *)

LEMMA AfterIs ==
    ASSUME IInv, After
    PROVE  /\ levels # <<>> /\ levels \in Seq(Levels) /\ Len(levels) \in Nat /\ Len(levels) >= 1
           /\ build = Idle /\ ~stop /\ Cur.info # "D"
           /\ cwd \in Dir /\ astray \in BOOLEAN /\ stale \in BOOLEAN
           /\ (~stale => child = <<>>) /\ (~Chdir => cwd = Start)
           /\ (Following => cwd = Where(Len(levels)))
<1>1. levels # <<>> /\ build = Idle /\ ~stop /\ Cur.info # "D"
  BY DEF After, Reads
<1> QED
  BY <1>1, CurIs, ReadsPlace

LEMMA OnStep ==
    ASSUME IInv, After, NEW m \in Nat, m < Len(levels), Ends(m),
           child' = child, build' = build, stale' = stale, stop' = stop,
           astray' \in BOOLEAN, astray => astray',
           cwd' \in Dir, ~Chdir => cwd' = Start,
           Following /\ ~astray' =>
               levels'[m + 1][1].sym \in {None, Closed, Where(m + 1)} /\ cwd' = Where(m + 1),
           ~stale => \A i \in 1 .. Len(levels'[m + 1]) : NewTo(levels'[m + 1][i], m)
    PROVE  IInv'
<1>1. /\ levels # <<>> /\ build' = Idle /\ ~stop /\ stale \in BOOLEAN
      /\ (~stale => child = <<>>)
  BY AfterIs
<1>2. BuildOK' /\ BuildNew'
  BY <1>1, IdleBuild
<1>3. child' \in Seq(Entries) /\ ChildOK' /\ (~stale' => ChildNew')
  <2>1. PICK n : n = Len(levels')
    OBVIOUS
  <2>2. /\ stale' \in BOOLEAN /\ (stale => stale') /\ levels' \in Seq(Levels)
        /\ levels' # <<>> /\ (~stale' => child' = <<>>)
    BY <1>1 DEF Ends
  <2> QED
    BY <2>1, <2>2, ChildKept
<1>4. Following /\ ~astray' => InPlace'
  BY <1>1, IdlePlace
<1>5. stop' \in BOOLEAN /\ build' \in {Idle} \cup Builds /\ (build' # Idle => ~stop')
  BY <1>1 DEF IInv, TypeCorrect
<1> QED
  BY <1>1, <1>2, <1>3, <1>4, <1>5, EndStep

\* The entries from the next one on were not visited.
LEMMA ComingIs ==
    ASSUME IInv, levels # <<>>, Kept # {}, NEW n, n = Len(levels), NEW c, c = Coming
    PROVE  /\ c \in Levels /\ \A i \in 1 .. Len(c) : Unvisited(c[i])
           /\ ~stale => \A i \in 1 .. Len(c) : NewTo(c[i], n - 1)
<1>1. levels \in Seq(Levels) /\ n \in Nat /\ n \in 1 .. n
  BY DEF IInv, TypeCorrect
<1>2. PICK u : u = levels[n]
  OBVIOUS
<1>3. u \in Seq(Entries) /\ u # <<>>
  BY <1>1, <1>2 DEF Levels
<1>4. PICK t : t = Left
  OBVIOUS
<1>5. t = Tail(u)
  BY <1>2, <1>4 DEF Left, Last
<1>6. /\ t \in Seq(Entries)
      /\ \A i \in 1 .. Len(t) : i + 1 \in 2 .. Len(u) /\ t[i] = u[i + 1]
  BY <1>3, <1>5, TailIs
<1>7. PICK K : K = Kept
  OBVIOUS
<1>8. K \subseteq 1 .. Len(t) /\ K \subseteq Nat /\ K # {}
  BY <1>4, <1>6, <1>7 DEF Kept
<1>9. \E x \in K : \A y \in K : x <= y
  BY <1>8, Least
<1>10. PICK m : m = Next1
  OBVIOUS
<1>11. m \in K
  BY <1>7, <1>9, <1>10, Zenon DEF Next1
<1>12. m \in Nat \ {0} /\ m <= Len(t) /\ Len(t) \in Nat
  BY <1>6, <1>8, <1>11
<1>13. c = SubSeq(t, m, Len(t))
  BY <1>4, <1>10 DEF Coming
<1>14. /\ c \in Seq(Entries) /\ Len(c) = Len(t) - m + 1
       /\ \A i \in 1 .. Len(c) : i + m - 1 \in m .. Len(t) /\ c[i] = t[i + m - 1]
  BY <1>6, <1>12, <1>13, SubSeqIs
<1>15. ASSUME NEW i \in 1 .. Len(c)
       PROVE  \E h \in 2 .. Len(u) : c[i] = u[h]
  <2>1. PICK h : h = i + m - 1
    OBVIOUS
  <2>2. i + m - 1 \in m .. Len(t) /\ c[i] = t[i + m - 1]
    BY <1>14, Zenon
  <2>3. h \in m .. Len(t) /\ c[i] = t[h]
    BY ONLY <2>1, <2>2
  <2>4. h \in 1 .. Len(t)
    BY ONLY <1>12, <2>3
  <2> QED
    BY <1>6, <2>3, <2>4
<1>16. c \in Levels
  BY <1>12, <1>14 DEF Levels
<1>17. ASSUME NEW h \in 2 .. Len(u)
       PROVE  Unvisited(u[h]) /\ (~stale => NewTo(u[h], n - 1))
  <2>1. h \in 1 .. Len(u) /\ n \in 1 .. Len(levels)
    BY <1>1, <1>3
  <2>2. Unvisited(u[h])
    BY <1>2, <2>1 DEF IInv, LevelsOK
  <2>3. ASSUME ~stale PROVE NewTo(u[h], n - 1)
    BY <1>2, <2>1, <2>3 DEF IInv, Distinct, LevelsNew
  <2> QED
    BY <2>2, <2>3
<1> QED
  BY <1>15, <1>16, <1>17

LEMMA NextRootOK == ASSUME IInv, NextRoot PROVE IInv'
<1>1. /\ After /\ Len(levels) = 1 /\ Kept # {} /\ child' = child /\ build' = build
      /\ stale' = stale /\ stop' = stop /\ astray' = astray /\ options' = options
      /\ cwd' = IF Chdir THEN Start ELSE cwd
  BY DEF NextRoot, Rest, past, GoTo
<1>2. PICK c : c = Coming
  OBVIOUS
<1>3. levels' = <<c>>
  BY <1>2 DEF NextRoot, Return
<1>4. levels # <<>> /\ astray \in BOOLEAN /\ (~Chdir => cwd = Start)
  BY <1>1, AfterIs
<1>5. /\ c \in Levels /\ \A i \in 1 .. Len(c) : Unvisited(c[i])
      /\ ~stale => \A i \in 1 .. Len(c) : NewTo(c[i], 1 - 1)
  BY <1>1, <1>2, <1>4, ComingIs
<1>6. 1 \in 1 .. Len(c) /\ \A i \in 2 .. Len(c) : i \in 1 .. Len(c)
  BY <1>5 DEF Levels
<1>7. levels' \in Seq(Levels) /\ Len(levels') = 1 /\ levels'[1] = c
  BY <1>3, <1>5
<1>8. Ends(0)
  BY <1>1, <1>5, <1>6, <1>7 DEF Ends, Unvisited
<1>9. cwd' = Where(1) /\ cwd' \in Dir
  BY <1>1, <1>4, WhereFirst, FtsAssumption DEF Start
<1>10. PICK m : m = 0
  OBVIOUS
<1>11. /\ m \in Nat /\ m + 1 = 1 /\ m < Len(levels) /\ Ends(m)
       /\ (~stale => \A i \in 1 .. Len(c) : NewTo(c[i], m))
  BY <1>1, <1>5, <1>8, <1>10
<1>12. c[1].sym = None
  BY <1>5, <1>6 DEF Unvisited
<1> QED
  BY <1>1, <1>4, <1>7, <1>9, <1>11, <1>12, WhereFirst, OnStep

LEMMA NextEntryOK == ASSUME IInv, NextEntry PROVE IInv'
<1>1. /\ After /\ Len(levels) > 1 /\ Kept # {} /\ child' = child /\ build' = build
      /\ stale' = stale /\ stop' = stop /\ astray' = astray /\ options' = options
      /\ cwd' = cwd
  BY DEF NextEntry, Rest, past
<1>2. PICK c : c = Coming
  OBVIOUS
<1>3. PICK q \in IF c[1].instr = "FOLLOW" THEN Followed(Above, c[1]) ELSE {c[1]} :
          levels' = Append(Above, <<q>> \o Tail(c))
  BY <1>2 DEF NextEntry, Return
<1>4. /\ levels # <<>> /\ levels \in Seq(Levels) /\ Len(levels) \in Nat
      /\ cwd \in Dir /\ astray \in BOOLEAN
      /\ (~Chdir => cwd = Start) /\ (Following => cwd = Where(Len(levels)))
  BY <1>1, AfterIs
<1>5. PICK n : n = Len(levels)
  OBVIOUS
<1>6. PICK m : m = n - 1
  OBVIOUS
<1>7. m \in Nat /\ m + 1 = n /\ m < n
  BY <1>1, <1>4, <1>5, <1>6
<1>8. /\ c \in Levels /\ \A i \in 1 .. Len(c) : Unvisited(c[i])
      /\ ~stale => \A i \in 1 .. Len(c) : NewTo(c[i], m)
  BY <1>1, <1>2, <1>4, <1>5, <1>6, ComingIs
<1>9. /\ c \in Seq(Entries) /\ c # <<>> /\ 1 \in 1 .. Len(c) /\ c[1] \in Entries
      /\ \A i \in 2 .. Len(c) : i \in 1 .. Len(c)
  BY <1>8 DEF Levels
<1>10. q \in Entries /\ ~q.in /\ q.sym \in {None, cwd} /\ (~stale => NewTo(q, m))
  <2>1. Unvisited(c[1]) /\ (~stale => NewTo(c[1], m))
    BY <1>8, <1>9
  <2>2. CASE q = c[1]
    BY <1>9, <2>1, <2>2 DEF Unvisited
  <2>3. CASE q \in Followed(Above, c[1])
    <3>1. /\ q \in Entries /\ q.in = c[1].in
          /\ q.sym = c[1].sym \/ (Chdir /\ q.sym = cwd)
          /\ q.info = "D" => q.ino \notin Inos(Above)
      BY <1>4, <1>9, <2>3, FollowedIs
    <3>2. NewTo(q, m)
      BY <1>4, <1>5, <1>6, <3>1, NewToAbove
    <3> QED
      BY <2>1, <3>1, <3>2 DEF Unvisited
  <2> QED
    BY <1>3, <2>2, <2>3
<1>11. PICK t : t = Tail(c)
  OBVIOUS
<1>12. /\ t \in Seq(Entries) /\ Len(t) = Len(c) - 1
       /\ \A i \in 1 .. Len(t) : i + 1 \in 2 .. Len(c) /\ t[i] = c[i + 1]
  BY <1>9, <1>11, TailIs
<1>13. PICK v : v = Cat(<<q>>, t)
  OBVIOUS
<1>14. /\ v \in Seq(Entries) /\ v # <<>> /\ Len(v) = Len(t) + 1 /\ v[1] = q
       /\ \A i \in 2 .. Len(v) : i - 1 \in 1 .. Len(t) /\ v[i] = t[i - 1]
  BY ONLY <1>10, <1>12, <1>13, ConsIs
<1>15. \A i \in 2 .. Len(v) : i \in 1 .. Len(c) /\ v[i] = c[i]
  BY <1>9, <1>12, <1>14
<1>16. PICK a : a = Above
  OBVIOUS
<1>17. a \in Seq(Levels) /\ Len(a) = m /\ \A j \in 1 .. m : a[j] = levels[j]
  BY <1>4, <1>5, <1>6, <1>16, FrontIs DEF Above
<1>18. PICK l : l = levels'
  OBVIOUS
<1>19. l = Append(a, v)
  BY <1>3, <1>11, <1>13, <1>16, <1>18, Zenon DEF Cat
<1>20. v \in Levels
  BY <1>14 DEF Levels
<1>21. /\ l \in Seq(Levels) /\ Len(l) = n /\ l[n] = v
       /\ \A j \in 1 .. m : l[j] = levels[j]
  BY <1>7, <1>17, <1>19, <1>20
<1>22. Ends(m)
  BY <1>1, <1>7, <1>8, <1>10, <1>14, <1>15, <1>18, <1>21 DEF Ends
<1>23. ASSUME ~stale, NEW i \in 1 .. Len(v) PROVE NewTo(v[i], m)
  <2>1. CASE i = 1
    BY <1>10, <1>14, <1>23, <2>1
  <2>2. CASE i # 1
    <3>1. i \in 2 .. Len(v)
      BY <1>14, <2>2
    <3> QED
      BY <1>8, <1>15, <1>23, <3>1
  <2> QED
    BY <2>1, <2>2
<1>24. Following => l[n][1].sym \in {None, Closed, Where(n)} /\ cwd' = Where(n)
  BY <1>1, <1>4, <1>5, <1>10, <1>14, <1>21
<1> QED
  BY <1>1, <1>4, <1>5, <1>7, <1>18, <1>21, <1>22, <1>23, <1>24, OnStep

LEMMA GoUpOK == ASSUME IInv, GoUp PROVE IInv'
<1> DEFINE skips == Len(levels) > 2 /\ Parent.sym = None /\ Parent.dont /\ Parent.in
<1>1. /\ After /\ Len(levels) > 1 /\ child' = child /\ build' = build
      /\ stale' = stale /\ options' = options /\ astray' = (astray \/ skips)
  BY DEF GoUp, Rest
<1>2. PICK e : e = [Parent EXCEPT !.info = IF Parent.err THEN "ERR" ELSE "DP", !.in = FALSE,
                                  !.sym = IF @ = None THEN None ELSE Closed]
  OBVIOUS
<1>3. PICK u : u = Replace(Above, e)
  OBVIOUS
<1>4. /\ levels # <<>> /\ levels \in Seq(Levels) /\ Len(levels) \in Nat
      /\ build = Idle /\ ~stop /\ cwd \in Dir /\ astray \in BOOLEAN
      /\ (~Chdir => cwd = Start) /\ (Following => cwd = Where(Len(levels)))
  BY <1>1, AfterIs
<1>5. PICK n : n = Len(levels)
  OBVIOUS
<1>6. PICK k : k = n - 1
  OBVIOUS
<1>7. PICK m : m = k - 1
  OBVIOUS
<1>8. /\ n \in Nat /\ n > 1 /\ k \in Nat /\ m \in Nat /\ k = m + 1 /\ n = k + 1 /\ m < n
      /\ k \in 1 .. n - 1 /\ k \in 1 .. n
  BY <1>1, <1>4, <1>5, <1>6, <1>7
<1>9. Parent = levels[k][1] /\ Parent \in Entries
  <2>1. Parent = levels[k][1]
    BY <1>4, <1>5, <1>6, <1>8, ParentIs
  <2>2. levels[k] \in Levels
    <3>1. k \in 1 .. Len(levels)
      BY <1>5, <1>8
    <3>2. levels \in Seq(Levels)
      BY <1>4
    <3> QED
      BY ONLY <3>1, <3>2
  <2>3. levels[k][1] \in Entries
    BY <2>2 DEF Levels
  <2> QED
    BY <2>1, <2>3
<1>10. PICK a : a = Above
  OBVIOUS
<1>11. a \in Seq(Levels) /\ Len(a) = k /\ \A j \in 1 .. k : a[j] = levels[j]
  BY <1>4, <1>5, <1>6, <1>10, FrontIs DEF Above
<1>12. /\ e \in Entries /\ ~e.in /\ e.sym \in {None, Closed} /\ e.info # "D"
  <2>1. PICK f \in {"ERR", "DP"} : f = IF Parent.err THEN "ERR" ELSE "DP"
    OBVIOUS
  <2>2. PICK y \in {None, Closed} : y = IF Parent.sym = None THEN None ELSE Closed
    OBVIOUS
  <2>3. e = [Parent EXCEPT !.info = f, !.in = FALSE, !.sym = y]
    BY <1>2, <2>1, <2>2, Zenon
  <2> QED
    BY <1>9, <2>3 DEF Entries, Infos
<1>13. /\ u \in Seq(Levels) /\ Len(u) = k /\ \A j \in 1 .. k - 1 : u[j] = a[j]
       /\ u[k][1] = e /\ Len(u[k]) = Len(a[k])
       /\ \A i \in 2 .. Len(a[k]) : u[k][i] = a[k][i]
  <2>1. a # <<>> /\ u = Replace(a, e) /\ k = Len(a)
    BY <1>3, <1>8, <1>10, <1>11
  <2> QED
    BY ONLY <1>11, <1>12, <2>1, ReplaceIs, SMTT(60)
<1>14. a[k] = levels[k] /\ \A j \in 1 .. m : j \in 1 .. k - 1 /\ u[j] = levels[j]
  BY <1>7, <1>8, <1>11, <1>13
\* The walk is back in the parent, or it stops.
<1>15. ASSUME levels' = u, stop' = stop, cwd' \in Dir, ~Chdir => cwd' = Start,
              Following /\ ~astray' => cwd' = Where(k)
       PROVE  IInv'
  <2>1. \A i \in 2 .. Len(u[k]) : Unvisited(u[k][i])
    BY <1>5, <1>8, <1>13, <1>14 DEF IInv, LevelsOK
  <2>2. Ends(m)
    BY <1>1, <1>7, <1>8, <1>12, <1>13, <1>14, <1>15, <2>1 DEF Ends
  <2>3. ASSUME ~stale, NEW i \in 1 .. Len(u[k]) PROVE NewTo(u[k][i], m)
    <3>1. CASE i = 1
      BY <1>12, <1>13, <3>1 DEF NewTo
    <3>2. CASE i # 1
      <4>1. i \in 2 .. Len(levels[k]) /\ i \in 1 .. Len(levels[k]) /\ k \in 1 .. Len(levels)
        BY <1>4, <1>5, <1>8, <1>13, <1>14, <3>2
      <4>2. LevelsNew
        BY <2>3 DEF IInv, Distinct
      <4>3. NewTo(levels[k][i], k - 1)
        BY <4>1, <4>2 DEF LevelsNew
      <4> QED
        BY <1>7, <1>13, <1>14, <4>1, <4>3
    <3> QED
      BY <3>1, <3>2
  <2>4. astray' \in BOOLEAN /\ (astray => astray')
    BY <1>1, <1>4
  <2> QED
    BY <1>1, <1>5, <1>8, <1>12, <1>13, <1>15, <2>2, <2>3, <2>4, OnStep
<1>16. CASE Stop /\ UNCHANGED cwd /\ astray' = astray
  <2>1. levels' = levels /\ stop' = TRUE /\ cwd' = cwd
    BY <1>16 DEF Stop
  <2> QED
    BY <1>1, <1>4, <1>16, <2>1, StayStep
<1>17. \/ n = 2 /\ GoTo(Start) /\ levels' = u /\ stop' = stop
       \/ /\ n > 2 /\ Parent.sym # None /\ Parent.sym # Closed
          /\ GoTo(Parent.sym) /\ levels' = u /\ stop' = stop
       \/ n > 2 /\ Parent.sym # None /\ Stop /\ cwd' = cwd
       \/ n > 2 /\ Parent.sym = None /\ Parent.dont /\ levels' = u /\ cwd' = cwd /\ stop' = stop
       \/ /\ n > 2 /\ Parent.sym = None /\ ~Parent.dont
          /\ fts_safe_changedir(Above[Len(Above) - 1][1], DotDot)
          /\ GoTo(DotDot) /\ levels' = u /\ stop' = stop
       \/ n > 2 /\ Parent.sym = None /\ ~Parent.dont /\ Stop /\ cwd' = cwd
  BY <1>2, <1>3, <1>5, Zenon DEF GoUp, Return, Replace
<1>18. CASE n = 2 /\ GoTo(Start) /\ levels' = u /\ stop' = stop
  <2>1. k = 1 /\ cwd' = Start /\ cwd' \in Dir
    BY <1>4, <1>6, <1>18, FtsAssumption DEF GoTo, Start
  <2> QED
    BY <1>15, <1>18, <2>1, WhereFirst
<1>19. CASE /\ n > 2 /\ Parent.sym # None /\ Parent.sym # Closed
            /\ GoTo(Parent.sym) /\ levels' = u /\ stop' = stop
  <2>1. cwd' = (IF Chdir THEN Parent.sym ELSE cwd) /\ Parent.sym \in Dir
    BY <1>9, <1>19 DEF GoTo, Entries
  <2>2. Following => Parent.sym = Where(k)
    BY <1>5, <1>8, <1>9, <1>19 DEF IInv, OnTrack, SymsOK
  <2> QED
    BY <1>4, <1>15, <1>19, <2>1, <2>2 DEF Following
<1>20. CASE n > 2 /\ Parent.sym # None /\ Stop /\ cwd' = cwd
  <2>1. ~skips
    BY <1>20
  <2>2. astray' = astray
    BY <1>1, <1>4, <2>1
  <2> QED
    BY <1>16, <1>20, <2>2
<1>21. CASE n > 2 /\ Parent.sym = None /\ Parent.dont /\ levels' = u /\ cwd' = cwd /\ stop' = stop
  <2>1. ASSUME Following, ~astray' PROVE cwd' = Where(k)
    <3>1. ~levels[k][1].in
      BY <1>1, <1>5, <1>9, <1>21, <2>1
    <3>2. Where(n) = Where(k)
      BY <1>6, <1>8, <3>1, WhereOut
    <3> QED
      BY <1>4, <1>5, <1>21, <2>1, <3>2
  <2> QED
    BY <1>4, <1>15, <1>21, <2>1
<1>22. CASE /\ n > 2 /\ Parent.sym = None /\ ~Parent.dont
            /\ fts_safe_changedir(Above[Len(Above) - 1][1], DotDot)
            /\ GoTo(DotDot) /\ levels' = u /\ stop' = stop
  <2>1. m >= 1 /\ k > 1 /\ m \in 1 .. k /\ k \in 2 .. n - 1
    BY <1>8, <1>22
  <2>2. fts_safe_changedir(levels[m][1], DotDot)
    BY <1>7, <1>10, <1>11, <1>22, <2>1
  <2>3. /\ cwd' = IF Chdir THEN DotDot ELSE cwd
        /\ Chdir => DotDot \in Dir /\ DotDot = levels[m][1].ino
    BY <1>22, <2>2 DEF GoTo, fts_safe_changedir
  <2>4. ASSUME Following PROVE cwd' = Where(k)
    <3>1. Parent.in
      BY <1>5, <1>8, <1>9, <1>22, <2>4 DEF IInv, LevelsOK, Following
    <3>2. NoGap
      BY <2>4 DEF IInv, OnTrack
    <3>3. levels[k - 1][1].in
      BY <1>5, <1>9, <2>1, <3>1, <3>2 DEF NoGap
    <3>4. Where(k) = levels[k - 1][1].ino
      BY <1>8, <2>1, <3>3, WhereIn
    <3> QED
      BY <1>7, <2>3, <2>4, <3>4 DEF Following
  <2> QED
    BY <1>4, <1>15, <1>22, <2>3, <2>4
<1>23. CASE n > 2 /\ Parent.sym = None /\ ~Parent.dont /\ Stop /\ cwd' = cwd
  <2>1. ~skips
    BY <1>23
  <2>2. astray' = astray
    BY <1>1, <1>4, <2>1
  <2> QED
    BY <1>16, <1>23, <2>2
<1> QED
  BY <1>17, <1>18, <1>19, <1>20, <1>21, <1>22, <1>23

LEMMA EndOfWalkOK == ASSUME IInv, EndOfWalk PROVE IInv'
<1>1. /\ After /\ levels' = <<>> /\ child' = child /\ build' = build /\ cwd' = cwd
      /\ stale' = stale /\ stop' = stop /\ astray' = astray /\ options' = options
  BY DEF EndOfWalk, Rest, past, Return
<1>2. build = Idle /\ (~stale => child = <<>>)
  BY <1>1, AfterIs
<1>3. Len(levels') = 0 /\ levels' \in Seq(Levels) /\ \A i \in Nat : 1 .. 0 = {} /\ 1 .. 0 - 1 = {}
  BY <1>1
<1>4. TypeCorrect'
  <2>1. ({Idle} \cup Builds)' = {Idle} \cup Builds /\ (build # Idle)' = FALSE
    BY <1>1, <1>2 DEF Idle, Builds, Entries, Infos, Instrs, None, Closed
  <2> QED
    BY <1>1, <1>2, <1>3, <2>1, Zenon DEF IInv, TypeCorrect
<1>5. LevelsOK' /\ NeverIn' /\ LevelsNew'
  BY <1>1, <1>3 DEF LevelsOK, NeverIn, LevelsNew
<1>6. ChildOK' /\ AtStart' /\ BuildOK' /\ BuildNew' /\ OnTrack'
  BY <1>1, <1>2, IdleBuild
     DEF IInv, ChildOK, Unvisited, AtStart, Chdir, Start, OnTrack, Following
<1>7. ~stale' => ChildNew'
  <2>1. child = <<>> => 1 .. Len(child') = {}
    BY <1>1
  <2> QED
    BY <1>1, <1>2, <2>1 DEF ChildNew
<1> QED
  BY <1>4, <1>5, <1>6, <1>7 DEF IInv, Distinct

-----------------------------------------------------------------------------
(* The other calls, and what others do.                                    *)

\* What others do to the tree says nothing of the walk.
LEMMA OthersOK ==
    ASSUME IInv, UNCHANGED <<options, cwd, levels, child, stop, build, past>>
    PROVE  IInv'
<1>1. /\ options' = options /\ cwd' = cwd /\ levels' = levels /\ child' = child
      /\ stop' = stop /\ build' = build /\ astray' = astray /\ stale' = stale
  BY DEF past
<1>2. TypeCorrect'
  <2>1. ({Idle} \cup Builds)' = {Idle} \cup Builds
    BY DEF Idle, Builds, Entries, Infos, Instrs, None, Closed
  <2>2. (build # Idle => levels # <<>> /\ ~stop)'
    BY <1>1 DEF IInv, TypeCorrect, Idle
  <2> QED
    BY <1>1, <2>1, <2>2, Zenon DEF IInv, TypeCorrect
<1>3. (Chdir' <=> Chdir) /\ Cur' = Cur /\ Parent' = Parent /\ Idle' = Idle
  BY <1>1 DEF Chdir, Cur, Parent, Above, Idle
<1>4. LevelsOK' /\ NeverIn' /\ ChildOK' /\ AtStart'
  BY <1>1, <1>3 DEF IInv, LevelsOK, NeverIn, ChildOK, AtStart, Unvisited, None, Start
<1>5. BuildOK'
  BY <1>1, <1>3 DEF IInv, BuildOK, Unvisited, None
<1>6. Distinct'
  BY <1>1, <1>3 DEF IInv, Distinct, LevelsNew, ChildNew, BuildNew, NewTo
<1>7. OnTrack'
  <2>1. \A k \in Nat : Where(k)' = Where(k)
    BY <1>1, WhereSame
  <2>2. Len(levels) \in Nat
    BY DEF IInv, TypeCorrect
  <2>3. (Following' <=> Following) /\ (Gone' <=> Gone)
    BY <1>1, <1>3 DEF Following, Gone
  <2>4. SymsOK => SymsOK'
    BY <1>1, <2>1 DEF SymsOK, None, Closed
  <2>5. NoGap => NoGap'
    BY <1>1 DEF NoGap
  <2>6. InPlace => InPlace'
    BY <1>1, <1>3, <2>1, <2>2, <2>3 DEF InPlace
  <2> QED
    BY <2>3, <2>4, <2>5, <2>6 DEF IInv, OnTrack
<1> QED
  BY <1>2, <1>4, <1>5, <1>6, <1>7 DEF IInv

LEMMA CloseOK == ASSUME IInv, fts_close PROVE IInv'
<1>1. /\ options' = options /\ levels' = levels /\ child' = child
      /\ stop' = stop /\ build' = build /\ astray' = astray /\ stale' = stale
      /\ build = Idle /\ (stop \/ levels = <<>>) /\ cwd' = IF Chdir THEN Start ELSE cwd
  BY DEF fts_close, Rest, past, GoTo
<1>2. TypeCorrect'
  <2>1. ({Idle} \cup Builds)' = {Idle} \cup Builds
    BY DEF Idle, Builds, Entries, Infos, Instrs, None, Closed
  <2>2. (build # Idle)' = FALSE
    BY <1>1 DEF Idle
  <2>3. cwd' \in Dir
    BY <1>1, FtsAssumption DEF IInv, TypeCorrect, Start
  <2> QED
    BY <1>1, <2>1, <2>2, <2>3, Zenon DEF IInv, TypeCorrect
<1>3. (Chdir' <=> Chdir) /\ Cur' = Cur /\ Idle' = Idle
  BY <1>1 DEF Chdir, Cur, Idle
<1>4. LevelsOK' /\ NeverIn' /\ ChildOK' /\ AtStart'
  BY <1>1, <1>3 DEF IInv, LevelsOK, NeverIn, ChildOK, AtStart, Unvisited, None, Start
<1>5. BuildOK' /\ OnTrack'
  BY <1>1 DEF BuildOK, Idle, OnTrack, Following
<1>6. Distinct'
  BY <1>1, <1>3 DEF IInv, Distinct, LevelsNew, ChildNew, BuildNew, NewTo
<1> QED
  BY <1>2, <1>4, <1>5, <1>6 DEF IInv

\* An instruction for an entry.
Instruct(s, i, instr) == [s EXCEPT ![i].instr = instr]

LEMMA InstrIs ==
    ASSUME NEW s \in Seq(Entries), NEW i, NEW instr \in Instrs,
           NEW t, t = Instruct(s, i, instr)
    PROVE  /\ t \in Seq(Entries) /\ Len(t) = Len(s)
           /\ \A j \in 1 .. Len(s) : /\ Same(t[j], s[j]) /\ t[j].info = s[j].info
                                     /\ t[j].ino = s[j].ino
<1>1. PICK n \in Nat : n = Len(s) /\ DOMAIN s = 1 .. n
  OBVIOUS
<1>2. ASSUME NEW j \in 1 .. n
      PROVE  /\ t[j] \in Entries /\ Same(t[j], s[j]) /\ t[j].info = s[j].info
             /\ t[j].ino = s[j].ino
  <2>1. PICK e : e = s[j]
    OBVIOUS
  <2>2. e \in Entries
    BY <1>1, <2>1
  <2>3. t[j] = IF j = i THEN [e EXCEPT !.instr = instr] ELSE e
    BY <1>1, <2>1 DEF Instruct
  <2> QED
    BY <2>1, <2>2, <2>3 DEF Entries, Same
<1>3. DOMAIN t = 1 .. n /\ t = [j \in 1 .. n |-> t[j]]
  BY <1>1 DEF Instruct
<1>4. t \in [1 .. n -> Entries]
  BY <1>2, <1>3
<1> QED
  BY <1>1, <1>2, <1>4

LEMMA SetOK == ASSUME IInv, fts_set PROVE IInv'
<1>1. /\ build = Idle /\ ~stop /\ levels # <<>> /\ options' = options /\ cwd' = cwd
      /\ stop' = stop /\ build' = build /\ astray' = astray /\ stale' = stale
  BY DEF fts_set, Reads, Rest, past
<1>2. PICK n : n = Len(levels)
  OBVIOUS
<1>3. PICK m : m = n - 1
  OBVIOUS
<1>4. /\ levels \in Seq(Levels) /\ n \in Nat /\ n >= 1 /\ m \in Nat /\ m + 1 = n /\ m < n
      /\ n \in 1 .. Len(levels) /\ levels[n][1] = Cur
  BY <1>1, <1>2, <1>3 DEF IInv, TypeCorrect, Cur, Last
<1>5. /\ cwd \in Dir /\ stop \in BOOLEAN /\ astray \in BOOLEAN /\ stale \in BOOLEAN
      /\ (~Chdir => cwd = Start) /\ ~Cur.in /\ (~stale /\ child # <<>> => Cur.info = "D")
      /\ (Following => cwd = Where(n))
  BY <1>1, <1>2, CurIs, ReadsPlace
<1>6. BuildOK' /\ BuildNew'
  BY <1>1, IdleBuild
<1>7. Following => Cur.sym \in {None, Closed, Where(n)}
  BY <1>2, <1>4 DEF IInv, OnTrack, SymsOK
<1>8. \A i \in 1 .. Len(levels[n]) : ~stale => NewTo(levels[n][i], m)
  BY <1>3, <1>4 DEF IInv, Distinct, LevelsNew
<1>9. ASSUME child' = child, NEW instr \in Instrs, NEW i,
             levels' = [levels EXCEPT ![n][i].instr = instr]
      PROVE  IInv'
  <2>1. PICK u : u = levels[n]
    OBVIOUS
  <2>2. PICK v : v = Instruct(u, i, instr)
    OBVIOUS
  <2>3. PICK l : l = levels'
    OBVIOUS
  <2>4. u \in Levels /\ u \in Seq(Entries) /\ 1 \in 1 .. Len(u)
    BY <1>4, <2>1 DEF Levels
  <2>5. /\ v \in Seq(Entries) /\ Len(v) = Len(u)
        /\ \A j \in 1 .. Len(u) : /\ Same(v[j], u[j]) /\ v[j].info = u[j].info
                                  /\ v[j].ino = u[j].ino
    BY <2>2, <2>4, InstrIs
  <2>6. v \in Levels
    BY <2>4, <2>5 DEF Levels
  <2>7. l = [levels EXCEPT ![n] = v]
    BY <1>9, <2>1, <2>2, <2>3 DEF Instruct
  <2>8. /\ l \in Seq(Levels) /\ Len(l) = n /\ l[n] = v
        /\ \A j \in 1 .. m : l[j] = levels[j]
    BY ONLY <1>2, <1>4, <2>6, <2>7
  <2>9. /\ ~v[1].in /\ v[1].sym = Cur.sym
        /\ v[1].info = Cur.info /\ v[1].ino = Cur.ino
    BY <1>4, <1>5, <2>1, <2>4, <2>5 DEF Same
  <2>10. \A j \in 2 .. Len(v) : Unvisited(v[j])
    <3>1. \A j \in 2 .. Len(v) : j \in 2 .. Len(u) /\ j \in 1 .. Len(u)
      BY <2>5
    <3>2. \A j \in 2 .. Len(u) : Unvisited(u[j])
      BY <1>4, <2>1 DEF IInv, LevelsOK
    <3> QED
      BY <2>5, <3>1, <3>2 DEF Unvisited, Same
  <2>11. Ends(m)
    BY <1>1, <1>4, <2>3, <2>8, <2>9, <2>10 DEF Ends
  <2>12. Following =>
            levels'[n][1].sym \in {None, Closed, Where(n)} /\ InPlace'
    BY <1>1, <1>4, <1>5, <1>7, <2>3, <2>8, <2>9, <2>11, IdlePlace
  <2>13. ~stale => \A j \in 1 .. Len(v) : NewTo(v[j], m)
    BY <1>8, <2>1, <2>5 DEF NewTo
  <2>14. \A j \in 1 .. n : levels'[j][1].ino = levels[j][1].ino
    <3>1. \A j \in 1 .. n : j \in 1 .. m \/ j = n
      BY <1>4
    <3> QED
      BY <1>4, <2>3, <2>8, <2>9, <3>1
  <2>15. child' \in Seq(Entries) /\ ChildOK' /\ (~stale' => ChildNew')
    <3>1. levels' \in Seq(Levels) /\ levels' # <<>> /\ Len(levels') = n
      BY <1>4, <2>3, <2>8
    <3>2. ~stale' /\ child' # <<>> => levels'[n][1].info = "D"
      BY <1>1, <1>5, <1>9, <2>3, <2>8, <2>9
    <3> QED
      BY <1>1, <1>2, <1>5, <1>9, <2>14, <3>1, <3>2, ChildKept
  <2> QED
    BY <1>1, <1>2, <1>4, <1>5, <1>6, <2>3, <2>8, <2>11, <2>12, <2>13, <2>15, EndStep
<1>10. ASSUME levels' = levels, NEW instr \in Instrs, NEW i,
              child' = [child EXCEPT ![i].instr = instr]
       PROVE  IInv'
  <2>1. child \in Seq(Entries)
    BY DEF IInv, TypeCorrect
  <2>2. PICK c : c = child' /\ c = Instruct(child, i, instr)
    BY <1>10 DEF Instruct
  <2>3. /\ c \in Seq(Entries) /\ Len(c) = Len(child)
        /\ \A j \in 1 .. Len(child) : /\ Same(c[j], child[j]) /\ c[j].info = child[j].info
                                      /\ c[j].ino = child[j].ino
    BY ONLY instr \in Instrs, <2>1, <2>2, InstrIs
  <2>4. ChildOK'
    BY <2>2, <2>3 DEF IInv, ChildOK, Unvisited, Same
  <2>5. Ends(m) /\ Cur' = Cur
    BY <1>1, <1>2, <1>3, <1>10, StayIs
  <2>6. ASSUME ~stale PROVE ChildNew'
    <3>1. ChildNew
      BY <2>6 DEF IInv, Distinct
    <3>2. c # <<>> => child # <<>>
      BY <2>1, <2>3
    <3> QED
      BY <1>10, <2>2, <2>3, <2>5, <3>1, <3>2 DEF ChildNew, NewTo
  <2>7. Following => InPlace'
    BY <1>1, <1>4, <1>5, <2>5, IdlePlace
  <2> QED
    BY <1>1, <1>2, <1>4, <1>5, <1>6, <1>7, <1>8, <1>10, <2>2, <2>3, <2>4, <2>5, <2>6, <2>7,
       EndStep
<1> QED
  BY <1>2, <1>9, <1>10 DEF fts_set, Instrs

LEMMA InitOK == ASSUME Init PROVE IInv
<1>1. /\ cwd = Start /\ child = <<>> /\ stop = FALSE /\ build = Idle
      /\ astray = FALSE /\ stale = FALSE
  BY DEF Init, fts_open
<1>2. PICK roots : roots = [i \in DOMAIN Roots |->
                      fts_stat(<<>>, <<Roots[i]>>, Entry(Roots[i], "path"),
                               "COMFOLLOW" \in options)]
  OBVIOUS
<1>3. PICK e : e = Entry(None, "path")
  OBVIOUS
<1>4. PICK u : u = Cat(<<e>>, roots)
  OBVIOUS
<1>5. levels = <<u>>
  BY <1>2, <1>3, <1>4, Zenon DEF Init, fts_open, Cat
<1>6. e \in Entries /\ Unvisited(e) /\ e.info = "INIT"
  BY <1>3, EntryIs
<1>7. PICK n \in Nat : n = Len(Roots) /\ DOMAIN Roots = 1 .. n
  BY FtsAssumption
<1>8. ASSUME NEW i \in 1 .. n PROVE roots[i] \in Entries /\ Unvisited(roots[i])
  <2>1. PICK d : d = Entry(Roots[i], "path")
    OBVIOUS
  <2>2. d \in Entries /\ Unvisited(d)
    <3>1. Roots[i] \in Name
      BY <1>7, FtsAssumption
    <3> QED
      BY <2>1, <3>1, EntryIs
  <2>3. roots[i] = fts_stat(<<>>, <<Roots[i]>>, d, "COMFOLLOW" \in options)
    BY <1>2, <1>7, <2>1
  <2>4. roots[i] \in Entries /\ Same(roots[i], d)
    BY <2>2, <2>3, StatIs
  <2> QED
    BY <2>2, <2>4 DEF Unvisited, Same
<1>9. roots \in Seq(Entries) /\ Len(roots) = n
  <2>1. DOMAIN roots = 1 .. n /\ roots = [i \in 1 .. n |-> roots[i]]
    BY <1>2, <1>7
  <2>2. roots \in [1 .. n -> Entries]
    BY <1>8, <2>1
  <2> QED
    BY <1>7, <2>2
<1>10. /\ u \in Seq(Entries) /\ u # <<>> /\ u[1] = e
       /\ \A i \in 2 .. Len(u) : i - 1 \in 1 .. Len(roots) /\ u[i] = roots[i - 1]
  BY ONLY <1>4, <1>6, <1>9, ConsIs
<1>11. \A i \in 2 .. Len(u) : Unvisited(u[i])
  BY <1>8, <1>9, <1>10
<1>12. levels \in Seq(Levels) /\ levels # <<>> /\ Len(levels) = 1 /\ levels[1] = u
  BY <1>5, <1>10 DEF Levels
<1>13. /\ 1 .. Len(child) = {} /\ <<>> \in Seq(Entries) /\ 1 .. 1 = {1}
       /\ 1 .. 1 - 1 = {} /\ 2 .. 1 - 1 = {} /\ 1 - 1 = 0 /\ 1 .. 0 = {}
  BY <1>1
<1>14. TypeCorrect
  BY <1>1, <1>12, <1>13, FtsAssumption DEF TypeCorrect, Start
<1>15. LevelsOK /\ NeverIn
  BY <1>6, <1>10, <1>11, <1>12, <1>13 DEF LevelsOK, NeverIn, Unvisited
<1>16. ChildOK /\ BuildOK /\ AtStart
  BY <1>1, <1>13 DEF ChildOK, BuildOK, AtStart
<1>17. OnTrack
  BY <1>1, <1>6, <1>10, <1>12, <1>13, WhereFirst
     DEF OnTrack, SymsOK, NoGap, InPlace, Gone, Unvisited
<1>18. Distinct
  BY <1>1, <1>12, <1>13 DEF Distinct, LevelsNew, ChildNew, BuildNew, NewTo
<1> QED
  BY <1>14, <1>15, <1>16, <1>17, <1>18 DEF IInv

-----------------------------------------------------------------------------
(* Theorems about the walk.                                                *)

LEMMA NextOK == ASSUME IInv, [Next]_vars PROVE IInv'
<1>1. CASE fts_read
  BY <1>1, AgainOK, FollowLinkOK, SkipDirectoryOK, DescendOK, ReadDirectoryOK,
     NextRootOK, NextEntryOK, GoUpOK, EndOfWalkOK DEF fts_read
<1>2. CASE fts_set \/ fts_close
  BY <1>2, SetOK, CloseOK
<1>3. CASE BuildEntry \/ BuildFails \/ BuildDone
  BY <1>3, BuildEntryOK, BuildFailsOK, BuildDoneOK
<1>4. CASE \E type \in {"CHILD", "NAMES"} : fts_children(type)
  BY <1>4, ChildrenOK
<1>5. CASE \E d \in Dir, n \in Name : Unlink(d, n) \/ \E e \in Dir, m \in Name : Rename(d, n, e, m)
  <2>1. UNCHANGED <<options, cwd, levels, child, stop, build, past>>
    BY <1>5 DEF Unlink, Rename
  <2> QED
    BY <2>1, OthersOK
<1>6. CASE UNCHANGED vars
  <2>1. UNCHANGED <<options, cwd, levels, child, stop, build, past>>
    BY <1>6 DEF vars
  <2> QED
    BY <2>1, OthersOK
<1> QED
  BY <1>1, <1>2, <1>3, <1>4, <1>5, <1>6 DEF Next

\* The inductive invariant holds whatever is moved or removed, at any time: the
\* types of what fts.c keeps, the flags of the entries above the current one, where
\* the descriptors kept in fts_symfd lead, and what fts_build has found so far.
THEOREM Invariance == Spec => []IInv
<1>1. Init => IInv
  BY InitOK
<1>2. IInv /\ [Next]_vars => IInv'
  BY NextOK
<1> QED
  BY <1>1, <1>2, PTL DEF Spec

\* fts_read returns with the process in the directory whose entries it visits, as
\* the walk saw that directory when it came to it, or it stops; unless the walk went
\* down from a directory that it could not go to.
THEOREM WalkerStaysInPlace == Spec => []WalkerIsInPlace
<1>1. ASSUME IInv PROVE WalkerIsInPlace
  <2> SUFFICES ASSUME Reads, ~astray PROVE cwd = Where(Len(levels))
    BY DEF WalkerIsInPlace
  <2>1. build = Idle /\ ~stop /\ levels # <<>>
    BY DEF Reads
  <2>2. CASE Chdir
    <3>1. Following
      BY <2>1, <2>2 DEF Following
    <3> QED
      BY <1>1, <2>1, <3>1, ReadsPlace
  <2>3. CASE ~Chdir
    <3>1. PICK n : n = Len(levels)
      OBVIOUS
    <3>2. n \in Nat /\ \A j \in 1 .. n - 1 : j \in 1 .. n
      BY <1>1, <3>1 DEF IInv, TypeCorrect
    <3>3. Went(n) = {}
      BY <1>1, <2>3, <3>1, <3>2 DEF Went, IInv, NeverIn
    <3>4. Where(n) = Start
      BY <3>3, Zenon DEF Where
    <3>5. cwd = Start
      BY <1>1, <2>3 DEF IInv, AtStart
    <3> QED
      BY <3>1, <3>4, <3>5
  <2> QED
    BY <2>2, <2>3
<1> QED
  BY <1>1, Invariance, PTL

\* No directory is twice on the way to the current entry, wherever the links lead
\* and the directories are moved, unless FTS_AGAIN looked at an entry again whose
\* children fts_children had read: a walk is no deeper than there are directories.
THEOREM NoDirectoryIsTwice == Spec => []NoDirectoryTwice
<1>1. ASSUME IInv PROVE NoDirectoryTwice
  <2> SUFFICES ASSUME ~stale, NEW j \in 1 .. Len(levels) - 1, NEW k \in 1 .. Len(levels) - 1,
                      j < k
               PROVE  levels[j][1].ino # levels[k][1].ino
    BY DEF NoDirectoryTwice
  <2>1. LevelsNew /\ levels \in Seq(Levels)
    BY <1>1 DEF IInv, Distinct, TypeCorrect
  <2>2. k \in 1 .. Len(levels) /\ j \in 1 .. k - 1
    BY <2>1
  <2>3. levels[k] \in Levels
    BY <2>1, <2>2
  <2>4. 1 \in 1 .. Len(levels[k])
    BY <2>3 DEF Levels
  <2>5. levels[k][1].info = "D"
    BY <1>1 DEF IInv, LevelsOK
  <2>6. NewTo(levels[k][1], k - 1)
    BY <2>1, <2>2, <2>4 DEF LevelsNew
  <2> QED
    BY <2>2, <2>5, <2>6 DEF NewTo
<1> QED
  BY <1>1, Invariance, PTL

-----------------------------------------------------------------------------
(* The driver of xaos: the queue of events.                                *)

Queues == [tail : 0 .. MaxEvents - 1, num : 0 .. MaxEvents - 1,
           queue : [0 .. MaxEvents - 1 -> {0} \cup Event]]

Ring(a) == a % MaxEvents

\* Where the n-th event that waits is.
Slot(n) == Ring(EventQueue.tail + n - 1)

\* g has how the mouse is after each of the events that wait.
Leads(g) ==
    /\ g[0] = mouse /\ g[EventQueue.num] = hand
    /\ \A n \in 1 .. EventQueue.num : g[n] = Apply(g[n - 1], EventQueue.queue[Slot(n)])

QueueInv ==
    /\ EventQueue \in Queues /\ lost \in BOOLEAN
    /\ xaos = "asleep" => EventQueue.num = 0
    /\ ~lost => \E g : Leads(g)

\* The queue is a ring, and no index is more than once around it.
LEMMA RingIs ==
    ASSUME NEW a \in 0 .. 2 * MaxEvents - 1
    PROVE  /\ Ring(a) = IF a < MaxEvents THEN a ELSE a - MaxEvents
           /\ Ring(a) \in 0 .. MaxEvents - 1
<1>1. MaxEvents \in Nat \ {0}
  BY XaosAssumption
<1>2. CASE a < MaxEvents
  BY <1>1, <1>2 DEF Ring
<1>3. CASE a >= MaxEvents
  BY <1>1, <1>3 DEF Ring
<1> QED
  BY <1>1, <1>2, <1>3

LEMMA SlotIs ==
    ASSUME EventQueue \in Queues, NEW n \in 1 .. MaxEvents
    PROVE  /\ Slot(n) \in 0 .. MaxEvents - 1
           /\ \A k \in 1 .. n - 1 : Slot(k) # Slot(n)
<1>1. MaxEvents \in Nat \ {0} /\ EventQueue.tail \in 0 .. MaxEvents - 1
  BY XaosAssumption DEF Queues
<1>2. PICK t : t = EventQueue.tail
  OBVIOUS
<1>3. ASSUME NEW k \in 1 .. n
      PROVE  /\ Slot(k) = (IF t + k - 1 < MaxEvents THEN t + k - 1 ELSE t + k - 1 - MaxEvents)
             /\ Slot(k) \in 0 .. MaxEvents - 1
  <2>1. PICK a : a = t + k - 1
    OBVIOUS
  <2>2. a \in 0 .. 2 * MaxEvents - 1
    BY <1>1, <1>2, <2>1
  <2>3. Ring(a) = (IF a < MaxEvents THEN a ELSE a - MaxEvents) /\ Ring(a) \in 0 .. MaxEvents - 1
    BY <2>2, RingIs
  <2>4. Slot(k) = Ring(a)
    BY <1>2, <2>1 DEF Slot
  <2> QED
    BY <1>1, <1>2, <2>1, <2>3, <2>4
<1> QED
  BY <1>1, <1>2, <1>3

\* After the first event the second is the first.
LEMMA SlotNext ==
    ASSUME EventQueue \in Queues, EventQueue'.tail = Ring(EventQueue.tail + 1),
           NEW n \in 1 .. MaxEvents - 1
    PROVE  Slot(n)' = Slot(n + 1)
<1>1. MaxEvents \in Nat \ {0} /\ EventQueue.tail \in 0 .. MaxEvents - 1
  BY XaosAssumption DEF Queues
<1>2. PICK t : t = EventQueue.tail
  OBVIOUS
<1>3. PICK u : u = EventQueue'.tail
  OBVIOUS
<1>4. t + 1 \in 0 .. 2 * MaxEvents - 1 /\ t + n \in 0 .. 2 * MaxEvents - 1
  BY <1>1, <1>2
<1>5. u = (IF t + 1 < MaxEvents THEN t + 1 ELSE t + 1 - MaxEvents) /\ u \in 0 .. MaxEvents - 1
  <2>1. PICK a : a = t + 1
    OBVIOUS
  <2>2. Ring(a) = (IF a < MaxEvents THEN a ELSE a - MaxEvents) /\ Ring(a) \in 0 .. MaxEvents - 1
    BY <1>4, <2>1, RingIs
  <2>3. u = Ring(a)
    BY <1>2, <1>3, <2>1
  <2> QED
    BY <1>1, <1>2, <2>1, <2>2, <2>3
<1>6. u + n - 1 \in 0 .. 2 * MaxEvents - 1
  BY <1>1, <1>5
<1>7. Slot(n)' = Ring(u + n - 1) /\ Slot(n + 1) = Ring(t + n)
  <2>1. Slot(n)' = Ring(u + n - 1)
    BY <1>3 DEF Slot, Ring
  <2>2. EventQueue.tail + (n + 1) - 1 = t + n
    BY <1>1, <1>2
  <2> QED
    BY <2>1, <2>2 DEF Slot
<1> QED
  BY <1>1, <1>2, <1>4, <1>5, <1>6, <1>7, RingIs

LEMMA HandleInputEventOK ==
    ASSUME QueueInv, NEW event \in Event, HandleInputEvent(event) PROVE QueueInv'
<1>1. /\ EventQueue' = Push(EventQueue, event) /\ mouse' = mouse /\ hand' = Apply(hand, event)
      /\ xaos' = (IF xaos = "asleep" THEN "awake" ELSE xaos)
      /\ lost' = (lost \/ EventQueue'.num # EventQueue.num + 1)
  BY DEF HandleInputEvent
<1>2. /\ EventQueue \in Queues /\ lost \in BOOLEAN /\ MaxEvents \in Nat \ {0}
  BY XaosAssumption DEF QueueInv
<1>3. PICK n : n = EventQueue.num
  OBVIOUS
<1>4. PICK k : k = Ring(EventQueue.tail + n)
  OBVIOUS
<1>5. /\ n \in 0 .. MaxEvents - 1 /\ n + 1 \in 1 .. MaxEvents
      /\ k = Slot(n + 1) /\ k \in 0 .. MaxEvents - 1
      /\ \A i \in 1 .. n : Slot(i) # k /\ Slot(i) \in 0 .. MaxEvents - 1
  <2>1. n \in 0 .. MaxEvents - 1 /\ n + 1 \in 1 .. MaxEvents /\ EventQueue.tail \in Nat
    BY <1>2, <1>3 DEF Queues
  <2>2. k = Slot(n + 1)
    <3>1. EventQueue.tail + (n + 1) - 1 = EventQueue.tail + n
      BY <2>1
    <3> QED
      BY <1>4, <3>1 DEF Slot
  <2>3. PICK m : m = n + 1
    OBVIOUS
  <2>4. Slot(m) \in 0 .. MaxEvents - 1 /\ \A i \in 1 .. m - 1 : Slot(i) # Slot(m)
    BY <1>2, <2>1, <2>3, SlotIs
  <2>5. \A i \in 1 .. n : Slot(i) \in 0 .. MaxEvents - 1
    BY <1>2, <2>1, SlotIs
  <2>6. \A i \in 1 .. n : i \in 1 .. m - 1
    BY <2>1, <2>3
  <2> QED
    BY <2>1, <2>2, <2>3, <2>4, <2>5, <2>6
<1>6. PICK c : c = IF n + 1 >= MaxEvents THEN n + 1 - MaxEvents ELSE n + 1
  OBVIOUS
<1>7. EventQueue' = [EventQueue EXCEPT !.queue[k] = event, !.num = c]
  <2>1. ~(n >= MaxEvents)
    BY <1>2, <1>5
  <2> QED
    BY <1>1, <1>3, <1>4, <1>6, <2>1, Zenon DEF Push, Ring
<1>8. c \in 0 .. MaxEvents - 1
  BY <1>2, <1>5, <1>6
<1>9. /\ EventQueue' \in Queues /\ EventQueue'.num = c /\ EventQueue'.tail = EventQueue.tail
      /\ EventQueue'.queue = [EventQueue.queue EXCEPT ![k] = event]
  BY <1>2, <1>5, <1>7, <1>8 DEF Queues
<1>10. (xaos' = "asleep") = FALSE /\ lost' \in BOOLEAN
  BY <1>1, <1>2
<1>11. ASSUME ~lost' PROVE \E g : Leads(g)'
  <2>1. c = n + 1 /\ ~lost
    BY <1>1, <1>2, <1>3, <1>9, <1>11
  <2>2. PICK g : Leads(g)
    BY <2>1 DEF QueueInv
  <2> DEFINE h == [i \in 0 .. c |-> IF i = c THEN hand' ELSE g[i]]
  <2>3. PICK d : d[c] = hand' /\ \A i \in 0 .. n : d[i] = g[i]
    <3>1. h[c] = hand' /\ \A i \in 0 .. n : h[i] = g[i]
      BY <1>5, <2>1
    <3> HIDE DEF h
    <3> QED
      BY <3>1
  <2> HIDE DEF h
  <2>4. g[0] = mouse /\ g[n] = hand /\ \A i \in 1 .. n : g[i] = Apply(g[i - 1], EventQueue.queue[Slot(i)])
    BY <1>3, <2>2 DEF Leads
  <2>5. d[0] = mouse'
    BY <1>1, <1>5, <2>3, <2>4
  <2>6. \A i \in 1 .. c : Slot(i)' = Slot(i)
    BY <1>9 DEF Slot
  <2>7. ASSUME NEW i \in 1 .. c PROVE d[i] = Apply(d[i - 1], EventQueue'.queue[Slot(i)])
    <3>1. CASE i = c
      <4>1. d[i - 1] = hand
        BY <1>5, <2>1, <2>3, <2>4, <3>1
      <4>2. EventQueue'.queue[Slot(i)] = event
        BY <1>2, <1>5, <1>9, <2>1, <3>1 DEF Queues
      <4> QED
        BY <1>1, <2>3, <3>1, <4>1, <4>2
    <3>2. CASE i # c
      <4>1. i \in 1 .. n /\ i \in 0 .. n /\ i - 1 \in 0 .. n
        BY <1>5, <2>1, <3>2
      <4>2. EventQueue'.queue[Slot(i)] = EventQueue.queue[Slot(i)]
        BY <1>2, <1>5, <1>9, <4>1 DEF Queues
      <4> QED
        BY <2>3, <2>4, <4>1, <4>2
    <3> QED
      BY <3>1, <3>2
  <2>8. Leads(d)'
    BY <1>9, <2>3, <2>5, <2>6, <2>7 DEF Leads
  <2> QED
    BY <2>8
<1> QED
  BY <1>9, <1>10, <1>11 DEF QueueInv

LEMMA TakeOK == ASSUME QueueInv, Take PROVE QueueInv'
<1>1. xaos' = "run" /\ hand' = hand /\ lost' = lost
  BY DEF Take
<1>2. EventQueue \in Queues /\ lost \in BOOLEAN /\ MaxEvents \in Nat \ {0}
  BY XaosAssumption DEF QueueInv
<1>3. CASE EventQueue.num = 0
  <2>1. EventQueue' = EventQueue /\ mouse' = mouse
    BY <1>3 DEF Take
  <2>2. \A g : Leads(g) => Leads(g)'
    BY <1>1, <2>1 DEF Leads, Slot
  <2> QED
    BY <1>1, <2>1, <2>2 DEF QueueInv
<1>4. CASE EventQueue.num # 0
  <2>1. PICK n : n = EventQueue.num - 1
    OBVIOUS
  <2>2. PICK t : t = Ring(EventQueue.tail + 1)
    OBVIOUS
  <2>3. /\ EventQueue' = [EventQueue EXCEPT !.tail = t, !.num = n]
        /\ mouse' = Apply(mouse, EventQueue.queue[EventQueue.tail])
    BY <1>4, <2>1, <2>2 DEF Take, Ring
  <2>4. /\ n \in 0 .. MaxEvents - 1 /\ EventQueue.num = n + 1 /\ n + 1 \in 0 .. MaxEvents - 1
        /\ EventQueue.tail \in 0 .. MaxEvents - 1
    BY <1>2, <1>4, <2>1 DEF Queues
  <2>5. t \in 0 .. MaxEvents - 1
    <3>1. EventQueue.tail + 1 \in 0 .. 2 * MaxEvents - 1
      BY <1>2, <2>4
    <3> QED
      BY <2>2, <3>1, RingIs
  <2>6. /\ EventQueue' \in Queues /\ EventQueue'.tail = t /\ EventQueue'.num = n
        /\ EventQueue'.queue = EventQueue.queue
    BY <1>2, <2>3, <2>4, <2>5 DEF Queues
  <2>7. ASSUME ~lost PROVE \E g : Leads(g)'
    <3>1. PICK g : Leads(g)
      BY <2>7 DEF QueueInv
    <3> DEFINE h == [i \in 0 .. n |-> g[i + 1]]
    <3>2. \A i \in 0 .. n : h[i] = g[i + 1]
      OBVIOUS
    <3> HIDE DEF h
    <3>3. g[0] = mouse /\ g[n + 1] = hand
          /\ \A i \in 1 .. n + 1 : g[i] = Apply(g[i - 1], EventQueue.queue[Slot(i)])
      BY <2>4, <3>1 DEF Leads
    <3>4. Slot(1) = EventQueue.tail
      <4>1. EventQueue.tail + 1 - 1 = EventQueue.tail /\ EventQueue.tail \in 0 .. 2 * MaxEvents - 1
            /\ EventQueue.tail < MaxEvents
        BY <1>2, <2>4
      <4> QED
        BY <4>1, RingIs DEF Slot
    <3>5. h[0] = mouse'
      <4>1. 1 \in 1 .. n + 1 /\ 0 \in 0 .. n /\ 0 + 1 = 1 /\ 1 - 1 = 0
        BY <2>4
      <4> QED
        BY <2>3, <3>2, <3>3, <3>4, <4>1
    <3>6. h[n] = hand'
      BY <1>1, <2>4, <3>2, <3>3
    <3>7. ASSUME NEW i \in 1 .. n PROVE h[i] = Apply(h[i - 1], EventQueue'.queue[Slot(i)'])
      <4>1. PICK j : j = i + 1
        OBVIOUS
      <4>2. /\ i \in 0 .. n /\ i - 1 \in 0 .. n /\ j \in 1 .. n + 1 /\ j - 1 = i /\ i - 1 + 1 = i
            /\ i \in 1 .. MaxEvents - 1
        BY <1>2, <2>4, <4>1
      <4>3. Slot(i)' = Slot(j)
        BY <1>2, <2>2, <2>6, <4>1, <4>2, SlotNext
      <4>4. h[i] = g[j] /\ h[i - 1] = g[i]
        BY <3>2, <4>1, <4>2
      <4>5. g[j] = Apply(g[i], EventQueue.queue[Slot(j)])
        BY <3>3, <4>2
      <4> QED
        BY <2>6, <4>3, <4>4, <4>5
    <3>8. Leads(h)'
      BY <2>6, <3>5, <3>6, <3>7 DEF Leads
    <3> QED
      BY <3>8
  <2> QED
    BY <1>1, <1>2, <2>6, <2>7 DEF QueueInv
<1> QED
  BY <1>3, <1>4

LEMMA QueueStepOK ==
    ASSUME QueueInv, \/ \E event \in Event : HandleInputEvent(event)
                     \/ Take
                     \/ UNCHANGED input /\ (xaos' = "asleep" => EventQueue.num = 0)
    PROVE  QueueInv'
<1>1. CASE \E event \in Event : HandleInputEvent(event)
  BY <1>1, HandleInputEventOK
<1>2. CASE Take
  BY <1>2, TakeOK
<1>3. CASE UNCHANGED input /\ (xaos' = "asleep" => EventQueue.num = 0)
  <2>1. EventQueue' = EventQueue /\ mouse' = mouse /\ hand' = hand /\ lost' = lost
    BY <1>3 DEF input
  <2>2. \A g : Leads(g) => Leads(g)'
    BY <2>1 DEF Leads, Slot, Ring
  <2>3. Queues' = Queues
    BY DEF Queues, Event, Button
  <2> QED
    BY <1>3, <2>1, <2>2 DEF QueueInv
<1> QED
  BY <1>1, <1>2, <1>3

LEMMA QueueNextOK == ASSUME QueueInv, [Run]_driver PROVE QueueInv'
<1> SUFFICES \/ \E event \in Event : HandleInputEvent(event)
             \/ Take
             \/ UNCHANGED input /\ (xaos' = "asleep" => EventQueue.num = 0)
  BY QueueStepOK
<1>1. xaos = "asleep" => EventQueue.num = 0
  BY DEF QueueInv
<1>2. CASE \E event \in Event : HandleInputEvent(event)
  BY <1>2
<1>3. CASE (\E wait \in BOOLEAN : ProcessEvents(wait)) \/ Woken
  BY <1>3 DEF ProcessEvents, Woken
<1>4. CASE Main \/ Browser \/ DidChangeFocus
  BY <1>1, <1>4 DEF Main, Browser, ScreenUpdateCallbackFun, PaintAndFlush, FlushReads,
     FlushCallbackFun, DidChangeFocus
<1>5. CASE DrawAndFlip
  BY <1>1, <1>5 DEF DrawAndFlip
<1>6. CASE CopyImageDataToVideo
  BY <1>6 DEF CopyImageDataToVideo
<1>7. CASE Copying
  BY <1>1, <1>7 DEF Copying, CopyHalf, CopyRest
<1>8. CASE UNCHANGED driver
  BY <1>1, <1>8 DEF driver
<1> QED
  BY <1>2, <1>3, <1>4, <1>5, <1>6, <1>7, <1>8 DEF Run

LEMMA QueueInitOK == ASSUME DidChangeView PROVE QueueInv
<1>1. /\ EventQueue = [tail |-> 0, num |-> 0, queue |-> [i \in 0 .. MaxEvents - 1 |-> 0]]
      /\ xaos = "run" /\ hand = mouse /\ lost = FALSE
  BY DEF DidChangeView
<1>2. EventQueue \in Queues
  BY <1>1, XaosAssumption DEF Queues
<1>3. PICK g : g = [i \in {0} |-> mouse]
  OBVIOUS
<1>4. Leads(g)
  <2>1. EventQueue.num = 0 /\ 1 .. 0 = {} /\ g[0] = mouse
    BY <1>1, <1>3
  <2> QED
    BY <1>1, <2>1 DEF Leads
<1> QED
  BY <1>1, <1>2, <1>4 DEF QueueInv

\* The events that wait lead from the mouse as xaos knows it to the mouse as it is.
LEMMA ExpectedIs ==
    ASSUME EventQueue \in Queues, NEW g, Leads(g)
    PROVE  Expected[EventQueue.num] = hand
<1> DEFINE Further(f, n) ==
               IF n = 0 THEN mouse
               ELSE Apply(f[n - 1], EventQueue.queue[(EventQueue.tail + n - 1) % MaxEvents])
<1>1. PICK m \in Nat : m = EventQueue.num
  BY XaosAssumption DEF Queues
<1>2. PICK h : h = [n \in 0 .. m |-> g[n]]
  OBVIOUS
<1>3. /\ g[0] = mouse /\ g[m] = hand
      /\ \A n \in 1 .. m : g[n] = Apply(g[n - 1], EventQueue.queue[Slot(n)])
  BY <1>1 DEF Leads
<1>4. ASSUME NEW n \in 0 .. m PROVE h[n] = Further(h, n)
  <2>1. CASE n = 0
    BY <1>2, <1>3, <2>1
  <2>2. CASE n # 0
    <3>1. n \in 1 .. m /\ n - 1 \in 0 .. m
      BY <1>1, <2>2
    <3>2. h[n] = g[n] /\ h[n - 1] = g[n - 1]
      BY <1>2, <3>1
    <3>3. g[n] = Apply(g[n - 1], EventQueue.queue[Slot(n)])
      BY <1>3, <3>1
    <3> QED
      BY <2>2, <3>2, <3>3 DEF Slot, Ring
  <2> QED
    BY <2>1, <2>2
<1>5. h = [n \in 0 .. m |-> Further(h, n)]
  <2>1. h = [n \in 0 .. m |-> h[n]]
    BY <1>2
  <2> HIDE DEF Further
  <2> QED
    BY <1>4, <2>1
<1>6. Expected = [n \in 0 .. m |-> Further(Expected, n)]
  BY <1>1, <1>5, Zenon DEF Expected
<1> HIDE DEF Further
<1> DEFINE T == {n \in 0 .. m : Expected[n] # g[n]}
<1>7. SUFFICES ASSUME T # {} PROVE FALSE
  BY <1>1, <1>3
<1>8. PICK n \in T : \A k \in T : n <= k
  <2>1. T \subseteq Nat
    OBVIOUS
  <2> HIDE DEF T
  <2> QED
    BY <1>7, <2>1, Least
<1>9. n \in 0 .. m /\ Expected[n] # g[n] /\ Expected[n] = Further(Expected, n)
  BY <1>6, <1>8
<1>10. CASE n = 0
  BY <1>3, <1>9, <1>10 DEF Further
<1>11. CASE n # 0
  <2>1. n \in 1 .. m /\ n - 1 \in 0 .. m /\ ~(n <= n - 1)
    BY <1>1, <1>9, <1>11
  <2>2. Expected[n - 1] = g[n - 1]
    BY <1>8, <2>1
  <2>3. g[n] = Apply(g[n - 1], EventQueue.queue[Slot(n)])
    BY <1>3, <2>1
  <2> QED
    BY <1>9, <1>11, <2>2, <2>3 DEF Further, Slot, Ring
<1> QED
  BY <1>10, <1>11

\* No event is lost on the way to xaos while the queue has not been full, none comes
\* twice or out of order, and xaos does not sleep over one, for every length of the
\* queue (HandleInputEvent, GetEvent).
THEOREM MouseIsFollowed == DriverSpec => []MouseFollows
<1>1. DidChangeView => QueueInv
  BY QueueInitOK
<1>2. QueueInv /\ [Run]_driver => QueueInv'
  BY QueueNextOK
<1>3. QueueInv => MouseFollows
  BY ExpectedIs DEF QueueInv, MouseFollows
<1> QED
  BY <1>1, <1>2, <1>3, PTL DEF DriverSpec

-----------------------------------------------------------------------------
(* The driver of xaos: the screen.                                         *)

Halves == [1 .. 2 -> Nat]
Videos == [dirty : BOOLEAN, flush_mutex : {"free", "main", "xaos"}, image_data : Halves]

ScreenTypes ==
    /\ main \in {"idle", "lock"} /\ flush \in {"no", "begun", "half"}
    /\ xaos \in {"run", "copy", "asleep", "awake"}
    /\ Video \in Videos /\ screen \in Halves
    /\ buffers \in Halves /\ current_buffer \in {1, 2}

\* The mutex is the main thread's for the time of a flush, and the thread of xaos has
\* it while it copies: what is read for the second half of the screen is the frame
\* that was read for the first.
ScreenInv ==
    /\ ScreenTypes
    /\ flush # "no" <=> Video.flush_mutex = "main"
    /\ xaos = "copy" <=> Video.flush_mutex = "xaos"
    /\ xaos # "copy" => Video.image_data[1] = Video.image_data[2]
    /\ flush = "no" => screen[1] = screen[2]
    /\ flush = "half" => screen[1] = Video.image_data[1]
    /\ \A i \in 1 .. 2 : /\ screen[i] <= Video.image_data[i]
                         /\ Video.image_data[i] <= buffers[current_buffer]
    /\ buffers[3 - current_buffer] <= buffers[current_buffer]

Forward == \A i \in 1 .. 2 : screen[i] <= screen'[i]

LEMMA ScreenStays ==
    ASSUME ScreenInv, UNCHANGED <<Video, flush, screen, drawn>>,
           main' \in {"idle", "lock"}, xaos' \in {"run", "copy", "asleep", "awake"},
           xaos' = "copy" <=> xaos = "copy"
    PROVE  ScreenInv' /\ Forward
  BY DEF ScreenInv, ScreenTypes, drawn, Halves, Videos, Forward

LEMMA MainOK == ASSUME ScreenInv, Main \/ DidChangeFocus PROVE ScreenInv' /\ Forward
<1>1. CASE ScreenUpdateCallbackFun
  BY <1>1, ScreenStays DEF ScreenUpdateCallbackFun, ScreenInv, ScreenTypes
<1>2. CASE PaintAndFlush
  BY <1>2 DEF PaintAndFlush, ScreenInv, ScreenTypes, drawn, Halves, Videos, Forward
<1>3. CASE DidChangeFocus
  <2>1. Video \in Videos
    BY DEF ScreenInv, ScreenTypes
  <2>2. /\ Video' \in Videos /\ Video'.image_data = Video.image_data
        /\ Video'.flush_mutex = Video.flush_mutex
    BY <1>3, <2>1 DEF DidChangeFocus, Videos
  <2>3. UNCHANGED <<main, flush, screen, xaos, buffers, current_buffer>>
    BY <1>3 DEF DidChangeFocus, drawn
  <2> QED
    BY <2>2, <2>3 DEF ScreenInv, ScreenTypes, Halves, Forward
<1> QED
  BY <1>1, <1>2, <1>3 DEF Main

LEMMA BrowserOK == ASSUME ScreenInv, Browser PROVE ScreenInv' /\ Forward
<1>1. CASE FlushReads
  BY <1>1 DEF FlushReads, ScreenInv, ScreenTypes, drawn, Halves, Videos, Forward
<1>2. CASE FlushCallbackFun
  <2>1. Video \in Videos
    BY DEF ScreenInv, ScreenTypes
  <2>2. /\ Video' \in Videos /\ Video'.image_data = Video.image_data
        /\ Video'.flush_mutex = "free"
    BY <1>2, <2>1 DEF FlushCallbackFun, Videos
  <2>3. /\ UNCHANGED <<main, xaos, buffers, current_buffer>>
        /\ flush = "half" /\ flush' = "no"
        /\ screen' = [screen EXCEPT ![2] = Video.image_data[2]]
    BY <1>2 DEF FlushCallbackFun, drawn
  <2> QED
    BY <2>2, <2>3 DEF ScreenInv, ScreenTypes, Halves, Forward
<1> QED
  BY <1>1, <1>2 DEF Browser

LEMMA DrawAndFlipOK == ASSUME ScreenInv, DrawAndFlip PROVE ScreenInv' /\ Forward
<1>1. PICK next : /\ next = Max({buffers[1], buffers[2]}) + 1
                  /\ buffers' = [buffers EXCEPT ![3 - current_buffer] = next]
                  /\ current_buffer' = 3 - current_buffer
                  /\ UNCHANGED <<video, xaos, input>>
  BY DEF DrawAndFlip
<1>2. PICK a \in Nat : a = buffers[1]
  BY DEF ScreenInv, ScreenTypes, Halves
<1>3. PICK b \in Nat : b = buffers[2]
  BY DEF ScreenInv, ScreenTypes, Halves
<1>4. \E x \in {a, b} : \A y \in {a, b} : x >= y
  OBVIOUS
<1>5. Max({a, b}) \in {a, b} /\ Max({a, b}) >= a /\ Max({a, b}) >= b
  BY <1>4, Zenon DEF Max
<1>6. next \in Nat /\ next > buffers[1] /\ next > buffers[2]
  BY <1>1, <1>2, <1>3, <1>5
<1>7. /\ Video' = Video /\ main' = main /\ flush' = flush /\ screen' = screen /\ xaos' = xaos
  BY <1>1 DEF video
<1>8. CASE current_buffer = 1
  BY <1>1, <1>6, <1>7, <1>8 DEF ScreenInv, ScreenTypes, Halves, Videos, Forward
<1>9. CASE current_buffer = 2
  BY <1>1, <1>6, <1>7, <1>9 DEF ScreenInv, ScreenTypes, Halves, Videos, Forward
<1> QED
  BY <1>8, <1>9 DEF ScreenInv, ScreenTypes

LEMMA CopyOK ==
    ASSUME ScreenInv, CopyImageDataToVideo \/ Copying PROVE ScreenInv' /\ Forward
<1>1. CASE CopyImageDataToVideo
  <2>1. Video \in Videos
    BY DEF ScreenInv, ScreenTypes
  <2>2. /\ Video' \in Videos /\ Video'.image_data = Video.image_data
        /\ Video'.flush_mutex = "xaos"
    BY <1>1, <2>1 DEF CopyImageDataToVideo, Videos
  <2>3. /\ UNCHANGED <<main, flush, screen, buffers, current_buffer>>
        /\ Video.flush_mutex = "free" /\ xaos' = "copy"
    BY <1>1 DEF CopyImageDataToVideo, drawn
  <2> QED
    BY <2>2, <2>3 DEF ScreenInv, ScreenTypes, Halves, Forward
<1>2. CASE CopyHalf
  BY <1>2 DEF CopyHalf, ScreenInv, ScreenTypes, drawn, Halves, Videos, Forward
<1>3. CASE CopyRest
  <2>1. Video \in Videos /\ buffers[current_buffer] \in Nat
    BY DEF ScreenInv, ScreenTypes, Halves
  <2>2. PICK b \in Nat : b = buffers[current_buffer]
    BY <2>1
  <2>3. PICK d : d = [Video.image_data EXCEPT ![2] = b]
    OBVIOUS
  <2>4. d \in Halves /\ d[1] = Video.image_data[1] /\ d[2] = b
    BY <2>1, <2>2, <2>3 DEF Videos, Halves
  <2>5. Video' = [Video EXCEPT !.image_data = d, !.flush_mutex = "free"]
    BY <1>3, <2>1, <2>2, <2>3 DEF CopyRest, Videos
  <2>6. Video' \in Videos /\ Video'.image_data = d /\ Video'.flush_mutex = "free"
    BY <2>1, <2>4, <2>5 DEF Videos
  <2>7. /\ UNCHANGED <<main, flush, screen, buffers, current_buffer>>
        /\ xaos = "copy" /\ xaos' = "run" /\ Video.image_data[1] = b
    BY <1>3, <2>2 DEF CopyRest, drawn
  <2> QED
    BY <2>2, <2>4, <2>6, <2>7 DEF ScreenInv, ScreenTypes, Halves, Forward
<1> QED
  BY <1>1, <1>2, <1>3 DEF Copying

LEMMA ScreenNextOK == ASSUME ScreenInv, [Run]_driver PROVE ScreenInv' /\ Forward
<1>1. CASE Main \/ DidChangeFocus
  BY <1>1, MainOK
<1>2. CASE Browser
  BY <1>2, BrowserOK
<1>3. CASE \E event \in Event : HandleInputEvent(event)
  <2>1. /\ UNCHANGED <<Video, flush, screen, drawn>> /\ main' = main
        /\ xaos' = IF xaos = "asleep" THEN "awake" ELSE xaos
    BY <1>3 DEF HandleInputEvent, video
  <2> QED
    BY <2>1, ScreenStays DEF ScreenInv, ScreenTypes
<1>4. CASE DrawAndFlip
  BY <1>4, DrawAndFlipOK
<1>5. CASE CopyImageDataToVideo \/ Copying
  BY <1>5, CopyOK
<1>6. CASE (\E wait \in BOOLEAN : ProcessEvents(wait)) \/ Woken
  <2>1. /\ UNCHANGED <<Video, flush, screen, drawn>> /\ main' = main
        /\ xaos # "copy" /\ xaos' \in {"run", "asleep"}
    BY <1>6 DEF ProcessEvents, Woken, Take, video
  <2> QED
    BY <2>1, ScreenStays DEF ScreenInv, ScreenTypes
<1>7. CASE UNCHANGED driver
  <2>1. UNCHANGED <<Video, flush, screen, drawn>> /\ main' = main /\ xaos' = xaos
    BY <1>7 DEF driver, video
  <2> QED
    BY <2>1, ScreenStays DEF ScreenInv, ScreenTypes
<1> QED
  BY <1>1, <1>2, <1>3, <1>4, <1>5, <1>6, <1>7 DEF Run

LEMMA ScreenInitOK == ASSUME DidChangeView PROVE ScreenInv
  BY DEF DidChangeView, ScreenInv, ScreenTypes, Halves, Videos, Whole

\* What the driver of xaos keeps has its types (ppapi.c, ui_nacl.c).
THEOREM DriverTypes == DriverSpec => []TypeOK
<1>1. DidChangeView => QueueInv /\ ScreenInv
  BY QueueInitOK, ScreenInitOK
<1>2. QueueInv /\ ScreenInv /\ [Run]_driver => QueueInv' /\ ScreenInv'
  BY QueueNextOK, ScreenNextOK
<1>3. QueueInv /\ ScreenInv => TypeOK
  BY DEF QueueInv, Queues, ScreenInv, ScreenTypes, Videos, TypeOK
<1> QED
  BY <1>1, <1>2, <1>3, PTL DEF DriverSpec

\* A flush that is done shows one frame, though the browser reads the halves of the
\* picture at two times and the thread of xaos copies the next frame meanwhile.
THEOREM FramesAreWhole == DriverSpec => [](flush = "no" => screen[1] = screen[2])
<1>1. DidChangeView => ScreenInv
  BY ScreenInitOK
<1>2. ScreenInv /\ [Run]_driver => ScreenInv'
  BY ScreenNextOK
<1>3. ScreenInv => (flush = "no" => screen[1] = screen[2])
  BY DEF ScreenInv
<1> QED
  BY <1>1, <1>2, <1>3, PTL DEF DriverSpec

\* The user never sees an older frame after a newer one, whatever the order of copies,
\* refreshes and flushes.
THEOREM FramesGoForward == DriverSpec => [][Forward]_driver
<1>1. DidChangeView => ScreenInv
  BY ScreenInitOK
<1>2. ScreenInv /\ [Run]_driver => ScreenInv'
  BY ScreenNextOK
<1>3. ScreenInv /\ [Run]_driver => [Forward]_driver
  BY ScreenNextOK
<1> QED
  BY <1>1, <1>2, <1>3, PTL DEF DriverSpec

=============================================================================
