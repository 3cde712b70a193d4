---------------------------------- MODULE Fts ----------------------------------
(***************************************************************************)
(* The walk of a file tree by fts.c of glibc-compat, while others move and *)
(* remove what is in the tree.  A walk that changes directories (without   *)
(* FTS_NOCHDIR) goes down by name and up by "..", and compares the         *)
(* directory it gets with the one it saw.                                  *)
(*                                                                         *)
(* The lists of an FTS are here the levels of the walk: the first entry of *)
(* a level is on the path to the current one, which is the first entry of  *)
(* the last level, and the others are its fts_link.                        *)
(***************************************************************************)
EXTENDS Naturals, Sequences, SequencesExt, FiniteSets

CONSTANTS Dir, File, Link,  \* the nodes of the file system
          Name, Top,        \* names, and the root directory, where the walk starts
          Target,           \* link -> its target, a sequence of names from Top
          Mounted,          \* the directories on a second device
          Roots,            \* the names given to fts_open
          Setups            \* what the walk starts with: the options of fts_open,
                            \* the tree (directory -> name -> node) and, as a bound,
                            \* how often others change it

None   == "none"
Closed == "closed"

ASSUME FtsAssumption ==
    /\ Top \in Dir /\ Mounted \subseteq Dir /\ None \notin Dir \cup File \cup Link
    /\ Closed \notin Dir /\ IsFiniteSet(Name)
    /\ \A s \in Setups :
          /\ s.tree \in [Dir -> [Name -> Dir \cup File \cup Link \cup {None}]]
          /\ s.changes \in Nat
    /\ Roots \in Seq(Name) /\ Roots # <<>>

VARIABLES world, changes,   \* the tree, and the changes that are left
          options,     \* fts_options
          cwd,         \* the current directory of the process
          levels,      \* the walk; <<>> when it has ended
          child,       \* fts_child
          nameonly,    \* FTS_NAMEONLY
          stop,        \* FTS_STOP
          dev,         \* fts_dev
          build,       \* the call of fts_build, or Idle
          astray,      \* history: the walk left a directory without going up, or
                       \* went down from one that it could not go to
          stale,       \* history: an entry was looked at again, its children were not
          log          \* history: what fts_read returned, or "disturbed"

tree   == <<world, changes>>
past   == <<astray, stale>>
vars   == <<tree, options, cwd, levels, child, nameonly, stop, dev, build, past, log>>

-----------------------------------------------------------------------------
(* The file system.                                                        *)

\* A link leads to the end of all links on the way; one in a circle leads nowhere.
Follow(x)    ==
    LET lead[i \in Nat] ==       \* where each link leads, by at most i links in a row
            LET end(y) == IF y \in Link THEN lead[i - 1][y] ELSE y
                next(y, n) == IF end(y) \in Dir THEN world[end(y)][n] ELSE None
            IN  [l \in Link |-> IF i = 0 THEN None ELSE end(FoldLeft(next, Top, Target[l]))]
    IN  IF x \in Link THEN lead[Cardinality(Link)][x] ELSE x
Resolve(path) ==
    FoldLeft(LAMBDA x, n : IF Follow(x) \in Dir THEN world[Follow(x)][n] ELSE None, cwd, path)
Holders(x)   == {d \in Dir : \E n \in Name : world[d][n] = x}
DotDot       == IF Holders(cwd) = {} THEN None ELSE CHOOSE d \in Holders(cwd) : TRUE
Listing(d)   == SetToSeq({n \in Name : world[d][n] # None})
Below(d)     == LET sub[i \in Nat] ==
                        IF i = 0 THEN {d}
                        ELSE sub[i - 1] \cup {x \in Dir : Holders(x) \cap sub[i - 1] # {}}
                IN  sub[Cardinality(Dir)]

-----------------------------------------------------------------------------
(* Entries.                                                                *)

Chdir  == "NOCHDIR" \notin options
Start  == Top
Idle   == [type |-> "none"]

\* acc: the name to use from the current directory, or "path", the whole path;
\* sym: the directory of fts_symfd; in: the walk is in this directory.
Entry(name, acc) ==
    [name |-> name, acc |-> acc, info |-> "INIT", ino |-> None, err |-> FALSE,
     dont |-> FALSE, sym |-> None, instr |-> "NOINSTR", in |-> FALSE]

Path(l)      == [k \in DOMAIN l |-> l[k][1].name]
Inos(l)      == {l[k][1].ino : k \in DOMAIN l}
Cur          == Last(levels)[1]
Above        == Front(levels)
SetCur(e)    == [levels EXCEPT ![Len(levels)] = <<e>> \o Tail(@)]
\* fts_path is one buffer, that holds the path of the entry returned last.
Accpath(buffer, e) == IF e.acc = "path" THEN buffer ELSE <<e.acc>>

\* A defect: fts_stat without the search for a cycle.
StatNoCycle(above, buffer, e, follow) ==
    LET node == Resolve(Accpath(buffer, e))
        all  == follow \/ "LOGICAL" \in options
        n    == IF all THEN Follow(node) ELSE node
    IN  IF n = None /\ (~all \/ node = None) THEN [e EXCEPT !.info = "NS", !.err = TRUE]
        ELSE IF n = None THEN [e EXCEPT !.info = "SLNONE"]
        ELSE IF n \in Dir THEN [e EXCEPT !.info = "D", !.ino = n]
        ELSE [e EXCEPT !.info = IF n \in Link THEN "SL" ELSE "F"]

fts_stat(above, buffer, e, follow) ==
    LET node == Resolve(Accpath(buffer, e))
        all  == follow \/ "LOGICAL" \in options
        n    == IF all THEN Follow(node) ELSE node
    IN  IF n = None /\ (~all \/ node = None) THEN [e EXCEPT !.info = "NS", !.err = TRUE]
        ELSE IF n = None THEN [e EXCEPT !.info = "SLNONE"]
        ELSE IF n \in Dir
             THEN [e EXCEPT !.info = IF n \in Inos(above) THEN "DC" ELSE "D", !.ino = n]
        ELSE [e EXCEPT !.info = IF n \in Link THEN "SL" ELSE "F"]

\* To go down from a directory that the walk could not go to.
Parent == Last(Above)[1]
Strays == Chdir /\ Len(levels) > 1 /\ ~Parent.in

\* A defect: fts_safe_changedir that goes to whatever directory it finds.
ChangeAnyway(e, node) == ~Chdir \/ node \in Dir

\* Whether the process may go to a directory it has opened for e.
fts_safe_changedir(e, node) == ~Chdir \/ (node \in Dir /\ node = e.ino)
GoTo(node) == cwd' = IF Chdir THEN node ELSE cwd

\* A link to a directory is followed; "." is kept open to get back.
Followed(above, e) ==
    LET q == [fts_stat(above, Path(levels), e, TRUE) EXCEPT !.instr = "NOINSTR"]
    IN  IF q.info # "D" \/ ~Chdir THEN {q}
        ELSE {[q EXCEPT !.sym = cwd], [q EXCEPT !.err = TRUE, !.info = "ERR"]}

-----------------------------------------------------------------------------
(* fts_read returns the current entry of l, or stops.                      *)

Disturb == log' = "disturbed"
Return(l) ==
    /\ levels' = l
    /\ log' = IF log = "disturbed" \/ l = <<>> THEN log
              ELSE Append(log, <<Path(l), Last(l)[1].info>>)
Stop == stop' = TRUE /\ UNCHANGED levels /\ Disturb

Reads == build = Idle /\ ~stop /\ levels # <<>>
Rest  == UNCHANGED <<tree, options>>
P     == [Cur EXCEPT !.instr = "NOINSTR"]

Again ==
    /\ Reads /\ Cur.instr = "AGAIN"
    /\ Return(SetCur(fts_stat(Above, Path(levels), P, FALSE)))
    /\ stale' = (stale \/ child # <<>>)
    /\ Rest /\ UNCHANGED <<cwd, child, nameonly, stop, dev, build, astray>>

FollowLink ==
    /\ Reads /\ Cur.instr = "FOLLOW" /\ Cur.info \in {"SL", "SLNONE"}
    /\ \E q \in Followed(Above, P) : Return(SetCur(q))
    /\ Rest /\ UNCHANGED <<cwd, child, nameonly, stop, dev, build, past>>

\* A directory in pre-order, that nobody asked to be read again.
Preorder == Reads /\ Cur.info = "D" /\ Cur.instr # "AGAIN"
Skipped  == Cur.instr = "SKIP" \/ ("XDEV" \in options /\ (Cur.ino \in Mounted) # dev)

SkipDirectory ==
    /\ Preorder /\ Skipped
    /\ child' = <<>>
    /\ Return(SetCur([P EXCEPT !.info = "DP", !.sym = IF @ = None THEN None ELSE Closed]))
    /\ Rest /\ UNCHANGED <<cwd, nameonly, stop, dev, build, past>>

\* The directory was read by fts_children.
Descend ==
    /\ Preorder /\ ~Skipped /\ child # <<>> /\ ~nameonly
    /\ LET node == Follow(Resolve(Accpath(Path(levels), Cur)))
       IN  IF fts_safe_changedir(Cur, node)
           THEN /\ GoTo(node) /\ astray' = (astray \/ Strays)
                /\ Return(Append(SetCur([P EXCEPT !.in = Chdir]), child))
           ELSE /\ UNCHANGED <<cwd, astray>>
                /\ Return(Append(SetCur([P EXCEPT !.err = TRUE, !.dont = TRUE]),
                                 [i \in DOMAIN child |-> [child[i] EXCEPT !.acc = Cur.acc]]))
    /\ child' = <<>>
    /\ Rest /\ UNCHANGED <<nameonly, stop, dev, build, stale>>

-----------------------------------------------------------------------------
(* fts_build, for fts_read ("READ") and fts_children ("CHILD", "NAMES").   *)

\* The directory is opened and, but for its names alone, gone to.
BuildOpen(type, e) ==
    LET node  == Follow(Resolve(Accpath(Path(levels), e)))
        goes  == type # "NAMES" /\ fts_safe_changedir(e, node)
        fails == type # "NAMES" /\ ~goes
    IN  \/ /\ node \in Dir
           /\ IF goes THEN GoTo(node) ELSE UNCHANGED cwd
           /\ astray' = (astray \/ (goes /\ Strays))
           /\ build' = [type |-> type, todo |-> Listing(node), got |-> <<>>,
                        descend |-> goes, cderr |-> fails]
           /\ levels' = SetCur([e EXCEPT !.err = @ \/ (fails /\ type = "READ"),
                                         !.dont = @ \/ fails])
           /\ UNCHANGED log
        \/ /\ node \notin Dir
           /\ UNCHANGED <<cwd, build, astray>>
           /\ IF type = "READ" THEN Return(SetCur([e EXCEPT !.info = "DNR", !.err = TRUE]))
              ELSE UNCHANGED <<levels, log>>

ReadDirectory ==
    /\ Preorder /\ ~Skipped /\ (child = <<>> \/ nameonly)
    /\ child' = <<>>
    /\ nameonly' = (nameonly /\ child = <<>>)
    /\ BuildOpen("READ", P)
    /\ Rest /\ UNCHANGED <<stop, dev, stale>>

\* One entry of the directory.
Stated(name) ==
    LET own == Entry(name, IF Chdir THEN name ELSE "path")
    IN  IF build.cderr THEN [Entry(name, Cur.acc) EXCEPT !.info = "NS", !.err = TRUE]
        ELSE IF build.type = "NAMES" THEN [own EXCEPT !.info = "NSOK"]
        ELSE fts_stat(levels, Append(Path(levels), name), own, FALSE)

BuildEntry ==
    /\ build # Idle /\ build.todo # <<>>
    /\ build' = [build EXCEPT !.todo = Tail(@), !.got = Append(@, Stated(Head(build.todo)))]
    /\ Rest /\ UNCHANGED <<cwd, levels, child, nameonly, stop, dev, past, log>>

\* No memory for an entry; fts_children of a root still goes back to ".".
BuildFails ==
    /\ build # Idle /\ build.todo # <<>>
    /\ build' = Idle /\ stop' = TRUE /\ Disturb
    /\ levels' = SetCur([Cur EXCEPT !.info = "ERR"])
    /\ cwd' = IF build.type # "READ" /\ Len(levels) = 1 THEN Start ELSE cwd
    /\ Rest /\ UNCHANGED <<child, nameonly, dev, past>>

\* A defect: fts_children stays in the directory.
StayInChild == build.descend /\ build.got = <<>>

\* Nothing was found, or only fts_children asked: back to where the entry is.
GoesBack == build.descend /\ (build.type = "CHILD" \/ build.got = <<>>)
Up       == IF Len(levels) = 1 THEN Start ELSE DotDot
CanGoUp  == Len(levels) = 1 \/ fts_safe_changedir(Last(Above)[1], Up)

BuildDone ==
    /\ build # Idle /\ build.todo = <<>>
    /\ build' = Idle
    /\ IF GoesBack /\ ~CanGoUp
       THEN /\ stop' = TRUE /\ levels' = SetCur([Cur EXCEPT !.info = "ERR"])
            /\ Disturb /\ UNCHANGED <<cwd, child>>
       ELSE /\ IF GoesBack THEN GoTo(Up) ELSE UNCHANGED cwd
            /\ UNCHANGED stop
            /\ IF build.type # "READ" THEN child' = build.got /\ UNCHANGED <<levels, log>>
               ELSE /\ UNCHANGED child
                    /\ Return(IF build.got = <<>> THEN SetCur([Cur EXCEPT !.info = "DP"])
                              ELSE Append(SetCur([Cur EXCEPT !.in = Chdir /\ build.descend]),
                                          build.got))
    /\ Rest /\ UNCHANGED <<nameonly, dev, past>>

-----------------------------------------------------------------------------
(* On to the next entry of the level, or up.                               *)

After   == Reads /\ Cur.info # "D" /\ Cur.instr # "AGAIN"
                 /\ ~(Cur.instr = "FOLLOW" /\ Cur.info \in {"SL", "SLNONE"})
Left    == Tail(Last(levels))
Kept    == {i \in DOMAIN Left : Len(levels) = 1 \/ Left[i].instr # "SKIP"}
Next1   == CHOOSE i \in Kept : \A j \in Kept : i <= j
Coming  == SubSeq(Left, Next1, Len(Left))

NextRoot ==
    /\ After /\ Len(levels) = 1 /\ Kept # {}
    /\ GoTo(Start)
    /\ dev' = (Coming[1].ino \in Mounted)
    /\ Return(<<Coming>>)
    /\ Rest /\ UNCHANGED <<child, nameonly, stop, build, past>>

NextEntry ==
    /\ After /\ Len(levels) > 1 /\ Kept # {}
    /\ \E q \in IF Coming[1].instr = "FOLLOW" THEN Followed(Above, Coming[1])
                ELSE {Coming[1]} :
          Return(Append(Above, <<q>> \o Tail(Coming)))
    /\ Rest /\ UNCHANGED <<cwd, child, nameonly, stop, dev, build, past>>

\* Up to the parent, which is visited in post-order.
GoUp ==
    /\ After /\ Kept = {} /\ Len(levels) > 1
    /\ LET up   == [Above EXCEPT ![Len(Above)] = <<[Parent EXCEPT
                       !.info = IF Parent.err THEN "ERR" ELSE "DP", !.in = FALSE,
                       !.sym = IF @ = None THEN None ELSE Closed]>> \o Tail(@)]
           lost == Len(levels) > 2 /\ Parent.sym = None /\ Parent.dont /\ Parent.in
       IN  /\ astray' = (astray \/ lost)
           /\ \/ /\ Len(levels) = 2 /\ GoTo(Start) /\ Return(up) /\ UNCHANGED stop
              \/ /\ Len(levels) > 2 /\ Parent.sym # None
                 /\ IF Parent.sym # Closed
                    THEN GoTo(Parent.sym) /\ Return(up) /\ UNCHANGED stop
                    ELSE Stop /\ UNCHANGED cwd
              \/ /\ Len(levels) > 2 /\ Parent.sym = None /\ Parent.dont
                 /\ Return(up) /\ UNCHANGED <<cwd, stop>>
              \/ /\ Len(levels) > 2 /\ Parent.sym = None /\ ~Parent.dont
                 /\ IF fts_safe_changedir(Above[Len(Above) - 1][1], DotDot)
                    THEN GoTo(DotDot) /\ Return(up) /\ UNCHANGED stop
                    ELSE Stop /\ UNCHANGED cwd
    /\ Rest /\ UNCHANGED <<child, nameonly, dev, build, stale>>

EndOfWalk ==
    /\ After /\ Kept = {} /\ Len(levels) = 1
    /\ Return(<<>>)
    /\ Rest /\ UNCHANGED <<cwd, child, nameonly, stop, dev, build, past>>

-----------------------------------------------------------------------------
(* The other calls.                                                        *)

fts_children(type) ==
    /\ Reads /\ Cur.info = "D"
    /\ child' = <<>>
    /\ nameonly' = (nameonly \/ type = "NAMES")
    /\ BuildOpen(type, Cur)
    /\ Rest /\ UNCHANGED <<stop, dev, stale>>

\* The caller has the current entry and those fts_children returned, before the
\* first fts_read the roots.
fts_set ==
    /\ Reads /\ Disturb
    /\ \/ \E instr \in {"AGAIN", "FOLLOW", "SKIP"},
             i \in IF Cur.info = "INIT" THEN DOMAIN levels[1] \ {1} ELSE {1} :
             /\ Last(levels)[i].instr = "NOINSTR"
             /\ levels' = [levels EXCEPT ![Len(levels)][i].instr = instr]
             /\ UNCHANGED child
       \/ \E i \in DOMAIN child, instr \in {"FOLLOW", "SKIP"} :
             /\ child[i].instr = "NOINSTR"
             /\ child' = [child EXCEPT ![i].instr = instr] /\ UNCHANGED levels
    /\ Rest /\ UNCHANGED <<cwd, nameonly, stop, dev, build, past>>

\* The way back is by the descriptor opened at first.
fts_close ==
    /\ build = Idle /\ (stop \/ levels = <<>>) /\ cwd # Start
    /\ GoTo(Start)
    /\ Rest /\ UNCHANGED <<levels, child, nameonly, stop, dev, build, past, log>>

\* Options and the list of the roots.
fts_open(o) ==
    /\ options = IF "LOGICAL" \in o THEN o \cup {"NOCHDIR"} ELSE o
    /\ cwd = Start
    /\ levels = <<<<Entry(None, "path")>> \o
                  [i \in DOMAIN Roots |->
                      fts_stat(<<>>, <<Roots[i]>>, Entry(Roots[i], "path"),
                               "COMFOLLOW" \in options)]>>
    /\ child = <<>> /\ nameonly = FALSE /\ stop = FALSE /\ dev = FALSE
    /\ build = Idle

\* Others: a file, a link or a directory is moved, or removed.
Change(w) == world' = w /\ changes' = changes - 1
Rename(d, n, e, m) ==
    /\ changes > 0
    /\ world[d][n] # None /\ world[e][m] = None
    /\ world[d][n] \notin Mounted /\ (d \in Mounted) = (e \in Mounted)
    /\ world[d][n] \in Dir => e \notin Below(world[d][n])
    /\ Change([world EXCEPT ![d][n] = None, ![e][m] = world[d][n]])
    /\ Disturb
    /\ UNCHANGED <<options, cwd, levels, child, nameonly, stop, dev, build, past>>

Unlink(d, n) ==
    /\ changes > 0
    /\ world[d][n] \notin {None} \cup Mounted
    /\ world[d][n] \in Dir => Listing(world[d][n]) = <<>>
    /\ Change([world EXCEPT ![d][n] = None])
    /\ Disturb
    /\ UNCHANGED <<options, cwd, levels, child, nameonly, stop, dev, build, past>>

Init ==
    /\ \E s \in Setups : world = s.tree /\ changes = s.changes /\ fts_open(s.options)
    /\ astray = FALSE /\ stale = FALSE /\ log = <<>>

fts_read ==
    \/ Again \/ FollowLink \/ SkipDirectory \/ Descend \/ ReadDirectory
    \/ NextRoot \/ NextEntry \/ GoUp \/ EndOfWalk

Next ==
    \/ fts_read \/ fts_set \/ fts_close
    \/ BuildEntry \/ BuildFails \/ BuildDone
    \/ \E type \in {"CHILD", "NAMES"} : fts_children(type)
    \/ \E d \in Dir, n \in Name : Unlink(d, n) \/ \E e \in Dir, m \in Name : Rename(d, n, e, m)

Spec == Init /\ [][Next]_vars

-----------------------------------------------------------------------------
(* Properties.                                                             *)

\* Where the walk thinks it is while it visits level k: in the last directory it
\* went to on the way there.
Went(k)  == {j \in 1 .. k - 1 : levels[j][1].in}
Where(k) == IF Went(k) = {} THEN Start ELSE levels[Max(Went(k))][1].ino

\* Whatever is moved or removed, fts_read returns with the process in the
\* directory whose entries it visits, as it saw that directory, or stops; this
\* fails only after the walk went down from a directory that it could not go to,
\* or FTS_DONTCHDIR was left over from an earlier failure.
WalkerIsInPlace ==
    Reads /\ ~astray => cwd = Where(Len(levels))

\* A directory is on the way to the current entry once, however others move the
\* directories and whatever links lead back: the walk is no deeper than there are
\* directories.  Only fts_children followed by FTS_AGAIN gives a directory the
\* children that another one had.
NoDirectoryTwice ==
    ~stale => \A j, k \in 1 .. Len(levels) - 1 :
                  j < k => levels[j][1].ino # levels[k][1].ino
=============================================================================
