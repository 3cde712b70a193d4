--------------------------------- MODULE MCFts ---------------------------------
(***************************************************************************)
(* Fts on small trees.                                                     *)
(***************************************************************************)
EXTENDS Fts

CONSTANTS top, a, b, e, f, back, link

MCDir  == {top, a, b, e}
MCFile == {f}
MCLink == {back, link}
MCName == {"x", "y"}

Contents(x, y) == [n \in MCName |-> IF n = "x" THEN x ELSE y]
Tree(ofTop, ofA, ofB, ofE) ==
    [d \in MCDir |-> CASE d = top -> ofTop [] d = a -> ofA [] d = b -> ofB [] d = e -> ofE]

\* x is a, with a directory b that has a link back to a; y is e, with a link to b.
Two     == Tree(Contents(a, e), Contents(b, None), Contents(f, back), Contents(link, None))
\* y is a link to b, and e is below a.
Linked  == Tree(Contents(a, link), Contents(b, e), Contents(None, back), Contents(f, None))
\* y is a link to the link back.
Chained == Tree(Contents(a, link), Contents(back, b), Contents(f, None), Contents(None, None))
\* There is no y, and room to move a directory to.
Deep    == Tree(Contents(a, None), Contents(b, None), Contents(f, None), Contents(link, None))
MCTarget == [l \in MCLink |-> IF l = back THEN <<"x">> ELSE <<"x", "x">>]
MCRoots   == <<"x", "y">>
MCMounted == {e}
MCSetups  ==
    {[options |-> {}, tree |-> Two, changes |-> 1],
     [options |-> {}, tree |-> Deep, changes |-> 2],
     [options |-> {"LOGICAL"}, tree |-> Two, changes |-> 1],
     [options |-> {"LOGICAL"}, tree |-> Chained, changes |-> 0],
     [options |-> {"NOCHDIR", "XDEV"}, tree |-> Two, changes |-> 1],
     [options |-> {"COMFOLLOW", "XDEV"}, tree |-> Linked, changes |-> 1]}

-----------------------------------------------------------------------------
\* The walk of a tree that stays as it is: what is at a path, and below it.
RECURSIVE Visits(_, _, _, _)
Visits(path, node, above, device) ==
    LET n     == IF "LOGICAL" \in options THEN Follow(node) ELSE node
        below == [i \in DOMAIN Listing(n) |->
                     Visits(Append(path, Listing(n)[i]), world[n][Listing(n)[i]],
                            above \cup {n}, device)]
        inner == IF "XDEV" \in options /\ (n \in Mounted) # device THEN <<>>
                 ELSE FlattenSeq(below)
    IN  IF node = None THEN <<<<path, "NS">>>>
        ELSE IF n = None THEN <<<<path, "SLNONE">>>>
        ELSE IF n \in Link THEN <<<<path, "SL">>>>
        ELSE IF n \in File THEN <<<<path, "F">>>>
        ELSE IF n \in above THEN <<<<path, "DC">>>>
        ELSE <<<<path, "D">>>> \o inner \o <<<<path, "DP">>>>

Whole ==
    FlattenSeq([i \in DOMAIN Roots |->
        LET node == world[Top][Roots[i]]
            n == IF "COMFOLLOW" \in options THEN Follow(node) ELSE node
        IN  Visits(<<Roots[i]>>, n, {}, n \in Mounted)])

\* A walk of a tree that does not change visits everything once, each directory
\* before and after what is in it, with and without changing directories, and
\* whether or not fts_children is called on the way.
WalkIsComplete ==
    log # "disturbed" =>
        /\ IsPrefix(log, Whole) /\ ~stop
        /\ levels = <<>> => log = Whole
================================================================================
