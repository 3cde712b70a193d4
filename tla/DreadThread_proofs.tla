------------------------- MODULE DreadThread_proofs -------------------------
(***************************************************************************)
(* Theorems about the coroutine threads, for every set of threads, locks   *)
(* and events.                                                             *)
(***************************************************************************)
EXTENDS DreadThread, FiniteSetTheorems, SequenceTheorems, WellFoundedInduction, TLAPS

USE DreadThreadAssumption

-----------------------------------------------------------------------------
(* Chains *)

Members(s)  == {s[i] : i \in DOMAIN s}
NoRepeat(s) == \A i, j \in DOMAIN s : s[i] = s[j] => i = j

\* Nobody is linked twice.
Disjoint(c) ==
    /\ \A q \in Chain : NoRepeat(c[q])
    /\ \A q, r \in Chain : q # r => Members(c[q]) \cap Members(c[r]) = {}

Linked(c, t) == \E q \in Chain : t \in Members(c[q])

-----------------------------------------------------------------------------
(* What is left of the routines *)

\* dthr_thread_run and dthr_thread_detach, from each of their first operations on.
Run4(t) == <<Take("newq_sema"), Enqueue(t), Signal("newq_event"), Drop("newq_sema"),
             Yield, Drop(t), Yield>>
Run3(t) == <<Enqueue(t), Signal("newq_event"), Drop("newq_sema"), Yield, Drop(t), Yield>>
Run2(t) == <<Signal("newq_event"), Drop("newq_sema"), Yield, Drop(t), Yield>>
Run1(t) == <<Drop("newq_sema"), Yield, Drop(t), Yield>>
Run0(t) == <<Yield, Drop(t), Yield>>

\* The launcher.
Takes     == <<Take("newq_sema"), Launch>>
Launches  == <<Launch>>
Waits     == <<Wait("newq_event", "newq_sema"), Take("newq_sema"), Launch>>
Drops(t)  == <<Drop("newq_sema"), Fork(t), Take("newq_sema"), Launch>>
Forks(t)  == <<Fork(t), Take("newq_sema"), Launch>>

\* The wait for an event of the program, and the opening of it.
EventWait(e) == <<Wait(e, LockOf[e]), Take(LockOf[e])>>
Opens3(e)    == <<Drop(LockOf[e]), Yield, Wake(e), Yield>>
Opens2(e)    == <<Yield, Wake(e), Yield>>
Opens1(e)    == <<Wake(e), Yield>>
Opening(e)   == {Opens3(e), Opens2(e), Opens1(e)}

\* Any other routine keeps to the program's own semaphores, and waits for no event.
QuietOp == {Yield, Exit}
    \cup {Take(s) : s \in Lock \cup Thread} \cup {Drop(s) : s \in Lock \cup Thread}
    \cup {Signal(e) : e \in Event} \cup {Wake(e) : e \in Event}
Quiet(ops) == ops \in Seq(QuietOp)

-----------------------------------------------------------------------------
(* The inductive invariant *)

Types ==
    /\ cur \in All \cup {Nobody}
    /\ chain \in [Chain -> Seq(All)]
    /\ value \in [Sema -> Nat]
    /\ state \in [All -> State]
    /\ todo \in [All -> Seq(Operation)]
    /\ onExit \in [Thread -> Seq(Lock)]
    /\ ready \in [Event -> BOOLEAN]

\* Where a thread can be that is not the current one.
Shapes ==
    /\ \/ todo[Topmost] = Takes
       \/ /\ cur = Topmost
          /\ \/ todo[Topmost] \in {Launches, Waits}
             \/ \E t \in Thread : todo[Topmost] \in {Drops(t), Forks(t)}
    /\ \A u \in Thread :
          \/ Quiet(todo[u])
          \/ cur = u /\ \E t \in Thread : todo[u] \in {Run4(t), Run3(t), Run2(t), Run1(t)}
          \/ cur = u /\ \E e \in Event : todo[u] = EventWait(e) /\ ~ready[e]

\* The thread that is about to be put on a queue.
Hand(ops) == {t \in Thread : ops \in {Run4(t), Run3(t), Drops(t), Forks(t)}}
InHand(t) == cur # Nobody /\ t \in Hand(todo[cur])

\* A thread is in one place, and in one exactly when it is alive.
Places ==
    /\ Disjoint(chain)
    /\ ~Linked(chain, cur)
    /\ \A t \in Thread : InHand(t) => ~Linked(chain, t) /\ t # cur
    /\ \A t \in Thread : t \in Alive <=> Linked(chain, t) \/ t = cur \/ InHand(t)
    /\ CanRun(Topmost) \/ Topmost \in Members(chain["newq_event"])
    /\ Members(chain["newq"]) \subseteq Thread
    /\ Members(chain["newq_event"]) \subseteq {Topmost}

\* Who waits for a semaphore will take it.
Blocked == \A s \in Sema : \A u \in Members(chain[s]) :
               todo[u] # <<>> /\ Head(todo[u]) = Take(s)

\* The lock of the new-thread queue is not held over a yield, so nobody waits for it.
Locked(ops) == \/ ops \in {Launches, Waits}
               \/ \E t \in Thread : ops \in {Run3(t), Run2(t), Run1(t), Drops(t)}
InSection   == cur # Nobody /\ Locked(todo[cur])

Section ==
    /\ chain["newq_sema"] = <<>>
    /\ value["newq_sema"] = IF InSection THEN 0 ELSE 1

\* For each count of a semaphore that is waited for, somebody is on its way to take it.
Coming(s) == {u \in All : CanRun(u) /\ todo[u] # <<>> /\ Head(todo[u]) = Take(s)}

Counts == \A s \in Sema : chain[s] # <<>> => value[s] <= Cardinality(Coming(s))

\* The launcher does not sleep while there is a new thread, or will be signalled.
Signalled ==
    /\ chain["newq"] # <<>> /\ Topmost \in Members(chain["newq_event"]) =>
           cur \in Thread /\ \E t \in Thread : todo[cur] = Run2(t)
    /\ todo[Topmost] = Waits => chain["newq"] = <<>>

Ended == cur = Nobody => chain["runq"] = <<>>

\* Whoever set a flag has the broadcast before it, and nothing to wait for.
Announced ==
    \A e \in Event : ready[e] /\ chain[e] # <<>> =>
        \E t \in Thread : CanRun(t) /\ todo[t] \in Opening(e)

IInv == /\ Types /\ Shapes /\ Places /\ Blocked /\ Section
        /\ Counts /\ Signalled /\ Ended /\ Announced

-----------------------------------------------------------------------------
(* Sequences *)

LEMMA TailMembers ==
    ASSUME NEW S, NEW s \in Seq(S), s # <<>>, NoRepeat(s)
    PROVE  /\ Head(s) \in S /\ Head(s) \in Members(s)
           /\ Tail(s) \in Seq(S) /\ NoRepeat(Tail(s))
           /\ Members(Tail(s)) = Members(s) \ {Head(s)}
<1>1. /\ Head(s) \in S /\ Tail(s) \in Seq(S) /\ Len(Tail(s)) = Len(s) - 1
      /\ \A i \in 1 .. Len(Tail(s)) : Tail(s)[i] = s[i + 1]
  BY HeadTailProperties
<1>2. /\ Len(s) \in Nat \ {0} /\ DOMAIN s = 1 .. Len(s) /\ Head(s) = s[1]
      /\ DOMAIN Tail(s) = 1 .. Len(s) - 1
  BY <1>1
<1>3. Head(s) \in Members(s)
  BY <1>2 DEF Members
<1>4. NoRepeat(Tail(s))
  BY <1>1, <1>2 DEF NoRepeat
<1>5. ASSUME NEW x \in Members(Tail(s)) PROVE x \in Members(s) \ {Head(s)}
  <2>1. PICK i \in 1 .. Len(s) - 1 : x = s[i + 1]
    BY <1>1, <1>2, <1>5 DEF Members
  <2>2. i + 1 \in DOMAIN s /\ 1 \in DOMAIN s /\ i + 1 # 1
    BY <1>2
  <2> QED
    BY <1>2, <2>1, <2>2 DEF Members, NoRepeat
<1>6. ASSUME NEW x \in Members(s), x # Head(s) PROVE x \in Members(Tail(s))
  <2>1. PICK i \in 1 .. Len(s) : x = s[i]
    BY <1>2, <1>6 DEF Members
  <2>2. i - 1 \in 1 .. Len(s) - 1 /\ i - 1 + 1 = i
    BY <1>2, <1>6, <2>1
  <2>3. i - 1 \in DOMAIN Tail(s) /\ Tail(s)[i - 1] = x
    BY <1>1, <1>2, <2>1, <2>2
  <2> QED
    BY <2>3 DEF Members
<1> QED
  BY <1>1, <1>3, <1>4, <1>5, <1>6

LEMMA AppendMembers ==
    ASSUME NEW S, NEW s \in Seq(S), NEW x \in S, NoRepeat(s), x \notin Members(s)
    PROVE  /\ Append(s, x) \in Seq(S) /\ NoRepeat(Append(s, x)) /\ Append(s, x) # <<>>
           /\ Members(Append(s, x)) = Members(s) \cup {x}
<1> PICK t : t = Append(s, x)
  OBVIOUS
<1>1. /\ t \in Seq(S) /\ Len(t) = Len(s) + 1 /\ t # <<>>
      /\ \A i \in 1 .. Len(s) : t[i] = s[i]
      /\ t[Len(s) + 1] = x
  BY AppendProperties
<1>2. DOMAIN t = 1 .. Len(s) + 1 /\ DOMAIN s = 1 .. Len(s) /\ Len(s) \in Nat
  BY <1>1
<1>3. \A i \in DOMAIN t : \/ i \in DOMAIN s /\ t[i] = s[i]
                          \/ i = Len(s) + 1 /\ t[i] = x
  BY <1>1, <1>2
<1>4. NoRepeat(t)
  BY <1>3 DEF NoRepeat, Members
<1>5. Members(t) = Members(s) \cup {x}
  <2>1. ASSUME NEW y \in Members(t) PROVE y \in Members(s) \cup {x}
    BY <1>3, <2>1 DEF Members
  <2>2. ASSUME NEW y \in Members(s) PROVE y \in Members(t)
    BY <1>1, <1>2, <2>2 DEF Members
  <2>3. x \in Members(t)
    BY <1>1, <1>2 DEF Members
  <2> QED
    BY <2>1, <2>2, <2>3
<1> QED
  BY <1>1, <1>4, <1>5

LEMMA ConcatMembers ==
    ASSUME NEW S, NEW s \in Seq(S), NEW t \in Seq(S), NoRepeat(s), NoRepeat(t),
           Members(s) \cap Members(t) = {}
    PROVE  /\ s \o t \in Seq(S) /\ NoRepeat(s \o t)
           /\ Members(s \o t) = Members(s) \cup Members(t)
<1> PICK u : u = s \o t
  OBVIOUS
<1>1. /\ u \in Seq(S) /\ Len(u) = Len(s) + Len(t)
      /\ \A i \in 1 .. Len(s) + Len(t) : u[i] = IF i <= Len(s) THEN s[i] ELSE t[i - Len(s)]
  BY ConcatProperties
<1>2. /\ DOMAIN s = 1 .. Len(s) /\ DOMAIN t = 1 .. Len(t) /\ DOMAIN u = 1 .. Len(s) + Len(t)
      /\ Len(s) \in Nat /\ Len(t) \in Nat
  BY <1>1
<1>3. \A i \in DOMAIN u : \/ i \in DOMAIN s /\ u[i] = s[i]
                          \/ i > Len(s) /\ i - Len(s) \in DOMAIN t /\ u[i] = t[i - Len(s)]
  BY ONLY <1>1, <1>2
<1>4. NoRepeat(u)
  <2>0. \A i \in DOMAIN s, j \in DOMAIN t : s[i] # t[j]
    <3>1. \A i \in DOMAIN s : s[i] \in Members(s)
      BY DEF Members
    <3>2. \A j \in DOMAIN t : t[j] \in Members(t)
      BY DEF Members
    <3> QED
      BY <3>1, <3>2
  <2>1. ASSUME NEW i \in DOMAIN u, NEW j \in DOMAIN u, u[i] = u[j] PROVE i = j
    <3>1. CASE i \in DOMAIN s /\ u[i] = s[i] /\ j \in DOMAIN s /\ u[j] = s[j]
      BY <2>1, <3>1 DEF NoRepeat
    <3>2. CASE /\ i - Len(s) \in DOMAIN t /\ u[i] = t[i - Len(s)]
               /\ j - Len(s) \in DOMAIN t /\ u[j] = t[j - Len(s)]
      <4>1. i - Len(s) = j - Len(s)
        BY <2>1, <3>2 DEF NoRepeat
      <4> QED
        BY <1>2, <4>1
    <3>3. CASE \/ i \in DOMAIN s /\ u[i] = s[i] /\ j - Len(s) \in DOMAIN t /\ u[j] = t[j - Len(s)]
               \/ j \in DOMAIN s /\ u[j] = s[j] /\ i - Len(s) \in DOMAIN t /\ u[i] = t[i - Len(s)]
      BY ONLY <2>0, <2>1, <3>3
    <3> QED
      BY <1>3, <3>1, <3>2, <3>3
  <2> QED
    BY <2>1 DEF NoRepeat
<1>5. Members(u) = Members(s) \cup Members(t)
  <2>1. ASSUME NEW y \in Members(u) PROVE y \in Members(s) \cup Members(t)
    BY <1>3, <2>1 DEF Members
  <2>2. ASSUME NEW y \in Members(s) PROVE y \in Members(u)
    <3>1. PICK i \in DOMAIN s : y = s[i]
      BY <2>2 DEF Members
    <3>2. i \in DOMAIN u /\ u[i] = y
      BY ONLY <1>1, <1>2, <3>1
    <3> QED
      BY <3>2 DEF Members
  <2>3. ASSUME NEW y \in Members(t) PROVE y \in Members(u)
    <3>1. PICK i \in DOMAIN t : y = t[i]
      BY <2>3 DEF Members
    <3>2. PICK j : j = i + Len(s)
      OBVIOUS
    <3>3. j \in DOMAIN u /\ j - Len(s) = i /\ ~(j <= Len(s)) /\ j \in 1 .. Len(s) + Len(t)
      BY ONLY <1>2, <3>1, <3>2
    <3>4. u[j] = y
      BY ONLY <1>1, <3>1, <3>3
    <3> QED
      BY <3>3, <3>4 DEF Members
  <2> QED
    BY <2>1, <2>2, <2>3
<1> QED
  BY <1>1, <1>4, <1>5

LEMMA EmptyMembers == Members(<<>>) = {} /\ NoRepeat(<<>>)
  BY DEF Members, NoRepeat

LEMMA SomeMembers ==
    ASSUME NEW S, NEW s \in Seq(S)
    PROVE  s # <<>> <=> Members(s) # {}
<1>1. s # <<>> => 1 \in DOMAIN s
  OBVIOUS
<1> QED
  BY <1>1, EmptyMembers DEF Members

-----------------------------------------------------------------------------
(* Moves between chains *)

LEMMA Anchors ==
    /\ "runq" \in Chain /\ "newq" \in Chain /\ "newq_sema" \in Sema /\ "newq_event" \in Evt
    /\ Sema \subseteq Chain /\ Evt \subseteq Chain /\ Sema \cap Evt = {}
    /\ "runq" \notin Sema \cup Evt /\ "newq" \notin Sema \cup Evt /\ "runq" # "newq"
    /\ Sema = (Lock \cup Thread) \cup {"newq_sema"} /\ "newq_sema" \notin Lock \cup Thread
    /\ Evt = Event \cup {"newq_event"} /\ "newq_event" \notin Event
    /\ Guard = Lock \cup {"newq_sema"}
  BY DEF Chain, Sema, Evt, Guard

Leave(c, q)     == [c EXCEPT ![q] = Tail(@)]
JoinTo(c, q, x) == [c EXCEPT ![q] = Append(@, x)]

\* The first thread of q leaves it.
LEMMA LeaveIs ==
    ASSUME NEW c \in [Chain -> Seq(All)], Disjoint(c), NEW q \in Chain, c[q] # <<>>
    PROVE  /\ Leave(c, q) \in [Chain -> Seq(All)] /\ Disjoint(Leave(c, q))
           /\ Head(c[q]) \in All /\ Head(c[q]) \in Members(c[q])
           /\ \A r \in Chain : Members(Leave(c, q)[r]) = Members(c[r]) \ {Head(c[q])}
           /\ \A r \in Chain \ {q} : Leave(c, q)[r] = c[r]
<1> PICK d : d = Leave(c, q)
  OBVIOUS
<1>1. c[q] \in Seq(All) /\ NoRepeat(c[q])
  BY DEF Disjoint
<1>2. /\ Head(c[q]) \in All /\ Head(c[q]) \in Members(c[q])
      /\ Tail(c[q]) \in Seq(All) /\ NoRepeat(Tail(c[q]))
      /\ Members(Tail(c[q])) = Members(c[q]) \ {Head(c[q])}
  BY <1>1, TailMembers
<1>3. /\ d \in [Chain -> Seq(All)]
      /\ \A r \in Chain : d[r] = IF r = q THEN Tail(c[q]) ELSE c[r]
  BY <1>2 DEF Leave
<1>4. \A r \in Chain : Members(d[r]) = Members(c[r]) \ {Head(c[q])}
  <2>1. \A r \in Chain \ {q} : Members(c[r]) \cap Members(c[q]) = {}
    BY DEF Disjoint
  <2>2. ASSUME NEW r \in Chain PROVE Members(d[r]) = Members(c[r]) \ {Head(c[q])}
    <3>1. CASE r = q
      BY ONLY <1>2, <1>3, <2>2, <3>1
    <3>2. CASE r # q
      <4>1. d[r] = c[r] /\ Members(c[r]) \cap Members(c[q]) = {}
        BY ONLY <1>3, <2>1, <2>2, <3>2
      <4>2. Head(c[q]) \in Members(c[q])
        BY <1>2
      <4> QED
        BY ONLY <4>1, <4>2
    <3> QED
      BY ONLY <3>1, <3>2
  <2> QED
    BY ONLY <2>2
<1>5. Disjoint(d)
  BY <1>2, <1>3, <1>4 DEF Disjoint
<1> QED
  BY <1>2, <1>3, <1>4, <1>5

Joined(c, q, x, d) ==
    /\ d \in [Chain -> Seq(All)] /\ Disjoint(d)
    /\ Members(d[q]) = Members(c[q]) \cup {x} /\ d[q] # <<>>
    /\ \A t : Linked(d, t) <=> Linked(c, t) \/ t = x
    /\ \A r \in Chain \ {q} : d[r] = c[r]

\* A thread that is on no chain joins q.
LEMMA JoinIs ==
    ASSUME NEW c \in [Chain -> Seq(All)], Disjoint(c), NEW q \in Chain,
           NEW x \in All, ~Linked(c, x)
    PROVE  Joined(c, q, x, JoinTo(c, q, x))
<1> PICK d : d = JoinTo(c, q, x)
  OBVIOUS
<1>1. c[q] \in Seq(All) /\ NoRepeat(c[q]) /\ x \notin Members(c[q])
  BY DEF Disjoint, Linked
<1>2. /\ Append(c[q], x) \in Seq(All) /\ NoRepeat(Append(c[q], x))
      /\ Members(Append(c[q], x)) = Members(c[q]) \cup {x}
  BY <1>1, AppendMembers
<1>3. /\ d \in [Chain -> Seq(All)]
      /\ \A r \in Chain : d[r] = IF r = q THEN Append(c[q], x) ELSE c[r]
  BY <1>2 DEF JoinTo
<1>4. \A r \in Chain : Members(d[r]) = IF r = q THEN Members(c[r]) \cup {x} ELSE Members(c[r])
  BY <1>2, <1>3
<1>5. Disjoint(d)
  <2>1. \A r \in Chain : NoRepeat(c[r]) /\ x \notin Members(c[r])
    BY DEF Disjoint, Linked
  <2>2. \A r \in Chain : NoRepeat(d[r])
    BY ONLY <1>2, <1>3, <2>1
  <2>3. \A r, k \in Chain : r # k => Members(c[r]) \cap Members(c[k]) = {}
    BY DEF Disjoint
  <2>4. \A r, k \in Chain : r # k => Members(d[r]) \cap Members(d[k]) = {}
    BY ONLY <1>4, <2>1, <2>3
  <2> QED
    BY <2>2, <2>4 DEF Disjoint
<1>6. \A t : Linked(d, t) <=> Linked(c, t) \/ t = x
  BY <1>4 DEF Linked
<1>7. d[q] # <<>>
  BY <1>2, <1>3, EmptyMembers
<1> QED
  BY <1>3, <1>4, <1>5, <1>6, <1>7 DEF Joined

Shifted(c, q, x, d) ==
    /\ d \in [Chain -> Seq(All)] /\ Disjoint(d)
    /\ \A t : Linked(d, t) <=> Linked(c, t)
    /\ c[q] = <<>> => d = c
    /\ c[q] # <<>> =>
          /\ x \in All /\ x \in Members(c[q])
          /\ Members(d["runq"]) = Members(c["runq"]) \cup {x}
          /\ Members(d[q]) = Members(c[q]) \ {x}
          /\ \A r \in Chain \ {"runq", q} : d[r] = c[r]

\* The first thread of q, if there is one, moves to the run queue.
LEMMA MovedIs ==
    ASSUME NEW c \in [Chain -> Seq(All)], Disjoint(c), NEW q \in Sema \cup Evt,
           NEW d, d = Moved(c, q), NEW x, x = Head(c[q])
    PROVE  Shifted(c, q, x, d)
<1>1. CASE c[q] = <<>>
  BY <1>1, Zenon DEF Moved, Shifted
<1>2. CASE c[q] # <<>>
  <2>1. q \in Chain /\ q # "runq" /\ "runq" \in Chain
    BY Anchors
  <2>2. PICK b : b = Leave(c, q)
    OBVIOUS
  <2>3. /\ b \in [Chain -> Seq(All)] /\ Disjoint(b)
        /\ x \in All /\ x \in Members(c[q])
        /\ \A r \in Chain : Members(b[r]) = Members(c[r]) \ {x}
        /\ \A r \in Chain \ {q} : b[r] = c[r]
    BY <1>2, <2>1, <2>2, LeaveIs
  <2>4. ~Linked(b, x)
    BY <2>3 DEF Linked
  <2>5. PICK a : a = JoinTo(b, "runq", x)
    OBVIOUS
  <2>6. /\ a \in [Chain -> Seq(All)] /\ Disjoint(a)
        /\ Members(a["runq"]) = Members(b["runq"]) \cup {x}
        /\ \A t : Linked(a, t) <=> Linked(b, t) \/ t = x
        /\ \A r \in Chain \ {"runq"} : a[r] = b[r]
    <3>1. x \in All /\ "runq" \in Chain /\ b \in [Chain -> Seq(All)] /\ Disjoint(b)
      BY <1>2, <2>1, <2>3
    <3>2. Joined(b, "runq", x, a)
      BY ONLY <2>4, <2>5, <3>1, JoinIs
    <3> QED
      BY <3>2 DEF Joined
  <2>7. d = a
    <3>1. d = [c EXCEPT !["runq"] = Append(@, Head(c[q])), ![q] = Tail(@)]
      BY <1>2 DEF Moved
    <3> QED
      BY <2>1, <2>2, <2>5, <3>1 DEF Leave, JoinTo
  <2>8. \A r \in Chain \ {"runq", q} : a[r] = c[r]
    BY <2>3, <2>6
  <2>9. /\ Members(a["runq"]) = Members(c["runq"]) \cup {x}
        /\ \A r \in Chain \ {"runq"} : Members(a[r]) = Members(c[r]) \ {x}
    BY <2>1, <2>3, <2>6
  <2>10. \A t : Linked(a, t) <=> Linked(c, t)
    <3>1. \A t : Linked(b, t) <=> Linked(c, t) /\ t # x
      BY <2>3 DEF Linked
    <3>2. Linked(c, x)
      BY <2>1, <2>3 DEF Linked
    <3> QED
      BY <2>6, <3>1, <3>2
  <2> QED
    BY <1>2, <2>1, <2>3, <2>6, <2>7, <2>8, <2>9, <2>10 DEF Shifted
<1> QED
  BY <1>1, <1>2

Emptied(c, q, d) ==
    /\ d \in [Chain -> Seq(All)] /\ Disjoint(d)
    /\ \A t : Linked(d, t) <=> Linked(c, t)
    /\ Members(d["runq"]) = Members(c["runq"]) \cup Members(c[q])
    /\ d[q] = <<>>
    /\ \A r \in Chain \ {"runq", q} : d[r] = c[r]

\* All of them move there.
LEMMA MovedAllIs ==
    ASSUME NEW c \in [Chain -> Seq(All)], Disjoint(c), NEW q \in Evt,
           NEW d, d = MovedAll(c, q)
    PROVE  Emptied(c, q, d)
<1>1. q \in Chain /\ q # "runq" /\ "runq" \in Chain
  BY Anchors
<1>2. PICK s : s = c["runq"] \o c[q]
  OBVIOUS
<1>3. s \in Seq(All) /\ NoRepeat(s) /\ Members(s) = Members(c["runq"]) \cup Members(c[q])
  <2>1. /\ c["runq"] \in Seq(All) /\ c[q] \in Seq(All)
        /\ NoRepeat(c["runq"]) /\ NoRepeat(c[q])
        /\ Members(c["runq"]) \cap Members(c[q]) = {}
    BY <1>1 DEF Disjoint
  <2> QED
    BY <1>2, <2>1, ConcatMembers
<1>4. d = [c EXCEPT !["runq"] = s, ![q] = <<>>]
  BY <1>2 DEF MovedAll
<1>5. /\ d \in [Chain -> Seq(All)]
      /\ d["runq"] = s /\ d[q] = <<>> /\ \A r \in Chain \ {"runq", q} : d[r] = c[r]
  BY ONLY <1>1, <1>3, <1>4, c \in [Chain -> Seq(All)], <<>> \in Seq(All)
<1>6. Disjoint(d)
  <2>1. \A r \in Chain : /\ NoRepeat(d[r])
                         /\ Members(d[r]) = IF r = "runq" THEN Members(c[r]) \cup Members(c[q])
                                            ELSE IF r = q THEN {} ELSE Members(c[r])
    BY <1>1, <1>3, <1>5, EmptyMembers DEF Disjoint
  <2> QED
    BY <1>1, <2>1 DEF Disjoint
<1>7. \A t : Linked(d, t) <=> Linked(c, t)
  <2>1. \A r \in Chain : r = "runq" \/ r = q \/ d[r] = c[r]
    BY <1>5
  <2> QED
    BY <1>1, <1>3, <1>5, <2>1, EmptyMembers DEF Linked
<1> QED
  BY <1>3, <1>5, <1>6, <1>7 DEF Emptied

\* dthr_thread_sleep with the chains c, on none of which the current thread was left
\* off: the first of the run queue runs.
LEMMA SleepIs ==
    ASSUME NEW c \in [Chain -> Seq(All)], Disjoint(c), Sleep(c)
    PROVE  /\ chain' \in [Chain -> Seq(All)] /\ Disjoint(chain')
           /\ cur' \in All \cup {Nobody} /\ ~Linked(chain', cur')
           /\ \A t \in All : Linked(chain', t) \/ t = cur' <=> Linked(c, t)
           /\ \A t \in All : t = cur' \/ t \in Members(chain'["runq"])
                                <=> t \in Members(c["runq"])
           /\ \A r \in Chain \ {"runq"} : chain'[r] = c[r]
           /\ cur' = Nobody => chain'["runq"] = <<>>
<1>1. CASE c["runq"] = <<>>
  <2>1. cur' = Nobody /\ chain' = c /\ Members(c["runq"]) = {}
    BY <1>1, EmptyMembers DEF Sleep
  <2>2. \A t \in All : t # Nobody
    BY DEF All
  <2>3. ~Linked(c, Nobody)
    BY <2>2 DEF Linked, Members
  <2> QED
    BY <1>1, <2>1, <2>2, <2>3
<1>2. CASE c["runq"] # <<>>
  <2>1. cur' = Head(c["runq"]) /\ chain' = Leave(c, "runq")
    BY <1>2 DEF Sleep, Leave
  <2>2. /\ chain' \in [Chain -> Seq(All)] /\ Disjoint(chain')
        /\ cur' \in All /\ cur' \in Members(c["runq"])
        /\ \A r \in Chain : Members(chain'[r]) = Members(c[r]) \ {cur'}
        /\ \A r \in Chain \ {"runq"} : chain'[r] = c[r]
    BY <1>2, <2>1, LeaveIs, Anchors
  <2>3. ~Linked(chain', cur') /\ Linked(c, cur')
    BY <2>2, Anchors DEF Linked
  <2>4. \A t \in All : t # cur' => (Linked(chain', t) <=> Linked(c, t))
    BY <2>2 DEF Linked
  <2>5. \A t \in All : t = cur' \/ t \in Members(chain'["runq"]) <=> t \in Members(c["runq"])
    BY <2>2, Anchors
  <2>6. cur' # Nobody
    BY <2>2 DEF All
  <2> QED
    BY <2>2, <2>3, <2>4, <2>5, <2>6
<1> QED
  BY <1>1, <1>2

-----------------------------------------------------------------------------
(* Operations *)

LEMMA OpsDiffer ==
    /\ \A s : Take(s) = <<"take", s>> /\ Drop(s) = <<"drop", s>>
    /\ \A e, l : Wait(e, l) = <<"wait", <<e, l>>>>
    /\ \A e : Signal(e) = <<"signal", e>> /\ Wake(e) = <<"broadcast", e>>
    /\ \A t : Enqueue(t) = <<"enqueue", t>> /\ Fork(t) = <<"fork", t>>
    /\ Yield = <<"yield", "cpu">> /\ Launch = <<"launch", Topmost>> /\ Exit = <<"exit", Nobody>>
  BY DEF Take, Drop, Wait, Signal, Wake, Enqueue, Fork, Yield, Launch, Exit

LEMMA OpsTyped ==
    /\ \A s \in Sema : Take(s) \in Operation /\ Drop(s) \in Operation
    /\ \A e \in Evt, l \in Guard : Wait(e, l) \in Operation
    /\ \A e \in Evt : Signal(e) \in Operation /\ Wake(e) \in Operation
    /\ \A t \in Thread : Enqueue(t) \in Operation /\ Fork(t) \in Operation
    /\ Yield \in Operation /\ Launch \in Operation /\ Exit \in Operation
  BY DEF Operation

LEMMA QuietOps ==
    /\ \A s \in Lock \cup Thread : Take(s) \in QuietOp /\ Drop(s) \in QuietOp
    /\ \A e \in Event : Signal(e) \in QuietOp /\ Wake(e) \in QuietOp
    /\ Yield \in QuietOp /\ Exit \in QuietOp
    /\ QuietOp \subseteq Operation
  BY Anchors DEF QuietOp, Operation

\* Concatenation has a name of its own: the solver takes it apart wherever it sees it.
Cat(s, t) == s \o t

LEMMA CatIs ==
    ASSUME NEW S, NEW s \in Seq(S), NEW t \in Seq(S), NEW w \in Seq(S),
           Len(w) = Len(s) + Len(t),
           \A i \in 1 .. Len(s) : w[i] = s[i],
           \A i \in 1 .. Len(t) : w[Len(s) + i] = t[i]
    PROVE  Cat(s, t) = w
<1>1. PICK u : u = s \o t
  OBVIOUS
<1>2. /\ u \in Seq(S) /\ Len(u) = Len(s) + Len(t)
      /\ \A i \in 1 .. Len(s) + Len(t) : u[i] = IF i <= Len(s) THEN s[i] ELSE t[i - Len(s)]
  BY <1>1, ConcatProperties
<1>3. Len(s) \in Nat /\ Len(t) \in Nat
  OBVIOUS
<1>4. ASSUME NEW i \in 1 .. Len(u) PROVE u[i] = w[i]
  <2>1. CASE i <= Len(s)
    <3>1. i \in 1 .. Len(s) /\ i \in 1 .. Len(s) + Len(t)
      BY ONLY <1>2, <1>3, <1>4, <2>1
    <3>2. w[i] = s[i]
      BY <3>1
    <3> QED
      BY ONLY <1>2, <2>1, <3>1, <3>2
  <2>2. CASE ~(i <= Len(s))
    <3>1. PICK k : k = i - Len(s)
      OBVIOUS
    <3>2. k \in 1 .. Len(t) /\ Len(s) + k = i /\ i \in 1 .. Len(s) + Len(t)
      BY ONLY <1>2, <1>3, <1>4, <2>2, <3>1
    <3>3. w[Len(s) + k] = t[k]
      BY <3>2
    <3> QED
      BY ONLY <1>2, <2>2, <3>1, <3>2, <3>3
  <2> QED
    BY <2>1, <2>2
<1>5. u = w
  BY <1>2, <1>4, SeqEqual
<1> QED
  BY <1>1, <1>5, Zenon DEF Cat

LEMMA TwoAndOne ==
    ASSUME NEW a \in Operation, NEW b \in Operation, NEW c \in Operation
    PROVE  Cat(<<a, b>>, <<c>>) = <<a, b, c>>
<1>1. PICK u, v, w : u = <<a, b>> /\ v = <<c>> /\ w = <<a, b, c>>
  OBVIOUS
<1>2. /\ u \in Seq(Operation) /\ v \in Seq(Operation) /\ w \in Seq(Operation)
      /\ Len(w) = Len(u) + Len(v)
      /\ \A i \in 1 .. Len(u) : w[i] = u[i]
      /\ \A i \in 1 .. Len(v) : w[Len(u) + i] = v[i]
  BY <1>1
<1>3. Cat(u, v) = w
  BY ONLY <1>2, CatIs
<1> QED
  BY ONLY <1>1, <1>3

LEMMA TwoAndTwo ==
    ASSUME NEW a \in Operation, NEW b \in Operation, NEW c \in Operation, NEW d \in Operation
    PROVE  Cat(<<a, b>>, <<c, d>>) = <<a, b, c, d>>
<1>1. PICK u, v, w : u = <<a, b>> /\ v = <<c, d>> /\ w = <<a, b, c, d>>
  OBVIOUS
<1>2. /\ u \in Seq(Operation) /\ v \in Seq(Operation) /\ w \in Seq(Operation)
      /\ Len(w) = Len(u) + Len(v)
      /\ \A i \in 1 .. Len(u) : w[i] = u[i]
      /\ \A i \in 1 .. Len(v) : w[Len(u) + i] = v[i]
  BY <1>1
<1>3. Cat(u, v) = w
  BY ONLY <1>2, CatIs
<1> QED
  BY ONLY <1>1, <1>3

Seven(a, b, c, d, f, g, h) == Cat(<<a, b, c, d, f>>, <<g, h>>) = <<a, b, c, d, f, g, h>>

LEMMA FiveAndTwo ==
    ASSUME NEW a \in Operation, NEW b \in Operation, NEW c \in Operation,
           NEW d \in Operation, NEW f \in Operation, NEW g \in Operation,
           NEW h \in Operation
    PROVE  Seven(a, b, c, d, f, g, h)
<1>1. PICK u, v, w : /\ u = <<a, b, c, d, f>> /\ v = <<g, h>>
                     /\ w = <<a, b, c, d, f, g, h>>
  OBVIOUS
<1>2. /\ u \in Seq(Operation) /\ v \in Seq(Operation) /\ w \in Seq(Operation)
      /\ Len(w) = Len(u) + Len(v)
      /\ \A i \in 1 .. Len(u) : w[i] = u[i]
      /\ \A i \in 1 .. Len(v) : w[Len(u) + i] = v[i]
  BY <1>1
<1>3. Cat(u, v) = w
  BY ONLY <1>2, CatIs
<1> QED
  BY ONLY <1>1, <1>3 DEF Seven

LEMMA RunShapes ==
    ASSUME NEW t \in Thread
    PROVE  /\ Run4(t) \in Seq(Operation) /\ Run3(t) \in Seq(Operation)
           /\ Run2(t) \in Seq(Operation) /\ Run1(t) \in Seq(Operation)
           /\ Run4(t) # <<>> /\ Run3(t) # <<>> /\ Run2(t) # <<>> /\ Run1(t) # <<>>
           /\ Head(Run4(t)) = Take("newq_sema") /\ Tail(Run4(t)) = Run3(t)
           /\ Head(Run3(t)) = Enqueue(t) /\ Tail(Run3(t)) = Run2(t)
           /\ Head(Run2(t)) = Signal("newq_event") /\ Tail(Run2(t)) = Run1(t)
           /\ Head(Run1(t)) = Drop("newq_sema") /\ Tail(Run1(t)) = Run0(t)
           /\ Quiet(Run0(t))
           /\ Cat(dthr_thread_run(t), dthr_thread_detach(t)) = Run4(t)
<1>1. /\ Take("newq_sema") \in Operation /\ Enqueue(t) \in Operation
      /\ Signal("newq_event") \in Operation /\ Drop("newq_sema") \in Operation
      /\ Yield \in Operation /\ Drop(t) \in Operation
  BY OpsTyped, Anchors
<1>2. /\ Run4(t) \in Seq(Operation) /\ Run3(t) \in Seq(Operation)
      /\ Run2(t) \in Seq(Operation) /\ Run1(t) \in Seq(Operation)
  BY ONLY <1>1 DEF Run4, Run3, Run2, Run1
<1>3. Run4(t) # <<>> /\ Run3(t) # <<>> /\ Run2(t) # <<>> /\ Run1(t) # <<>>
  BY ONLY TRUE DEF Run4, Run3, Run2, Run1
<1>4. Head(Run4(t)) = Take("newq_sema") /\ Tail(Run4(t)) = Run3(t)
  BY ONLY TRUE DEF Run4, Run3
<1>5. Head(Run3(t)) = Enqueue(t) /\ Tail(Run3(t)) = Run2(t)
  BY ONLY TRUE DEF Run3, Run2
<1>6. Head(Run2(t)) = Signal("newq_event") /\ Tail(Run2(t)) = Run1(t)
  BY ONLY TRUE DEF Run2, Run1
<1>7. Head(Run1(t)) = Drop("newq_sema") /\ Tail(Run1(t)) = Run0(t)
  BY ONLY TRUE DEF Run1, Run0
<1>8. Quiet(Run0(t))
  BY QuietOps DEF Run0, Quiet
<1>9. Cat(dthr_thread_run(t), dthr_thread_detach(t)) = Run4(t)
  <2>1. Seven(Take("newq_sema"), Enqueue(t), Signal("newq_event"), Drop("newq_sema"), Yield,
              Drop(t), Yield)
    BY ONLY <1>1, FiveAndTwo
  <2> QED
    BY ONLY <2>1, Zenon DEF Seven, Run4, dthr_thread_run, dthr_thread_detach, dthr_semaphore_drop
<1> QED
  BY <1>2, <1>3, <1>4, <1>5, <1>6, <1>7, <1>8, <1>9

LEMMA LauncherShapes ==
    /\ Takes \in Seq(Operation) /\ Launches \in Seq(Operation) /\ Waits \in Seq(Operation)
    /\ Takes # <<>> /\ Launches # <<>> /\ Waits # <<>>
    /\ Head(Takes) = Take("newq_sema") /\ Tail(Takes) = Launches
    /\ Head(Launches) = Launch
    /\ Head(Waits) = Wait("newq_event", "newq_sema") /\ Tail(Waits) = Takes
    /\ dthr_thread_launcher = Takes
    /\ Cat(dthr_event_wait("newq_event", "newq_sema"), <<Launch>>) = Waits
<1>1. /\ Take("newq_sema") \in Operation /\ Launch \in Operation
      /\ Wait("newq_event", "newq_sema") \in Operation
  BY OpsTyped, Anchors
<1>2. Takes \in Seq(Operation) /\ Launches \in Seq(Operation) /\ Waits \in Seq(Operation)
  BY ONLY <1>1 DEF Takes, Launches, Waits
<1>3. /\ Takes # <<>> /\ Launches # <<>> /\ Waits # <<>>
      /\ Head(Takes) = Take("newq_sema") /\ Tail(Takes) = Launches
      /\ Head(Launches) = Launch
      /\ Head(Waits) = Wait("newq_event", "newq_sema") /\ Tail(Waits) = Takes
  BY ONLY TRUE DEF Takes, Launches, Waits
<1>4. /\ dthr_thread_launcher = Takes
      /\ Cat(dthr_event_wait("newq_event", "newq_sema"), <<Launch>>) = Waits
  <2>1. Cat(<<Wait("newq_event", "newq_sema"), Take("newq_sema")>>, <<Launch>>)
        = <<Wait("newq_event", "newq_sema"), Take("newq_sema"), Launch>>
    BY ONLY <1>1, TwoAndOne, Zenon
  <2> QED
    BY ONLY <2>1, Zenon DEF Takes, Waits, dthr_thread_launcher, dthr_event_wait
<1> QED
  BY <1>2, <1>3, <1>4

LEMMA ForkShapes ==
    ASSUME NEW t \in Thread
    PROVE  /\ Drops(t) \in Seq(Operation) /\ Forks(t) \in Seq(Operation)
           /\ Drops(t) # <<>> /\ Forks(t) # <<>>
           /\ Head(Drops(t)) = Drop("newq_sema") /\ Tail(Drops(t)) = Forks(t)
           /\ Head(Forks(t)) = Fork(t) /\ Tail(Forks(t)) = Takes
           /\ Cat(<<Drop("newq_sema"), Fork(t)>>, dthr_thread_launcher) = Drops(t)
<1>1. /\ Take("newq_sema") \in Operation /\ Launch \in Operation
      /\ Drop("newq_sema") \in Operation /\ Fork(t) \in Operation
  BY OpsTyped, Anchors
<1>2. Drops(t) \in Seq(Operation) /\ Forks(t) \in Seq(Operation)
  BY ONLY <1>1 DEF Drops, Forks
<1>3. /\ Drops(t) # <<>> /\ Forks(t) # <<>>
      /\ Head(Drops(t)) = Drop("newq_sema") /\ Tail(Drops(t)) = Forks(t)
      /\ Head(Forks(t)) = Fork(t) /\ Tail(Forks(t)) = Takes
  BY ONLY TRUE DEF Drops, Forks, Takes
<1>4. Cat(<<Drop("newq_sema"), Fork(t)>>, dthr_thread_launcher) = Drops(t)
  <2>1. Cat(<<Drop("newq_sema"), Fork(t)>>, <<Take("newq_sema"), Launch>>)
        = <<Drop("newq_sema"), Fork(t), Take("newq_sema"), Launch>>
    BY ONLY <1>1, TwoAndTwo, Zenon
  <2> QED
    BY ONLY <2>1, Zenon DEF Drops, dthr_thread_launcher
<1> QED
  BY <1>2, <1>3, <1>4

\* The opening of an event and the wait for one.
LEMMA EventShapes ==
    ASSUME NEW e \in Event
    PROVE  /\ EventWait(e) \in Seq(Operation) /\ EventWait(e) # <<>>
           /\ Head(EventWait(e)) = Wait(e, LockOf[e]) /\ Quiet(Tail(EventWait(e)))
           /\ dthr_event_wait(e, LockOf[e]) = EventWait(e)
           /\ Quiet(Opens3(e)) /\ Quiet(Opens2(e)) /\ Quiet(Opens1(e))
           /\ Opens3(e) # <<>> /\ Opens2(e) # <<>> /\ Opens1(e) # <<>>
           /\ Head(Opens3(e)) = Drop(LockOf[e]) /\ Tail(Opens3(e)) = Opens2(e)
           /\ Head(Opens2(e)) = Yield /\ Tail(Opens2(e)) = Opens1(e)
           /\ Head(Opens1(e)) = Wake(e)
           /\ Cat(dthr_semaphore_drop(LockOf[e]), dthr_event_broadcast(e)) = Opens3(e)
<1>1. LockOf[e] \in Lock /\ e \in Evt /\ LockOf[e] \in Guard /\ LockOf[e] \in Sema
  BY Anchors
<1>2. /\ Wait(e, LockOf[e]) \in Operation /\ Take(LockOf[e]) \in Operation
      /\ Take(LockOf[e]) \in QuietOp /\ Drop(LockOf[e]) \in QuietOp
      /\ Yield \in QuietOp /\ Wake(e) \in QuietOp
  BY <1>1, OpsTyped, QuietOps
<1>3. /\ EventWait(e) \in Seq(Operation) /\ EventWait(e) # <<>>
      /\ Head(EventWait(e)) = Wait(e, LockOf[e]) /\ Quiet(Tail(EventWait(e)))
      /\ dthr_event_wait(e, LockOf[e]) = EventWait(e)
  BY ONLY <1>2 DEF EventWait, Quiet, dthr_event_wait
<1>4. Quiet(Opens3(e)) /\ Quiet(Opens2(e)) /\ Quiet(Opens1(e))
  BY ONLY <1>2 DEF Opens3, Opens2, Opens1, Quiet
<1>5. /\ Opens3(e) # <<>> /\ Opens2(e) # <<>> /\ Opens1(e) # <<>>
      /\ Head(Opens3(e)) = Drop(LockOf[e]) /\ Tail(Opens3(e)) = Opens2(e)
      /\ Head(Opens2(e)) = Yield /\ Tail(Opens2(e)) = Opens1(e)
      /\ Head(Opens1(e)) = Wake(e)
  BY ONLY TRUE DEF Opens3, Opens2, Opens1
<1>6. Cat(dthr_semaphore_drop(LockOf[e]), dthr_event_broadcast(e)) = Opens3(e)
  <2>1. /\ Drop(LockOf[e]) \in Operation /\ Yield \in Operation /\ Wake(e) \in Operation
    BY <1>1, OpsTyped
  <2>2. Cat(<<Drop(LockOf[e]), Yield>>, <<Wake(e), Yield>>)
        = <<Drop(LockOf[e]), Yield, Wake(e), Yield>>
    BY ONLY <2>1, TwoAndTwo, Zenon
  <2> QED
    BY ONLY <2>2, Zenon DEF Opens3, dthr_semaphore_drop, dthr_event_broadcast
<1> QED
  BY <1>3, <1>4, <1>5, <1>6

-----------------------------------------------------------------------------
(* What the current thread does *)

\* Where the current thread can be, by its next operation.
LEMMA Heads ==
    ASSUME Types, Shapes, cur # Nobody, todo[cur] # <<>>, NEW o, Head(todo[cur]) = o
    PROVE  \/ /\ cur = Topmost
              /\ \/ todo[cur] = Takes /\ o = <<"take", "newq_sema">>
                 \/ todo[cur] = Launches /\ o = <<"launch", Topmost>>
                 \/ todo[cur] = Waits /\ o = <<"wait", <<"newq_event", "newq_sema">>>>
                 \/ \E t \in Thread : todo[cur] = Drops(t) /\ o = <<"drop", "newq_sema">>
                 \/ \E t \in Thread : todo[cur] = Forks(t) /\ o = <<"fork", t>>
           \/ /\ cur \in Thread
              /\ \/ Quiet(todo[cur]) /\ o \in QuietOp
                 \/ \E t \in Thread : todo[cur] = Run4(t) /\ o = <<"take", "newq_sema">>
                 \/ \E t \in Thread : todo[cur] = Run3(t) /\ o = <<"enqueue", t>>
                 \/ \E t \in Thread : todo[cur] = Run2(t) /\ o = <<"signal", "newq_event">>
                 \/ \E t \in Thread : todo[cur] = Run1(t) /\ o = <<"drop", "newq_sema">>
                 \/ \E e \in Event : /\ todo[cur] = EventWait(e) /\ ~ready[e]
                                     /\ o = <<"wait", <<e, LockOf[e]>>>>
<1>1. cur = Topmost \/ cur \in Thread
  BY DEF Types, All
<1>2. CASE cur = Topmost
  <2>1. CASE todo[cur] \in {Takes, Launches, Waits}
    BY <1>2, <2>1, LauncherShapes, OpsDiffer
  <2>2. CASE \E t \in Thread : todo[cur] \in {Drops(t), Forks(t)}
    BY <1>2, <2>2, ForkShapes, OpsDiffer
  <2> QED
    BY <1>2, <2>1, <2>2 DEF Shapes
<1>3. CASE cur \in Thread
  <2>1. CASE Quiet(todo[cur])
    <3>1. Head(todo[cur]) \in QuietOp
      BY <2>1 DEF Quiet
    <3> QED
      BY <1>3, <2>1, <3>1
  <2>2. CASE \E t \in Thread : todo[cur] \in {Run4(t), Run3(t), Run2(t), Run1(t)}
    BY <1>3, <2>2, RunShapes, OpsDiffer
  <2>3. CASE \E e \in Event : todo[cur] = EventWait(e) /\ ~ready[e]
    BY <1>3, <2>3, EventShapes, OpsDiffer
  <2> QED
    BY <1>3, <2>1, <2>2, <2>3 DEF Shapes
<1> QED
  BY <1>1, <1>2, <1>3

LEMMA QuietKinds ==
    ASSUME NEW o \in QuietOp
    PROVE  \/ o = <<"yield", "cpu">>
           \/ o = <<"exit", Nobody>>
           \/ \E s \in Lock \cup Thread : o = <<"take", s>> \/ o = <<"drop", s>>
           \/ \E e \in Event : o = <<"signal", e>> \/ o = <<"broadcast", e>>
  BY OpsDiffer DEF QuietOp

LEMMA AtIs ==
    ASSUME Types, NEW op, NEW x, At(op, x)
    PROVE  /\ cur \in All /\ cur # Nobody /\ todo[cur] \in Seq(Operation) /\ todo[cur] # <<>>
           /\ Head(todo[cur]) = <<op, x>>
  BY DEF At, Types

LEMMA AtTake ==
    ASSUME Types, Shapes, NEW s \in Sema, At("take", s)
    PROVE  \/ cur \in Thread /\ Quiet(todo[cur]) /\ s \in Lock \cup Thread
           \/ cur = Topmost /\ todo[cur] = Takes /\ s = "newq_sema"
           \/ cur \in Thread /\ s = "newq_sema" /\ \E t \in Thread : todo[cur] = Run4(t)
<1>1. /\ cur # Nobody /\ todo[cur] # <<>>
      /\ Head(todo[cur]) = <<"take", s>>
  BY AtIs
<1> QED
  BY <1>1, Heads, QuietKinds, Anchors

LEMMA AtDrop ==
    ASSUME Types, Shapes, NEW s \in Sema, At("drop", s)
    PROVE  \/ cur \in Thread /\ Quiet(todo[cur]) /\ s \in Lock \cup Thread
           \/ cur = Topmost /\ s = "newq_sema" /\ \E t \in Thread : todo[cur] = Drops(t)
           \/ cur \in Thread /\ s = "newq_sema" /\ \E t \in Thread : todo[cur] = Run1(t)
<1>1. /\ cur # Nobody /\ todo[cur] # <<>>
      /\ Head(todo[cur]) = <<"drop", s>>
  BY AtIs
<1> QED
  BY <1>1, Heads, QuietKinds, Anchors

LEMMA AtWait ==
    ASSUME Types, Shapes, NEW e \in Evt, NEW l \in Guard, At("wait", <<e, l>>)
    PROVE  \/ cur = Topmost /\ todo[cur] = Waits /\ e = "newq_event" /\ l = "newq_sema"
           \/ /\ cur \in Thread /\ e \in Event /\ l = LockOf[e]
              /\ todo[cur] = EventWait(e) /\ ~ready[e]
<1>1. /\ cur # Nobody /\ todo[cur] # <<>>
      /\ Head(todo[cur]) = <<"wait", <<e, l>>>>
  BY AtIs
<1> QED
  BY <1>1, Heads, QuietKinds, Anchors

LEMMA AtSignal ==
    ASSUME Types, Shapes, NEW e \in Evt, At("signal", e)
    PROVE  \/ cur \in Thread /\ Quiet(todo[cur]) /\ e \in Event
           \/ cur \in Thread /\ e = "newq_event" /\ \E t \in Thread : todo[cur] = Run2(t)
<1>1. /\ cur # Nobody /\ todo[cur] # <<>>
      /\ Head(todo[cur]) = <<"signal", e>>
  BY AtIs
<1> QED
  BY <1>1, Heads, QuietKinds, Anchors

LEMMA AtBroadcast ==
    ASSUME Types, Shapes, NEW e \in Evt, At("broadcast", e)
    PROVE  cur \in Thread /\ Quiet(todo[cur]) /\ e \in Event
<1>1. /\ cur # Nobody /\ todo[cur] # <<>>
      /\ Head(todo[cur]) = <<"broadcast", e>>
  BY AtIs
<1> QED
  BY <1>1, Heads, QuietKinds

LEMMA AtEnqueue ==
    ASSUME Types, Shapes, NEW t \in Thread, At("enqueue", t)
    PROVE  cur \in Thread /\ todo[cur] = Run3(t)
<1>1. /\ cur # Nobody /\ todo[cur] # <<>>
      /\ Head(todo[cur]) = <<"enqueue", t>>
  BY AtIs
<1> QED
  BY <1>1, Heads, QuietKinds

LEMMA AtFork ==
    ASSUME Types, Shapes, NEW t \in Thread, At("fork", t)
    PROVE  cur = Topmost /\ todo[cur] = Forks(t)
<1>1. /\ cur # Nobody /\ todo[cur] # <<>>
      /\ Head(todo[cur]) = <<"fork", t>>
  BY AtIs
<1> QED
  BY <1>1, Heads, QuietKinds

LEMMA AtLaunch ==
    ASSUME Types, Shapes, At("launch", Topmost)
    PROVE  cur = Topmost /\ todo[cur] = Launches
<1>1. /\ cur # Nobody /\ todo[cur] # <<>>
      /\ Head(todo[cur]) = <<"launch", Topmost>>
  BY AtIs
<1> QED
  BY <1>1, Heads, QuietKinds

LEMMA AtExit ==
    ASSUME Types, Shapes, At("exit", Nobody)
    PROVE  cur \in Thread /\ Quiet(todo[cur])
<1>1. /\ cur # Nobody /\ todo[cur] # <<>>
      /\ Head(todo[cur]) = <<"exit", Nobody>>
  BY AtIs
<1> QED
  BY <1>1, Heads, QuietKinds

LEMMA AtYield ==
    ASSUME Types, Shapes, At("yield", "cpu")
    PROVE  cur \in Thread /\ Quiet(todo[cur])
<1>1. /\ cur # Nobody /\ todo[cur] # <<>>
      /\ Head(todo[cur]) = <<"yield", "cpu">>
  BY AtIs
<1> QED
  BY <1>1, Heads, QuietKinds

\* Routines that have nothing to do with new threads.
Calm(ops) == Quiet(ops) \/ \E e \in Event : ops = EventWait(e)

LEMMA CalmIs ==
    ASSUME NEW ops, Calm(ops)
    PROVE  /\ Hand(ops) = {} /\ ~Locked(ops) /\ ops # Waits
           /\ \A t \in Thread : ops # Run2(t)
<1> DEFINE busy == {<<"launch", Topmost>>, <<"wait", <<"newq_event", "newq_sema">>>>,
                    <<"take", "newq_sema">>, <<"signal", "newq_event">>, <<"drop", "newq_sema">>}
                   \cup {<<"enqueue", t>> : t \in Thread} \cup {<<"fork", t>> : t \in Thread}
<1>1. ops # <<>> => Head(ops) \notin busy
  <2>1. CASE Quiet(ops) /\ ops # <<>>
    <3>1. Head(ops) \in QuietOp
      BY <2>1 DEF Quiet
    <3> QED
      BY <3>1, QuietKinds, Anchors
  <2>2. CASE \E e \in Event : ops = EventWait(e)
    BY <2>2, EventShapes, OpsDiffer, Anchors
  <2> QED
    BY <2>1, <2>2 DEF Calm
<1>2. /\ Head(Launches) \in busy /\ Head(Waits) \in busy /\ Launches # <<>> /\ Waits # <<>>
      /\ \A t \in Thread : /\ Head(Run4(t)) \in busy /\ Head(Run3(t)) \in busy
                           /\ Head(Run2(t)) \in busy /\ Head(Run1(t)) \in busy
                           /\ Head(Drops(t)) \in busy /\ Head(Forks(t)) \in busy
                           /\ Run4(t) # <<>> /\ Run3(t) # <<>> /\ Run2(t) # <<>> /\ Run1(t) # <<>>
                           /\ Drops(t) # <<>> /\ Forks(t) # <<>>
  BY LauncherShapes, RunShapes, ForkShapes, OpsDiffer
<1> HIDE DEF busy
<1> QED
  BY <1>1, <1>2 DEF Hand, Locked

LEMMA Lengths ==
    /\ Len(Takes) = 2 /\ Len(Launches) = 1 /\ Len(Waits) = 3
    /\ \A t : /\ Len(Run4(t)) = 7 /\ Len(Run3(t)) = 6 /\ Len(Run2(t)) = 5 /\ Len(Run1(t)) = 4
              /\ Len(Drops(t)) = 4 /\ Len(Forks(t)) = 3
<1>1. Len(Takes) = 2 /\ Len(Launches) = 1 /\ Len(Waits) = 3
  BY ONLY TRUE DEF Takes, Launches, Waits
<1>2. ASSUME NEW t
      PROVE  /\ Len(Run4(t)) = 7 /\ Len(Run3(t)) = 6 /\ Len(Run2(t)) = 5 /\ Len(Run1(t)) = 4
             /\ Len(Drops(t)) = 4 /\ Len(Forks(t)) = 3
  BY ONLY TRUE DEF Run4, Run3, Run2, Run1, Drops, Forks
<1> QED
  BY ONLY <1>1, <1>2

LEMMA LauncherIs ==
    /\ Hand(Takes) = {} /\ Hand(Launches) = {} /\ Hand(Waits) = {}
    /\ ~Locked(Takes) /\ Locked(Launches) /\ Locked(Waits)
    /\ Takes # Waits /\ Launches # Waits
    /\ \A t \in Thread : Takes # Run2(t) /\ Launches # Run2(t) /\ Waits # Run2(t)
<1>1. ASSUME NEW t \in Thread PROVE Waits # Forks(t)
  <2>1. Waits[1][1] = "wait" /\ Forks(t)[1][1] = "fork"
    BY ONLY TRUE DEF Waits, Wait, Forks, Fork
  <2> QED
    BY <2>1
<1> QED
  BY ONLY Lengths, <1>1 DEF Hand, Locked

LEMMA RunIs ==
    ASSUME NEW t \in Thread
    PROVE  /\ Hand(Run4(t)) = {t} /\ Hand(Run3(t)) = {t} /\ Hand(Run2(t)) = {} /\ Hand(Run1(t)) = {}
           /\ ~Locked(Run4(t)) /\ Locked(Run3(t)) /\ Locked(Run2(t)) /\ Locked(Run1(t))
           /\ \A u \in Thread : Run4(t) # Run2(u) /\ Run3(t) # Run2(u) /\ Run1(t) # Run2(u)
           /\ Hand(Drops(t)) = {t} /\ Hand(Forks(t)) = {t}
           /\ Locked(Drops(t)) /\ ~Locked(Forks(t)) /\ Drops(t) # Waits /\ Forks(t) # Waits
           /\ \A u \in Thread : Drops(t) # Run2(u) /\ Forks(t) # Run2(u)
<1>1. \A u, v : Enqueue(u) = Enqueue(v) \/ Fork(u) = Fork(v) => u = v
  BY ONLY TRUE DEF Enqueue, Fork
<1>2. ASSUME NEW u \in Thread
      PROVE  /\ Run4(t) = Run4(u) => t = u
             /\ Run3(t) = Run3(u) => t = u
  BY ONLY <1>1 DEF Run4, Run3
<1>3. ASSUME NEW u \in Thread
      PROVE  /\ Drops(t) = Drops(u) => t = u
             /\ Forks(t) = Forks(u) => t = u
  BY ONLY <1>1 DEF Drops, Forks
<1>4. ASSUME NEW u \in Thread, NEW v \in Thread PROVE Run1(u) # Drops(v)
  <2>1. Run1(u)[2][1] = "yield" /\ Drops(v)[2][1] = "fork"
    BY ONLY TRUE DEF Run1, Drops, Yield, Fork
  <2> QED
    BY <2>1
<1>5. Forks(t) # Waits
  <2>1. Waits[1][1] = "wait" /\ Forks(t)[1][1] = "fork"
    BY ONLY TRUE DEF Waits, Wait, Forks, Fork
  <2> QED
    BY <2>1
<1>6. /\ Hand(Run4(t)) = {t} /\ Hand(Run3(t)) = {t} /\ Hand(Run2(t)) = {} /\ Hand(Run1(t)) = {}
      /\ Hand(Drops(t)) = {t} /\ Hand(Forks(t)) = {t}
  BY ONLY Lengths, <1>2, <1>3, <1>4, t \in Thread DEF Hand
<1>7. /\ ~Locked(Run4(t)) /\ Locked(Run3(t)) /\ Locked(Run2(t)) /\ Locked(Run1(t))
      /\ Locked(Drops(t)) /\ ~Locked(Forks(t)) /\ Drops(t) # Waits /\ Forks(t) # Waits
  BY ONLY Lengths, <1>5, t \in Thread DEF Locked
<1>8. \A u \in Thread : /\ Run4(t) # Run2(u) /\ Run3(t) # Run2(u) /\ Run1(t) # Run2(u)
                        /\ Drops(t) # Run2(u) /\ Forks(t) # Run2(u)
  BY ONLY Lengths
<1> QED
  BY <1>6, <1>7, <1>8

\* The threads that will take s are finitely many.
LEMMA ComingFinite == \A s : IsFiniteSet(Coming(s))
<1>1. IsFiniteSet(All)
  BY FS_Singleton, FS_Union DEF All
<1>2. \A s : Coming(s) \subseteq All
  BY DEF Coming
<1> QED
  BY <1>1, <1>2, FS_Subset

LEMMA ComingFiniteNext == \A s : IsFiniteSet(Coming(s)')
<1>1. IsFiniteSet(All)
  BY FS_Singleton, FS_Union DEF All
<1>2. \A s : Coming(s)' \subseteq All
  BY DEF Coming
<1> QED
  BY <1>1, <1>2, FS_Subset

LEMMA LoseOne ==
    ASSUME NEW A, NEW B, NEW x, IsFiniteSet(A), IsFiniteSet(B), A \ {x} \subseteq B
    PROVE  /\ Cardinality(A) \in Nat /\ Cardinality(B) \in Nat
           /\ Cardinality(A) <= Cardinality(B) + 1
           /\ A \subseteq B => Cardinality(A) <= Cardinality(B)
           /\ A \subseteq B /\ x \in B /\ x \notin A => Cardinality(A) + 1 <= Cardinality(B)
<1>1. Cardinality(A) \in Nat /\ Cardinality(B) \in Nat
  BY FS_CardinalityType
<1>2. A \subseteq B => Cardinality(A) <= Cardinality(B)
  BY FS_Subset
<1>3. Cardinality(A) <= Cardinality(B) + 1
  <2>1. IsFiniteSet(A \ {x}) /\ Cardinality(A \ {x}) <= Cardinality(B)
    BY FS_Subset
  <2>2. Cardinality(A \ {x}) = IF x \in A THEN Cardinality(A) - 1 ELSE Cardinality(A)
    BY FS_RemoveElement
  <2> QED
    BY <1>1, <2>1, <2>2
<1>4. ASSUME A \subseteq B, x \in B, x \notin A PROVE Cardinality(A) + 1 <= Cardinality(B)
  <2>1. IsFiniteSet(A \cup {x}) /\ Cardinality(A \cup {x}) = Cardinality(A) + 1
    BY <1>4, FS_AddElement
  <2>2. A \cup {x} \subseteq B
    BY <1>4
  <2>3. Cardinality(A \cup {x}) <= Cardinality(B)
    BY <2>2, FS_Subset
  <2> QED
    BY <2>1, <2>3
<1> QED
  BY <1>1, <1>2, <1>3, <1>4

-----------------------------------------------------------------------------
(* Steps *)

\* The thread that is current after a step of a calm one is calm too, or the launcher
\* before it takes its lock.
LEMMA CalmNext ==
    ASSUME Types, Shapes, cur \in Thread, Types', NEW ops, todo' = [todo EXCEPT ![cur] = ops],
           Quiet(ops) \/ (cur' = cur /\ \E e \in Event : ops = EventWait(e) /\ ~ready'[e])
    PROVE  /\ Shapes'
           /\ todo'[Topmost] = Takes
           /\ cur' # Nobody => /\ Hand(todo'[cur']) = {} /\ ~Locked(todo'[cur'])
                               /\ \A t \in Thread : todo'[cur'] # Run2(t)
<1>1. /\ \A u \in All : todo'[u] = IF u = cur THEN ops ELSE todo[u]
      /\ Topmost \in All /\ Thread \subseteq All /\ Topmost # cur /\ Topmost \notin Thread
  BY DEF Types, All
<1>2. todo'[Topmost] = Takes
  BY <1>1 DEF Shapes
<1>3. \A u \in Thread \ {cur} : Quiet(todo'[u])
  BY <1>1 DEF Shapes
<1>4. todo'[cur] = ops /\ Calm(ops)
  BY <1>1 DEF Calm
<1>5. Shapes'
  <2>1. \A u \in Thread : \/ Quiet(todo'[u])
                          \/ cur' = u /\ \E e \in Event : todo'[u] = EventWait(e) /\ ~ready'[e]
    BY <1>3, <1>4
  <2> QED
    BY <1>2, <2>1 DEF Shapes
<1>6. ASSUME cur' # Nobody
      PROVE  /\ Hand(todo'[cur']) = {} /\ ~Locked(todo'[cur'])
             /\ \A t \in Thread : todo'[cur'] # Run2(t)
  <2>1. cur' \in All
    BY <1>6 DEF Types
  <2>2. CASE cur' = Topmost
    BY <1>2, <2>2, LauncherIs
  <2>3. CASE cur' \in Thread
    <3>1. Calm(todo'[cur'])
      BY <1>3, <1>4, <2>3 DEF Calm
    <3> QED
      BY <3>1, CalmIs
  <2> QED
    BY <2>1, <2>2, <2>3 DEF All
<1> QED
  BY <1>2, <1>5, <1>6

LEMMA CalmStep ==
    ASSUME IInv, cur \in Thread, Calm(todo[cur]), Types',
           NEW ops, todo' = [todo EXCEPT ![cur] = ops],
           Quiet(ops) \/ (cur' = cur /\ \E e \in Event : ops = EventWait(e) /\ ~ready'[e]),
           Disjoint(chain'), ~Linked(chain', cur'),
           \A t \in Thread : t \in Alive' <=> Linked(chain', t) \/ t = cur',
           \A t \in All : t # cur /\ CanRun(t) => CanRun(t)',
           \A r \in {"newq", "newq_sema", "newq_event"} : chain'[r] = chain[r],
           cur' = Nobody => chain'["runq"] = <<>>,
           value'["newq_sema"] = value["newq_sema"],
           \A s \in Sema : \A u \in Members(chain'[s]) :
               u \in Members(chain[s]) \/ (u = cur /\ ops # <<>> /\ Head(ops) = Take(s)),
           Counts', Announced'
    PROVE  IInv'
<1>1. /\ Types /\ Shapes /\ Places /\ Blocked /\ Section /\ Signalled
      /\ cur # Nobody /\ Topmost # cur /\ Topmost \in All /\ Thread \subseteq All
  BY DEF IInv, All
<1>2. /\ Shapes'
      /\ todo'[Topmost] = Takes
      /\ cur' # Nobody => /\ Hand(todo'[cur']) = {} /\ ~Locked(todo'[cur'])
                          /\ \A t \in Thread : todo'[cur'] # Run2(t)
  BY <1>1, CalmNext
<1>3. /\ Hand(todo[cur]) = {} /\ ~Locked(todo[cur]) /\ \A t \in Thread : todo[cur] # Run2(t)
  BY CalmIs
<1>4. Places'
  <2>1. \A t : ~InHand(t)'
    BY <1>2 DEF InHand
  <2>2. CanRun(Topmost)' \/ Topmost \in Members(chain'["newq_event"])
    BY <1>1 DEF Places
  <2>3. /\ Members(chain'["newq"]) \subseteq Thread
        /\ Members(chain'["newq_event"]) \subseteq {Topmost}
    BY <1>1 DEF Places
  <2> QED
    BY <2>1, <2>2, <2>3 DEF Places
<1>5. Blocked'
  <2>1. ASSUME NEW s \in Sema, NEW u \in Members(chain'[s])
        PROVE  todo'[u] # <<>> /\ Head(todo'[u]) = Take(s)
    <3>1. \A v \in All : todo'[v] = IF v = cur THEN ops ELSE todo[v]
      BY <1>1 DEF Types
    <3>2. CASE u = cur /\ ops # <<>> /\ Head(ops) = Take(s)
      BY <1>1, <3>1, <3>2
    <3>3. CASE u \in Members(chain[s])
      <4>1. Linked(chain, u)
        BY <3>3, Anchors DEF Linked
      <4>2. u # cur
        BY <1>1, <4>1 DEF Places
      <4>3. u \in All
        <5>1. chain[s] \in Seq(All)
          BY <1>1, Anchors DEF Types
        <5> QED
          BY <3>3, <5>1 DEF Members
      <4>4. todo[u] # <<>> /\ Head(todo[u]) = Take(s)
        BY <1>1, <3>3 DEF Blocked
      <4> QED
        BY <3>1, <4>2, <4>3, <4>4
    <3> QED
      BY <2>1, <3>2, <3>3
  <2> QED
    BY <2>1 DEF Blocked
<1>6. Section'
  BY <1>1, <1>2, <1>3 DEF Section, InSection
<1>7. Signalled'
  BY <1>1, <1>2, <1>3, LauncherIs DEF Signalled
<1> QED
  BY <1>2, <1>4, <1>5, <1>6, <1>7 DEF IInv, Ended

\* What a step does that touches no queue of the program's own.
LEMMA BusyStep ==
    ASSUME IInv, cur \in All, cur' = cur, Types', Shapes', Places', Section', Signalled',
           NEW ops, todo' = [todo EXCEPT ![cur] = ops],
           \A t \in All : CanRun(t) => CanRun(t)',
           \A r \in (Sema \cup Event) : chain'[r] = chain[r],
           \A s \in Lock \cup Thread : /\ value'[s] <= value[s]
                                       /\ todo[cur] = <<>> \/ Head(todo[cur]) # Take(s),
           ready' = ready, \A e \in Event : todo[cur] \notin Opening(e)
    PROVE  IInv'
<1>1. /\ Types /\ Places /\ Blocked /\ Counts /\ Announced /\ Section
      /\ \A u \in All : todo'[u] = IF u = cur THEN ops ELSE todo[u]
      /\ Thread \subseteq All /\ cur' # Nobody
  BY DEF IInv, Types, All
<1>2. Blocked'
  <2>1. ASSUME NEW s \in Sema, NEW u \in Members(chain'[s])
        PROVE  todo'[u] # <<>> /\ Head(todo'[u]) = Take(s)
    <3>1. u \in Members(chain[s])
      BY <2>1
    <3>2. Linked(chain, u)
      BY <3>1, Anchors DEF Linked
    <3>3. u # cur
      BY <1>1, <3>2 DEF Places
    <3>4. u \in All
      <4>1. chain[s] \in Seq(All)
        BY <1>1, Anchors DEF Types
      <4> QED
        BY <3>1, <4>1 DEF Members
    <3>5. todo[u] # <<>> /\ Head(todo[u]) = Take(s)
      BY <1>1, <3>1 DEF Blocked
    <3> QED
      BY <1>1, <3>3, <3>4, <3>5
  <2> QED
    BY <2>1 DEF Blocked
<1>3. Counts'
  <2>1. ASSUME NEW s \in Sema, chain'[s] # <<>>
        PROVE  value'[s] <= Cardinality(Coming(s)')
    <3>1. s \in Lock \cup Thread /\ chain[s] # <<>>
      BY <1>1, <2>1, Anchors DEF Section
    <3>2. Coming(s) \subseteq Coming(s)'
      BY <1>1, <3>1 DEF Coming
    <3>3. /\ Cardinality(Coming(s)) \in Nat /\ Cardinality(Coming(s)') \in Nat
          /\ Cardinality(Coming(s)) <= Cardinality(Coming(s)')
      BY <3>2, ComingFinite, ComingFiniteNext, LoseOne
    <3>4. value[s] <= Cardinality(Coming(s)) /\ value'[s] <= value[s]
      BY <1>1, <2>1, <3>1 DEF Counts
    <3>5. value[s] \in Nat /\ value'[s] \in Nat
      BY <1>1, <2>1 DEF Types
    <3> QED
      BY <3>3, <3>4, <3>5
  <2> QED
    BY <2>1 DEF Counts
<1>4. Announced'
  <2>1. ASSUME NEW e \in Event, ready'[e], chain'[e] # <<>>
        PROVE  \E t \in Thread : CanRun(t)' /\ todo'[t] \in Opening(e)
    <3>1. PICK t \in Thread : CanRun(t) /\ todo[t] \in Opening(e)
      BY <1>1, <2>1 DEF Announced
    <3> QED
      BY <1>1, <3>1
  <2> QED
    BY <2>1 DEF Announced
<1> QED
  BY <1>1, <1>2, <1>3, <1>4 DEF IInv, Ended

-----------------------------------------------------------------------------
(* The parts of the invariant that every step of a calm thread has to restore *)

LEMMA QuietTail ==
    ASSUME NEW ops, Quiet(ops), ops # <<>>
    PROVE  Quiet(Tail(ops)) /\ Tail(ops) \in Seq(Operation) /\ ops \in Seq(Operation)
<1>1. Tail(ops) \in Seq(QuietOp)
  BY DEF Quiet
<1>2. \A w \in Seq(QuietOp) : w \in Seq(Operation)
  BY QuietOps
<1> QED
  BY <1>1, <1>2 DEF Quiet

LEMMA QuietTyped == ASSUME NEW ops, Quiet(ops) PROVE ops \in Seq(Operation)
  BY QuietOps DEF Quiet

LEMMA OpeningIs ==
    ASSUME NEW e \in Event, NEW ops \in Opening(e)
    PROVE  /\ ops # <<>> /\ Quiet(ops)
           /\ \/ Head(ops) = <<"drop", LockOf[e]>> /\ Tail(ops) \in Opening(e)
              \/ Head(ops) = <<"yield", "cpu">> /\ Tail(ops) \in Opening(e)
              \/ Head(ops) = <<"broadcast", e>>
  BY EventShapes, OpsDiffer DEF Opening

\* Only the semaphore p is touched, for the better.
LEMMA CountsNext ==
    ASSUME IInv, cur \in All, Types', NEW ops, todo' = [todo EXCEPT ![cur] = ops],
           \A t \in All : t # cur /\ CanRun(t) => CanRun(t)',
           NEW p,
           \A s \in Sema \ {p} : /\ todo[cur] = <<>> \/ Head(todo[cur]) # Take(s)
                                 /\ value'[s] <= value[s]
                                 /\ chain'[s] # <<>> => chain[s] # <<>>,
           p \in Sema /\ chain'[p] # <<>> => value'[p] <= Cardinality(Coming(p)')
    PROVE  Counts'
<1>1. ASSUME NEW s \in Sema \ {p}, chain'[s] # <<>> PROVE value'[s] <= Cardinality(Coming(s)')
  <2>1. Coming(s) \subseteq Coming(s)'
    <3>1. \A u \in All : todo'[u] = IF u = cur THEN ops ELSE todo[u]
      BY DEF IInv, Types
    <3> QED
      BY <1>1, <3>1 DEF Coming
  <2>2. /\ Cardinality(Coming(s)) \in Nat /\ Cardinality(Coming(s)') \in Nat
        /\ Cardinality(Coming(s)) <= Cardinality(Coming(s)')
    BY <2>1, ComingFinite, ComingFiniteNext, LoseOne
  <2>3. value[s] <= Cardinality(Coming(s)) /\ value'[s] <= value[s]
    BY <1>1 DEF IInv, Counts
  <2>4. value[s] \in Nat /\ value'[s] \in Nat
    BY <1>1 DEF IInv, Types
  <2> QED
    BY <2>2, <2>3, <2>4
<1> QED
  BY <1>1 DEF Counts

LEMMA AnnouncedNext ==
    ASSUME IInv, NEW me \in Thread, me = cur, NEW ops, todo' = [todo EXCEPT ![cur] = ops],
           \A t \in All : t # cur /\ CanRun(t) => CanRun(t)',
           \A e \in Event : ready'[e] /\ chain'[e] # <<>> =>
               \/ ready[e] /\ chain[e] # <<>>
               \/ CanRun(me)' /\ ops \in Opening(e),
           \A e \in Event : todo[cur] \in Opening(e) =>
               \/ chain'[e] = <<>>
               \/ CanRun(me)' /\ ops \in Opening(e)
    PROVE  Announced'
<1>1. ASSUME NEW e \in Event, ready'[e], chain'[e] # <<>>
      PROVE  \E t \in Thread : CanRun(t)' /\ todo'[t] \in Opening(e)
  <2>1. /\ \A u \in All : todo'[u] = IF u = cur THEN ops ELSE todo[u]
        /\ Thread \subseteq All
    BY DEF IInv, Types, All
  <2>0. me \in Thread /\ todo'[me] = ops
    BY <2>1
  <2>2. CASE CanRun(me)' /\ ops \in Opening(e)
    BY ONLY <2>0, <2>2, Zenon
  <2>3. CASE ready[e] /\ chain[e] # <<>>
    <3>1. PICK t \in Thread : CanRun(t) /\ todo[t] \in Opening(e)
      BY <2>3 DEF IInv, Announced
    <3>2. CASE t = cur
      <4>1. CanRun(me)' /\ ops \in Opening(e)
        BY <1>1, <3>1, <3>2
      <4> QED
        BY ONLY <2>0, <4>1, Zenon
    <3>3. CASE t # cur
      BY <2>1, <3>1, <3>3
    <3> QED
      BY <3>2, <3>3
  <2> QED
    BY <1>1, <2>2, <2>3
<1> QED
  BY <1>1 DEF Announced

-----------------------------------------------------------------------------
(* Calls *)

\* A client calls a routine that has nothing to do with new threads.
LEMMA Calling ==
    ASSUME IInv, Client, cur' = cur, chain' = chain, state' = state,
           NEW ops, todo' = [todo EXCEPT ![cur] = ops],
           Quiet(ops) \/ (\E e \in Event : ops = EventWait(e) /\ ~ready'[e]),
           value' \in [Sema -> Nat], \A s \in Sema : value'[s] <= value[s],
           value'["newq_sema"] = value["newq_sema"],
           onExit' \in [Thread -> Seq(Lock)], ready' \in [Event -> BOOLEAN],
           \A e \in Event : ready'[e] => ready[e] \/ ops \in Opening(e)
    PROVE  IInv'
<1>1. Types /\ Shapes /\ Places /\ cur \in Thread /\ todo[cur] = <<>> /\ Thread \subseteq All
      /\ cur # Nobody
  BY DEF IInv, Client, All
<1>2. Calm(todo[cur]) /\ Quiet(<<>>)
  BY <1>1 DEF Calm, Quiet
<1>3. Types'
  <2>1. ops \in Seq(Operation)
    BY QuietTyped, EventShapes
  <2>2. todo' \in [All -> Seq(Operation)]
    BY <1>1, <2>1 DEF Types
  <2> QED
    BY <1>1, <2>2 DEF Types
<1>4. \A t : CanRun(t)' <=> CanRun(t)
  BY DEF CanRun, InRunq
<1>5. Counts'
  <2>1. "runq" \notin Sema
    BY Anchors
  <2> QED
    BY <1>1, <1>3, <1>4, <2>1, CountsNext
<1>6. Announced'
  <2>1. \A e \in Event : todo[cur] \notin Opening(e)
    BY <1>1, OpeningIs
  <2>2. PICK me \in Thread : me = cur
    BY <1>1
  <2>3. CanRun(me)'
    BY <2>2 DEF CanRun
  <2> QED
    BY <1>1, <1>4, <2>1, <2>2, <2>3, AnnouncedNext
<1>7. \A t \in Thread : t \in Alive' <=> Linked(chain', t) \/ t = cur'
  <2>1. \A t : ~InHand(t)
    BY <1>1, <1>2, CalmIs DEF InHand
  <2> QED
    BY <1>1, <2>1 DEF Places, Alive
<1>8. Disjoint(chain') /\ ~Linked(chain', cur')
  BY <1>1 DEF Places
<1> QED
  BY <1>1, <1>2, <1>3, <1>4, <1>5, <1>6, <1>7, <1>8, CalmStep

\* Without a count, an exit function or a flag that changes.
LEMMA PlainCall ==
    ASSUME IInv, NEW ops, Call(ops), UNCHANGED <<cur, chain, value, threads, client, held>>,
           Quiet(ops) \/ (\E e \in Event : ops = EventWait(e) /\ ~ready[e])
    PROVE  IInv'
<1>1. /\ Client /\ todo' = [todo EXCEPT ![cur] = ops]
      /\ cur' = cur /\ chain' = chain /\ state' = state
      /\ value' = value /\ onExit' = onExit /\ ready' = ready
  BY DEF Call, threads, client
<1>2. /\ value' \in [Sema -> Nat] /\ \A s \in Sema : value'[s] <= value[s]
      /\ onExit' \in [Thread -> Seq(Lock)] /\ ready' \in [Event -> BOOLEAN]
  BY <1>1 DEF IInv, Types
<1> QED
  BY <1>1, <1>2, Calling

LEMMA CallShapes ==
    /\ Quiet(<<Yield>>) /\ Quiet(<<Exit>>) /\ Quiet(<<>>)
    /\ \A s \in Lock \cup Thread : /\ Quiet(dthr_semaphore_take(s)) /\ Quiet(dthr_semaphore_drop(s))
                                   /\ Quiet(<<Drop(s), Yield, Exit>>)
    /\ \A e \in Event : Quiet(dthr_event_signal(e))
<1>1. Quiet(<<Yield>>) /\ Quiet(<<Exit>>) /\ Quiet(<<>>)
  BY QuietOps DEF Quiet
<1>2. ASSUME NEW s \in Lock \cup Thread
      PROVE  /\ Quiet(dthr_semaphore_take(s)) /\ Quiet(dthr_semaphore_drop(s))
             /\ Quiet(<<Drop(s), Yield, Exit>>)
  BY QuietOps DEF Quiet, dthr_semaphore_take, dthr_semaphore_drop
<1>3. ASSUME NEW e \in Event PROVE Quiet(dthr_event_signal(e))
  BY QuietOps DEF Quiet, dthr_event_signal
<1> QED
  BY <1>1, <1>2, <1>3

LEMMA JoinShape ==
    ASSUME NEW t \in Thread
    PROVE  Quiet(dthr_thread_wait(t))
<1>1. /\ Take(t) \in Operation /\ Drop(t) \in Operation /\ Yield \in Operation
      /\ Take(t) \in QuietOp /\ Drop(t) \in QuietOp /\ Yield \in QuietOp
  BY QuietOps
<1>2. Cat(<<Yield, Take(t)>>, <<Drop(t), Yield>>) = <<Yield, Take(t), Drop(t), Yield>>
  BY ONLY <1>1, TwoAndTwo, Zenon
<1>3. dthr_thread_wait(t) = <<Yield, Take(t), Drop(t), Yield>>
  BY ONLY <1>2, Zenon DEF dthr_thread_wait, dthr_semaphore_take, dthr_semaphore_drop, Cat
<1>4. Quiet(<<Yield, Take(t), Drop(t), Yield>>)
  BY ONLY <1>1 DEF Quiet
<1> QED
  BY ONLY <1>3, <1>4

LEMMA PlainCalls ==
    ASSUME IInv, CallYield \/ CallDetach \/ CallExit
    PROVE  IInv'
<1>1. CASE CallYield
  <2>1. Call(<<Yield>>) /\ UNCHANGED <<cur, chain, value, threads, client, held>>
    BY <1>1 DEF CallYield
  <2> QED
    BY <2>1, CallShapes, PlainCall
<1>2. CASE CallExit
  <2>1. Call(<<Exit>>) /\ UNCHANGED <<cur, chain, value, threads, client, held>>
    BY <1>2 DEF CallExit
  <2> QED
    BY <2>1, CallShapes, PlainCall
<1>3. CASE CallDetach
  <2>1. PICK ops : ops = dthr_thread_detach(Main)
    OBVIOUS
  <2>2. /\ Client /\ todo' = [todo EXCEPT ![cur] = ops]
        /\ cur' = cur /\ chain' = chain /\ state' = state
        /\ value' = value /\ onExit' = onExit /\ ready' = ready
    BY <1>3, <2>1 DEF CallDetach, Call, threads
  <2>3. Quiet(ops)
    BY <2>1, CallShapes DEF dthr_thread_detach
  <2>4. /\ value' \in [Sema -> Nat] /\ \A s \in Sema : value'[s] <= value[s]
        /\ onExit' \in [Thread -> Seq(Lock)] /\ ready' \in [Event -> BOOLEAN]
    BY <2>2 DEF IInv, Types
  <2> QED
    BY <2>2, <2>3, <2>4, Calling
<1> QED
  BY <1>1, <1>2, <1>3

LEMMA LockCalls ==
    ASSUME IInv, NEW l \in Lock, CallTake(l) \/ CallDrop(l) \/ CallTry(l) \/ CallOnExit(l)
    PROVE  IInv'
<1>1. CASE CallTake(l)
  <2>1. Call(dthr_semaphore_take(l)) /\ UNCHANGED <<cur, chain, value, threads, client, held>>
    BY <1>1 DEF CallTake
  <2> QED
    BY <2>1, CallShapes, PlainCall
<1>2. CASE CallDrop(l)
  <2>1. Call(dthr_semaphore_drop(l)) /\ UNCHANGED <<cur, chain, value, threads, client, held>>
    BY <1>2 DEF CallDrop
  <2> QED
    BY <2>1, CallShapes, PlainCall
<1>3. CASE CallTry(l)
  <2>1. /\ Client /\ value[l] > 0 /\ value' = [value EXCEPT ![l] = @ - 1]
        /\ cur' = cur /\ chain' = chain /\ todo' = todo /\ state' = state
        /\ onExit' = onExit /\ ready' = ready
    BY <1>3 DEF CallTry, threads, client
  <2>2. todo' = [todo EXCEPT ![cur] = <<>>]
    BY <2>1 DEF Client, IInv, Types
  <2>3. l \in Sema /\ l # "newq_sema" /\ "newq_sema" \in Sema
    BY Anchors
  <2>4. /\ value' \in [Sema -> Nat] /\ \A s \in Sema : value'[s] <= value[s]
        /\ value'["newq_sema"] = value["newq_sema"]
    BY <2>1, <2>3 DEF IInv, Types
  <2>5. onExit' \in [Thread -> Seq(Lock)] /\ ready' \in [Event -> BOOLEAN]
    BY <2>1 DEF IInv, Types
  <2> QED
    BY <2>1, <2>2, <2>4, <2>5, CallShapes, Calling
<1>4. CASE CallOnExit(l)
  <2>1. PICK o : o = <<l>> \o onExit[cur]
    OBVIOUS
  <2>2. /\ Client /\ onExit' = [onExit EXCEPT ![cur] = o] /\ value' = value
        /\ cur' = cur /\ chain' = chain /\ todo' = todo /\ state' = state /\ ready' = ready
    BY <1>4, <2>1 DEF CallOnExit, threads
  <2>3. todo' = [todo EXCEPT ![cur] = <<>>]
    BY <2>2 DEF Client, IInv, Types
  <2>4. o \in Seq(Lock)
    <3>1. onExit[cur] \in Seq(Lock) /\ <<l>> \in Seq(Lock)
      BY <2>2 DEF Client, IInv, Types
    <3> QED
      BY ONLY <2>1, <3>1, ConcatProperties
  <2>5. onExit' \in [Thread -> Seq(Lock)]
    <3>1. onExit \in [Thread -> Seq(Lock)] /\ onExit' = [onExit EXCEPT ![cur] = o]
      BY <2>2 DEF IInv, Types
    <3> QED
      BY ONLY <2>4, <3>1
  <2>6. /\ value' \in [Sema -> Nat] /\ \A s \in Sema : value'[s] <= value[s]
        /\ ready' \in [Event -> BOOLEAN]
    BY <2>2 DEF IInv, Types
  <2> QED
    BY <2>2, <2>3, <2>5, <2>6, CallShapes, Calling
<1> QED
  BY <1>1, <1>2, <1>3, <1>4

LEMMA EventCalls ==
    ASSUME IInv, NEW e \in Event, CallWait(e) \/ CallSignal(e) \/ CallOpen(e)
    PROVE  IInv'
<1>1. CASE CallWait(e)
  <2>1. Call(EventWait(e)) /\ ~ready[e] /\ UNCHANGED <<cur, chain, value, threads, client, held>>
    BY <1>1, EventShapes DEF CallWait
  <2> QED
    BY <2>1, PlainCall
<1>2. CASE CallSignal(e)
  <2>1. Call(dthr_event_signal(e)) /\ UNCHANGED <<cur, chain, value, threads, client, held>>
    BY <1>2 DEF CallSignal
  <2> QED
    BY <2>1, CallShapes, PlainCall
<1>3. CASE CallOpen(e)
  <2>1. /\ Client /\ todo' = [todo EXCEPT ![cur] = Opens3(e)] /\ ready' = [ready EXCEPT ![e] = TRUE]
        /\ cur' = cur /\ chain' = chain /\ state' = state /\ value' = value /\ onExit' = onExit
    BY <1>3, EventShapes, Zenon DEF CallOpen, Call, threads, Cat
  <2>2. Quiet(Opens3(e)) /\ Opens3(e) \in Opening(e)
    BY EventShapes DEF Opening
  <2>3. /\ value' \in [Sema -> Nat] /\ \A s \in Sema : value'[s] <= value[s]
        /\ onExit' \in [Thread -> Seq(Lock)] /\ ready' \in [Event -> BOOLEAN]
    BY <2>1 DEF IInv, Types
  <2>4. \A f \in Event : ready'[f] => ready[f] \/ Opens3(e) \in Opening(f)
    BY <2>1, <2>2 DEF IInv, Types
  <2> QED
    BY <2>1, <2>2, <2>3, <2>4, Calling
<1> QED
  BY <1>1, <1>2, <1>3

LEMMA JoinCall ==
    ASSUME IInv, NEW t \in Thread, CallJoin(t)
    PROVE  IInv'
<1>1. Call(dthr_thread_wait(t)) /\ UNCHANGED <<cur, chain, value, threads, client, held>>
  BY DEF CallJoin
<1> QED
  BY <1>1, JoinShape, PlainCall

-----------------------------------------------------------------------------
(* Steps of calm threads *)

\* The exit functions of a thread drop locks.
LEMMA ExitFunctions ==
    ASSUME IInv, ExitFunction
    PROVE  IInv'
<1>1. /\ At("exit", Nobody) /\ onExit[cur] # <<>>
      /\ todo' = [todo EXCEPT ![cur] = dthr_semaphore_drop(Head(onExit[cur])) \o <<Exit>>]
      /\ onExit' = [onExit EXCEPT ![cur] = Tail(@)]
      /\ cur' = cur /\ chain' = chain /\ value' = value /\ state' = state /\ ready' = ready
  BY DEF ExitFunction, threads
<1>2. /\ Types /\ Shapes /\ Places /\ cur \in Thread /\ Quiet(todo[cur]) /\ Thread \subseteq All
      /\ cur # Nobody /\ todo[cur] # <<>> /\ Head(todo[cur]) = <<"exit", Nobody>>
  BY <1>1, AtExit, AtIs DEF IInv, All
<1>3. onExit[cur] \in Seq(Lock)
  BY <1>2 DEF Types
<1>4. PICK l : l = Head(onExit[cur])
  OBVIOUS
<1>5. l \in Lock /\ Tail(onExit[cur]) \in Seq(Lock)
  BY <1>1, <1>3, <1>4
<1>6. PICK ops : ops = <<Drop(l), Yield, Exit>>
  OBVIOUS
<1>7. todo' = [todo EXCEPT ![cur] = ops]
  <2>1. Drop(l) \in Operation /\ Yield \in Operation /\ Exit \in Operation
    BY <1>5, QuietOps
  <2>2. Cat(<<Drop(l), Yield>>, <<Exit>>) = ops
    BY ONLY <1>6, <2>1, TwoAndOne, Zenon
  <2>3. dthr_semaphore_drop(Head(onExit[cur])) \o <<Exit>> = ops
    BY ONLY <1>4, <2>2, Zenon DEF dthr_semaphore_drop, Cat
  <2> QED
    BY ONLY <1>1, <2>3, Zenon
<1>8. Quiet(ops)
  BY <1>5, <1>6, CallShapes
<1>9. Types'
  <2>1. onExit' \in [Thread -> Seq(Lock)]
    <3>1. onExit \in [Thread -> Seq(Lock)]
      BY <1>2 DEF Types
    <3> QED
      BY ONLY <1>1, <1>5, <3>1
  <2>2. todo' \in [All -> Seq(Operation)]
    BY <1>2, <1>7, <1>8, QuietTyped DEF Types
  <2> QED
    BY <1>1, <1>2, <2>1, <2>2 DEF Types
<1>10. \A t : CanRun(t)' <=> CanRun(t)
  BY <1>1 DEF CanRun, InRunq
<1>11. Counts'
  <2>1. "runq" \notin Sema /\ \A s \in Sema : Head(todo[cur]) # Take(s)
    BY <1>2, Anchors, OpsDiffer
  <2>2. \A s \in Sema : value'[s] <= value[s]
    BY <1>1, <1>2 DEF Types
  <2> QED
    BY <1>1, <1>2, <1>7, <1>9, <1>10, <2>1, <2>2, CountsNext
<1>12. Announced'
  <2>1. \A e \in Event : todo[cur] \notin Opening(e)
    BY <1>2, OpeningIs
  <2> QED
    BY <1>1, <1>2, <1>7, <1>10, <2>1, AnnouncedNext
<1>13. \A t \in Thread : t \in Alive' <=> Linked(chain', t) \/ t = cur'
  <2>1. \A t : ~InHand(t)
    BY <1>2, CalmIs DEF InHand, Calm
  <2> QED
    BY <1>1, <1>2, <2>1 DEF Places, Alive
<1>14. Disjoint(chain') /\ ~Linked(chain', cur')
  BY <1>1, <1>2 DEF Places
<1> QED
  BY <1>1, <1>2, <1>7, <1>8, <1>9, <1>10, <1>11, <1>12, <1>13, <1>14, CalmStep DEF Calm

LEMMA RunqIs ==
    /\ \A t : InRunq(t) <=> t \in Members(chain["runq"])
    /\ \A t : CanRun(t) <=> t = cur \/ t \in Members(chain["runq"])
  BY DEF InRunq, CanRun, Members

LEMMA RunqIsNext ==
    \A t : CanRun(t)' <=> t = cur' \/ t \in Members(chain'["runq"])
  BY DEF InRunq, CanRun, Members

\* A calm thread at an operation, and what is left of its routine after it.
QuietFacts(op, x, ops) ==
    /\ Types /\ Shapes /\ Places
    /\ Thread \subseteq All /\ cur # Nobody /\ Nobody \notin All
    /\ todo[cur] # <<>> /\ Head(todo[cur]) = <<op, x>> /\ Calm(todo[cur])
    /\ Quiet(ops) /\ ops \in Seq(Operation) /\ [todo EXCEPT ![cur] = ops] \in [All -> Seq(Operation)]
    /\ \A t \in Thread : t \in Alive <=> Linked(chain, t) \/ t = cur
    /\ \A s : Head(todo[cur]) = Take(s) => op = "take" /\ x = s
    /\ \A e \in Event : todo[cur] \in Opening(e) =>
           \/ op \in {"drop", "yield"} /\ ops \in Opening(e)
           \/ op = "broadcast" /\ x = e
    /\ Disjoint(chain) /\ ~Linked(chain, cur)

LEMMA QuietNow ==
    ASSUME IInv, NEW op, NEW x, At(op, x), cur \in Thread, Quiet(todo[cur]),
           NEW ops, ops = Tail(todo[cur])
    PROVE  QuietFacts(op, x, ops)
<1>1. /\ Types /\ Shapes /\ Places /\ Thread \subseteq All /\ cur # Nobody /\ Nobody \notin All
  BY DEF IInv, All
<1>2. todo[cur] # <<>> /\ Head(todo[cur]) = <<op, x>> /\ Calm(todo[cur])
  BY <1>1, AtIs DEF Calm
<1>3. Quiet(ops) /\ ops \in Seq(Operation)
  BY <1>2, QuietTail
<1>4. [todo EXCEPT ![cur] = ops] \in [All -> Seq(Operation)]
  BY <1>1, <1>3 DEF Types
<1>5. \A t \in Thread : t \in Alive <=> Linked(chain, t) \/ t = cur
  <2>1. \A t : ~InHand(t)
    BY <1>2, CalmIs DEF InHand
  <2> QED
    BY <1>1, <2>1 DEF Places
<1>6. \A s : Head(todo[cur]) = Take(s) => op = "take" /\ x = s
  BY <1>2, OpsDiffer
<1>7. ASSUME NEW e \in Event, todo[cur] \in Opening(e)
      PROVE  \/ op \in {"drop", "yield"} /\ ops \in Opening(e)
             \/ op = "broadcast" /\ x = e
  BY <1>2, <1>7, OpeningIs
<1>8. Disjoint(chain) /\ ~Linked(chain, cur)
  BY <1>1 DEF Places
<1> QED
  BY <1>1, <1>2, <1>3, <1>4, <1>5, <1>6, <1>7, <1>8 DEF QuietFacts

LEMMA Yields ==
    ASSUME IInv, DoYield
    PROVE  IInv'
<1>1. PICK ops : ops = Tail(todo[cur])
  OBVIOUS
<1>2. PICK c : c = JoinTo(chain, "runq", cur)
  OBVIOUS
<1>3. /\ At("yield", "cpu") /\ todo' = [todo EXCEPT ![cur] = ops]
      /\ value' = value /\ state' = state /\ onExit' = onExit /\ ready' = ready
  BY <1>1 DEF DoYield, Done, threads, client
<1>4. cur \in Thread /\ QuietFacts("yield", "cpu", ops)
  BY <1>1, <1>3, AtYield, QuietNow DEF IInv
<1>5. /\ chain' \in [Chain -> Seq(All)] /\ Disjoint(chain')
      /\ cur' \in All \cup {Nobody} /\ ~Linked(chain', cur')
      /\ \A t \in All : Linked(chain', t) \/ t = cur' <=> Linked(chain, t) \/ t = cur
      /\ \A t \in All : CanRun(t)' <=> CanRun(t)
      /\ \A r \in Chain \ {"runq"} : chain'[r] = chain[r]
      /\ cur' = Nobody => chain'["runq"] = <<>>
  <2>1. CASE chain["runq"] = <<>>
    <3>1. cur' = cur /\ chain' = chain
      BY <2>1 DEF DoYield
    <3> QED
      BY <1>4, <3>1 DEF QuietFacts, Types, CanRun, InRunq
  <2>2. CASE chain["runq"] # <<>>
    <3>1. Sleep(c)
      BY <1>2, <2>2, Zenon DEF DoYield, JoinTo
    <3>2. Joined(chain, "runq", cur, c)
      <4>1. /\ chain \in [Chain -> Seq(All)] /\ Disjoint(chain) /\ cur \in All
            /\ ~Linked(chain, cur) /\ "runq" \in Chain
        BY <1>4, Anchors DEF QuietFacts, Types
      <4> QED
        BY ONLY <1>2, <4>1, JoinIs
    <3>3. /\ c \in [Chain -> Seq(All)] /\ Disjoint(c)
          /\ Members(c["runq"]) = Members(chain["runq"]) \cup {cur}
          /\ \A t : Linked(c, t) <=> Linked(chain, t) \/ t = cur
          /\ \A r \in Chain \ {"runq"} : c[r] = chain[r]
      BY <3>2 DEF Joined
    <3>4. /\ chain' \in [Chain -> Seq(All)] /\ Disjoint(chain')
          /\ cur' \in All \cup {Nobody} /\ ~Linked(chain', cur')
          /\ \A t \in All : Linked(chain', t) \/ t = cur' <=> Linked(c, t)
          /\ \A t \in All : t = cur' \/ t \in Members(chain'["runq"])
                                <=> t \in Members(c["runq"])
          /\ \A r \in Chain \ {"runq"} : chain'[r] = c[r]
          /\ cur' = Nobody => chain'["runq"] = <<>>
      BY <3>1, <3>3, SleepIs
    <3>5. \A t \in All : CanRun(t)' <=> CanRun(t)
      BY ONLY <3>3, <3>4, RunqIs, RunqIsNext
    <3> QED
      BY ONLY <3>3, <3>4, <3>5
  <2> QED
    BY <2>1, <2>2
<1>6. Types'
  BY <1>3, <1>4, <1>5 DEF QuietFacts, Types
<1>7. /\ "runq" \notin Sema /\ Sema \subseteq Chain /\ Evt \subseteq Chain /\ "runq" \notin Evt
      /\ {"newq", "newq_sema", "newq_event"} \subseteq Chain \ {"runq"} /\ Event \subseteq Evt
      /\ "newq_sema" \in Sema
  BY Anchors
<1>8. Counts'
  <2>1. ASSUME NEW s \in Sema
        PROVE  value'[s] <= value[s] /\ chain'[s] = chain[s] /\ Head(todo[cur]) # Take(s)
    <3>1. value'[s] <= value[s]
      BY <1>3, <1>4 DEF QuietFacts, Types
    <3>2. chain'[s] = chain[s]
      BY <1>5, <1>7
    <3>3. Head(todo[cur]) # Take(s)
      BY <1>4 DEF QuietFacts
    <3> QED
      BY <3>1, <3>2, <3>3
  <2> QED
    BY <1>3, <1>4, <1>5, <1>6, <1>7, <2>1, CountsNext DEF QuietFacts
<1>9. Announced'
  <2>1. PICK me \in Thread : me = cur
    BY <1>4
  <2>2. CanRun(me)'
    <3>1. CanRun(me) /\ me \in All
      BY <1>4, <2>1 DEF CanRun, QuietFacts
    <3> QED
      BY <1>5, <3>1
  <2>3. \A e \in Event : chain'[e] = chain[e]
    BY <1>5, <1>7
  <2>4. \A e \in Event : todo[cur] \in Opening(e) => ops \in Opening(e)
    BY <1>4 DEF QuietFacts
  <2> QED
    BY <1>3, <1>5, <2>1, <2>2, <2>3, <2>4, AnnouncedNext
<1>10. \A t \in Thread : t \in Alive' <=> Linked(chain', t) \/ t = cur'
  BY <1>3, <1>4, <1>5 DEF QuietFacts, Alive
<1>11. \A s \in Sema : \A u \in Members(chain'[s]) : u \in Members(chain[s])
  BY <1>5, <1>7
<1>12. \A r \in {"newq", "newq_sema", "newq_event"} : chain'[r] = chain[r]
  BY <1>5, <1>7
<1>13. Calm(todo[cur]) /\ Quiet(ops)
  BY <1>4 DEF QuietFacts
<1> QED
  BY <1>3, <1>4, <1>5, <1>6, <1>8, <1>9, <1>10, <1>11, <1>12, <1>13, CalmStep

\* A semaphore of the program that can be taken.
LEMMA TakesIt ==
    ASSUME IInv, NEW s \in Sema, DoTake(s), value[s] # 0, cur \in Thread, Quiet(todo[cur]),
           s \in Lock \cup Thread
    PROVE  IInv'
<1>1. PICK ops : ops = Tail(todo[cur])
  OBVIOUS
<1>2. /\ At("take", s) /\ todo' = [todo EXCEPT ![cur] = ops]
      /\ value' = [value EXCEPT ![s] = @ - 1] /\ cur' = cur /\ chain' = chain /\ state' = state
      /\ onExit' = onExit /\ ready' = ready
  BY <1>1 DEF DoTake, Done, client
<1>3. QuietFacts("take", s, ops)
  BY <1>1, <1>2, QuietNow
<1>4. /\ value' \in [Sema -> Nat] /\ value'[s] = value[s] - 1 /\ value[s] \in Nat
      /\ \A r \in Sema \ {s} : value'[r] = value[r] /\ value'[r] <= value[r]
  BY <1>2, <1>3 DEF QuietFacts, Types
<1>5. Types'
  BY <1>2, <1>3, <1>4 DEF QuietFacts, Types
<1>6. \A t : CanRun(t)' <=> CanRun(t)
  BY <1>2 DEF CanRun, InRunq
<1>7. Counts'
  <2>1. ASSUME chain'[s] # <<>> PROVE value'[s] <= Cardinality(Coming(s)')
    <3>1. Coming(s) \ {cur} \subseteq Coming(s)'
      <4>1. \A u \in All : todo'[u] = IF u = cur THEN ops ELSE todo[u]
        BY <1>2, <1>3 DEF QuietFacts, Types
      <4> QED
        BY <1>6, <4>1 DEF Coming
    <3>2. /\ Cardinality(Coming(s)) \in Nat /\ Cardinality(Coming(s)') \in Nat
          /\ Cardinality(Coming(s)) <= Cardinality(Coming(s)') + 1
      BY <3>1, ComingFinite, ComingFiniteNext, LoseOne
    <3>3. value[s] <= Cardinality(Coming(s))
      BY <1>2, <2>1 DEF IInv, Counts
    <3> QED
      BY <1>4, <3>2, <3>3
  <2>2. \A r \in Sema \ {s} : /\ Head(todo[cur]) # Take(r) /\ value'[r] <= value[r]
                              /\ chain'[r] # <<>> => chain[r] # <<>>
    BY <1>2, <1>3, <1>4 DEF QuietFacts
  <2>3. cur \in All
    BY <1>3 DEF QuietFacts
  <2> QED
    BY <1>2, <1>5, <1>6, <2>1, <2>2, <2>3, CountsNext
<1>8. Announced'
  <2>1. \A e \in Event : todo[cur] \notin Opening(e)
    BY <1>3 DEF QuietFacts
  <2> QED
    BY <1>2, <1>6, <2>1, AnnouncedNext
<1>9. \A t \in Thread : t \in Alive' <=> Linked(chain', t) \/ t = cur'
  BY <1>2, <1>3 DEF QuietFacts, Alive
<1>10. Calm(todo[cur]) /\ Quiet(ops) /\ Disjoint(chain') /\ ~Linked(chain', cur') /\ cur' # Nobody
  BY <1>2, <1>3 DEF QuietFacts
<1>11. value'["newq_sema"] = value["newq_sema"]
  BY <1>4, Anchors
<1> QED
  BY <1>2, <1>5, <1>6, <1>7, <1>8, <1>9, <1>10, <1>11, CalmStep

\* The current thread joins a queue of the program and sleeps.
SleepsIn(q) ==
    /\ chain' \in [Chain -> Seq(All)] /\ Disjoint(chain')
    /\ cur' \in All \cup {Nobody} /\ ~Linked(chain', cur')
    /\ \A t \in All : Linked(chain', t) \/ t = cur' <=> Linked(chain, t) \/ t = cur
    /\ \A t \in All : CanRun(t)' <=> t \in Members(chain["runq"])
    /\ Members(chain'[q]) = Members(chain[q]) \cup {cur}
    /\ \A r \in Chain \ {"runq", q} : chain'[r] = chain[r]
    /\ cur' = Nobody => chain'["runq"] = <<>>

LEMMA Sleeping ==
    ASSUME chain \in [Chain -> Seq(All)], Disjoint(chain), cur \in All, ~Linked(chain, cur),
           NEW q \in Chain, q # "runq", Sleep(JoinTo(chain, q, cur))
    PROVE  SleepsIn(q)
<1>1. PICK c : c = JoinTo(chain, q, cur)
  OBVIOUS
<1>2. Joined(chain, q, cur, c)
  BY <1>1, JoinIs
<1>3. /\ c \in [Chain -> Seq(All)] /\ Disjoint(c)
      /\ Members(c[q]) = Members(chain[q]) \cup {cur}
      /\ \A t : Linked(c, t) <=> Linked(chain, t) \/ t = cur
      /\ \A r \in Chain \ {q} : c[r] = chain[r]
  BY <1>2 DEF Joined
<1>4. /\ chain' \in [Chain -> Seq(All)] /\ Disjoint(chain')
      /\ cur' \in All \cup {Nobody} /\ ~Linked(chain', cur')
      /\ \A t \in All : Linked(chain', t) \/ t = cur' <=> Linked(c, t)
      /\ \A t \in All : t = cur' \/ t \in Members(chain'["runq"])
                            <=> t \in Members(c["runq"])
      /\ \A r \in Chain \ {"runq"} : chain'[r] = c[r]
      /\ cur' = Nobody => chain'["runq"] = <<>>
  BY <1>1, <1>3, SleepIs
<1>5. c["runq"] = chain["runq"] /\ chain'[q] = c[q]
  BY <1>3, <1>4, Anchors
<1> QED
  BY <1>3, <1>4, <1>5, RunqIsNext DEF SleepsIn

\* One that is at 0.
LEMMA WaitsForIt ==
    ASSUME IInv, NEW s \in Sema, DoTake(s), value[s] = 0, cur \in Thread, Quiet(todo[cur]),
           s \in Lock \cup Thread
    PROVE  IInv'
<1>1. PICK ops, old : ops = Tail(todo[cur]) /\ old = todo[cur]
  OBVIOUS
<1>2. /\ At("take", s) /\ todo' = todo /\ value' = value
      /\ Sleep([chain EXCEPT ![s] = Append(@, cur)])
      /\ state' = [state EXCEPT ![cur] = "sema_wait"]
      /\ onExit' = onExit /\ ready' = ready
  BY DEF DoTake, client
<1>3. QuietFacts("take", s, ops)
  BY <1>1, <1>2, QuietNow
<1>4. s \in Chain /\ s # "runq" /\ Sema \subseteq Chain \ {"runq"} /\ Event \subseteq Chain \ {"runq", s}
      /\ {"newq", "newq_sema", "newq_event"} \subseteq Chain \ {"runq", s}
  BY Anchors
<1>5. SleepsIn(s)
  <2>1. chain \in [Chain -> Seq(All)] /\ Disjoint(chain) /\ cur \in All /\ ~Linked(chain, cur)
    BY <1>3 DEF QuietFacts, Types
  <2>2. Sleep(JoinTo(chain, s, cur))
    BY <1>2, Zenon DEF JoinTo
  <2> QED
    BY <1>4, <2>1, <2>2, Sleeping
<1>6. Types'
  BY <1>2, <1>3, <1>5 DEF QuietFacts, Types, SleepsIn, State
<1>7. todo' = [todo EXCEPT ![cur] = old] /\ Quiet(old) /\ old # <<>> /\ Head(old) = Take(s)
  BY <1>1, <1>2, <1>3, OpsDiffer DEF QuietFacts, Types
<1>8. \A t \in All : t # cur /\ CanRun(t) => CanRun(t)'
  BY <1>5, RunqIs DEF SleepsIn
<1>9. Counts'
  <2>1. value'[s] <= Cardinality(Coming(s)')
    <3>1. Cardinality(Coming(s)') \in Nat
      BY ComingFiniteNext, FS_CardinalityType
    <3> QED
      BY <1>2, <3>1
  <2>2. ASSUME NEW r \in Sema \ {s}
        PROVE  Head(todo[cur]) # Take(r) /\ value'[r] <= value[r] /\ chain'[r] = chain[r]
    <3>1. Head(todo[cur]) # Take(r)
      BY <1>3, <2>2 DEF QuietFacts
    <3>2. value'[r] <= value[r]
      BY <1>2, <1>3 DEF QuietFacts, Types
    <3>3. chain'[r] = chain[r]
      BY <1>4, <1>5 DEF SleepsIn
    <3> QED
      BY <3>1, <3>2, <3>3
  <2>3. cur \in All
    BY <1>3 DEF QuietFacts
  <2> QED
    BY <1>6, <1>7, <1>8, <2>1, <2>2, <2>3, CountsNext
<1>10. Announced'
  <2>1. \A e \in Event : todo[cur] \notin Opening(e)
    BY <1>3 DEF QuietFacts
  <2>2. \A e \in Event : chain'[e] = chain[e]
    BY <1>4, <1>5 DEF SleepsIn
  <2> QED
    BY <1>2, <1>7, <1>8, <2>1, <2>2, AnnouncedNext
<1>11. \A t \in Thread : t \in Alive' <=> Linked(chain', t) \/ t = cur'
  <2>1. \A t \in Thread : t \in Alive' <=> t \in Alive
    BY <1>2, <1>3 DEF QuietFacts, Alive, Types
  <2> QED
    BY <1>3, <1>5, <2>1 DEF QuietFacts, SleepsIn
<1>12. \A r \in {"newq", "newq_sema", "newq_event"} : chain'[r] = chain[r]
  BY <1>4, <1>5 DEF SleepsIn
<1>13. \A r \in Sema : \A u \in Members(chain'[r]) :
           u \in Members(chain[r]) \/ (u = cur /\ old # <<>> /\ Head(old) = Take(r))
  BY <1>4, <1>5, <1>7 DEF SleepsIn
<1>14. Calm(todo[cur]) /\ value'["newq_sema"] = value["newq_sema"]
  BY <1>2, <1>3 DEF QuietFacts
<1> QED
  BY <1>5, <1>6, <1>7, <1>8, <1>9, <1>10, <1>11, <1>12, <1>13, <1>14, CalmStep DEF SleepsIn

\* The first thread of a queue of the program is woken, if there is one.
Wakes(q, x) ==
    /\ chain' \in [Chain -> Seq(All)] /\ Disjoint(chain') /\ state' \in [All -> State]
    /\ \A t : Linked(chain', t) <=> Linked(chain, t)
    /\ \A t \in Thread : t \in Alive' <=> t \in Alive
    /\ chain[q] = <<>> => chain' = chain
    /\ chain[q] # <<>> =>
          /\ x \in All /\ x \in Members(chain[q])
          /\ Members(chain'["runq"]) = Members(chain["runq"]) \cup {x}
          /\ Members(chain'[q]) = Members(chain[q]) \ {x}
    /\ \A r \in Chain \ {"runq", q} : chain'[r] = chain[r]
    /\ \A t : CanRun(t) => CanRun(t)'

LEMMA Waking ==
    ASSUME Types, Places, ~(\E t \in Thread : InHand(t)), NEW q \in Sema \cup Evt, cur' = cur,
           NEW x, x = Head(chain[q]), chain' = Moved(chain, q),
           state' = IF chain[q] = <<>> THEN state
                    ELSE [state EXCEPT ![Head(chain[q])] = "runnable"]
    PROVE  Wakes(q, x)
<1>1. PICK d : d = Moved(chain, q)
  OBVIOUS
<1>2. /\ d \in [Chain -> Seq(All)] /\ Disjoint(d)
      /\ \A t : Linked(d, t) <=> Linked(chain, t)
      /\ chain[q] = <<>> => d = chain
      /\ chain[q] # <<>> =>
            /\ x \in All /\ x \in Members(chain[q])
            /\ Members(d["runq"]) = Members(chain["runq"]) \cup {x}
            /\ Members(d[q]) = Members(chain[q]) \ {x}
            /\ \A r \in Chain \ {"runq", q} : d[r] = chain[r]
  <2>1. chain \in [Chain -> Seq(All)] /\ Disjoint(chain)
    BY DEF Types, Places
  <2>2. PICK c : c = chain
    OBVIOUS
  <2>3. /\ c \in [Chain -> Seq(All)] /\ Disjoint(c) /\ d = Moved(c, q) /\ x = Head(c[q])
        /\ q \in Sema \cup Evt
    BY ONLY <1>1, <2>1, <2>2, q \in Sema \cup Evt, x = Head(chain[q]), Zenon
  <2>4. Shifted(c, q, x, d)
    BY ONLY <2>3, MovedIs
  <2> QED
    BY ONLY <2>2, <2>4, Zenon DEF Shifted
<1>3. chain' = d
  BY <1>1
<1>4. state' \in [All -> State] /\ \A t \in Thread : t \in Alive' <=> t \in Alive
  <2>1. CASE chain[q] = <<>>
    BY <2>1 DEF Alive, Types
  <2>2. CASE chain[q] # <<>>
    <3>1. state' = [state EXCEPT ![x] = "runnable"] /\ x \in All
      BY <1>2, <2>2
    <3>2. x \in Thread => x \in Alive
      <4>1. Linked(chain, x)
        BY <1>2, <2>2, Anchors DEF Linked
      <4> QED
        BY <4>1 DEF Places
    <3> QED
      BY <3>1, <3>2 DEF Alive, Types, State
  <2> QED
    BY <2>1, <2>2
<1>5. \A t : CanRun(t) => CanRun(t)'
  BY <1>2, <1>3, RunqIs, RunqIsNext
<1>6. \A r \in Chain \ {"runq", q} : chain'[r] = chain[r]
  BY <1>2, <1>3
<1> QED
  BY <1>2, <1>3, <1>4, <1>5, <1>6 DEF Wakes

LEMMA CalmHand == ASSUME Calm(todo[cur]) PROVE ~(\E t \in Thread : InHand(t))
  BY CalmIs DEF InHand

\* The first thread that waits for a semaphore is on its way once it is woken.
LEMMA DropsIt ==
    ASSUME IInv, NEW s \in Sema, DoDrop(s), cur \in Thread, Quiet(todo[cur]),
           s \in Lock \cup Thread
    PROVE  IInv'
<1>1. PICK ops, x : ops = Tail(todo[cur]) /\ x = Head(chain[s])
  OBVIOUS
<1>2. /\ At("drop", s) /\ todo' = [todo EXCEPT ![cur] = ops]
      /\ value' = [value EXCEPT ![s] = @ + 1] /\ cur' = cur /\ chain' = Moved(chain, s)
      /\ state' = IF chain[s] = <<>> THEN state
                  ELSE [state EXCEPT ![Head(chain[s])] = "runnable"]
      /\ onExit' = onExit /\ ready' = ready
  BY <1>1 DEF DoDrop, Done, client
<1>3. QuietFacts("drop", s, ops)
  BY <1>1, <1>2, QuietNow
<1>4. s \in Chain /\ s # "runq" /\ Sema \subseteq Chain \ {"runq"} /\ Event \subseteq Chain \ {"runq", s}
      /\ {"newq", "newq_sema", "newq_event"} \subseteq Chain \ {"runq", s}
  BY Anchors
<1>5. Wakes(s, x)
  BY <1>1, <1>2, <1>3, CalmHand, Waking DEF QuietFacts
<1>6. /\ value' \in [Sema -> Nat] /\ value'[s] = value[s] + 1 /\ value[s] \in Nat
      /\ \A r \in Sema \ {s} : value'[r] = value[r] /\ value'[r] <= value[r]
  BY <1>2, <1>3 DEF QuietFacts, Types
<1>7. Types'
  BY <1>2, <1>3, <1>5, <1>6 DEF QuietFacts, Types, Wakes
<1>8. \A t \in All : CanRun(t) => CanRun(t)'
  BY <1>5 DEF Wakes
<1>9. Counts'
  <2>1. ASSUME chain'[s] # <<>> PROVE value'[s] <= Cardinality(Coming(s)')
    <3>1. \A u \in All : todo'[u] = IF u = cur THEN ops ELSE todo[u]
      BY <1>2, <1>3 DEF QuietFacts, Types
    <3>2. chain[s] # <<>> /\ x \in All /\ x \in Members(chain[s])
          /\ x \in Members(chain'["runq"])
      BY <1>5, <2>1 DEF Wakes
    <3>3. Coming(s) \subseteq Coming(s)'
      <4>1. Head(todo[cur]) # Take(s)
        BY <1>3 DEF QuietFacts
      <4> QED
        BY <1>8, <3>1, <4>1 DEF Coming
    <3>4. x # cur
      BY <1>3, <1>4, <3>2 DEF QuietFacts, Linked
    <3>5. x \notin Members(chain["runq"])
      BY <1>3, <1>4, <3>2, Anchors DEF QuietFacts, Disjoint
    <3>6. x \in Coming(s)' /\ x \notin Coming(s)
      <4>1. todo[x] # <<>> /\ Head(todo[x]) = Take(s)
        BY <3>2 DEF IInv, Blocked
      <4>2. todo'[x] # <<>> /\ Head(todo'[x]) = Take(s)
        BY <3>1, <3>2, <3>4, <4>1
      <4>3. CanRun(x)' /\ ~CanRun(x)
        BY <3>2, <3>4, <3>5, RunqIs, RunqIsNext
      <4> QED
        BY <3>2, <4>2, <4>3 DEF Coming
    <3>7. /\ Cardinality(Coming(s)) \in Nat /\ Cardinality(Coming(s)') \in Nat
          /\ Cardinality(Coming(s)) + 1 <= Cardinality(Coming(s)')
      BY <3>3, <3>6, ComingFinite, ComingFiniteNext, LoseOne
    <3>8. value[s] <= Cardinality(Coming(s))
      BY <3>2 DEF IInv, Counts
    <3> QED
      BY <1>6, <3>7, <3>8
  <2>2. ASSUME NEW r \in Sema \ {s}
        PROVE  Head(todo[cur]) # Take(r) /\ value'[r] <= value[r] /\ chain'[r] = chain[r]
    <3>1. Head(todo[cur]) # Take(r)
      BY <1>3, <2>2 DEF QuietFacts
    <3>2. chain'[r] = chain[r]
      BY <1>4, <1>5 DEF Wakes
    <3> QED
      BY <1>6, <3>1, <3>2
  <2>3. cur \in All
    BY <1>3 DEF QuietFacts
  <2> QED
    BY <1>2, <1>7, <1>8, <2>1, <2>2, <2>3, CountsNext
<1>10. Announced'
  <2>1. PICK me \in Thread : me = cur
    OBVIOUS
  <2>2. CanRun(me)'
    BY <1>2, <2>1, RunqIsNext
  <2>3. \A e \in Event : chain'[e] = chain[e]
    BY <1>4, <1>5 DEF Wakes
  <2>4. \A e \in Event : todo[cur] \in Opening(e) => ops \in Opening(e)
    BY <1>3 DEF QuietFacts
  <2> QED
    BY <1>2, <1>8, <2>1, <2>2, <2>3, <2>4, AnnouncedNext
<1>11. \A t \in Thread : t \in Alive' <=> Linked(chain', t) \/ t = cur'
  BY <1>2, <1>3, <1>5 DEF QuietFacts, Wakes
<1>12. \A r \in {"newq", "newq_sema", "newq_event"} : chain'[r] = chain[r]
  BY <1>4, <1>5 DEF Wakes
<1>13. \A r \in Sema : \A u \in Members(chain'[r]) : u \in Members(chain[r])
  <2>1. Members(chain'[s]) \subseteq Members(chain[s])
    BY <1>5 DEF Wakes
  <2> QED
    BY <1>4, <1>5, <2>1 DEF Wakes
<1>14. /\ Calm(todo[cur]) /\ Quiet(ops) /\ cur' # Nobody
       /\ Disjoint(chain') /\ ~Linked(chain', cur')
  BY <1>2, <1>3, <1>5 DEF QuietFacts, Wakes
<1>15. value'["newq_sema"] = value["newq_sema"]
  BY <1>6, Anchors
<1> QED
  BY <1>2, <1>7, <1>8, <1>9, <1>10, <1>11, <1>12, <1>13, <1>14, <1>15, CalmStep

\* A step of a calm thread that moves no semaphore's queue and no count.
Stirs(e) ==
    /\ cur' = cur /\ value' = value /\ onExit' = onExit /\ ready' = ready
    /\ chain' \in [Chain -> Seq(All)] /\ Disjoint(chain') /\ state' \in [All -> State]
    /\ \A t : Linked(chain', t) <=> Linked(chain, t)
    /\ \A t \in Thread : t \in Alive' <=> t \in Alive
    /\ \A t : CanRun(t) => CanRun(t)'
    /\ \A r \in Chain \ {"runq", e} : chain'[r] = chain[r]
    /\ chain[e] = <<>> => chain'[e] = <<>>

Leaves(ops) == todo' = [todo EXCEPT ![cur] = ops]

LEMMA EventStep ==
    ASSUME IInv, NEW op, NEW x, op \in {"signal", "broadcast"}, cur \in Thread,
           NEW ops, QuietFacts(op, x, ops), Leaves(ops),
           x \in Event, Stirs(x),
           op = "broadcast" => chain'[x] = <<>>
    PROVE  IInv'
<1> USE DEF Stirs, Leaves
<1>1. /\ Sema \subseteq Chain \ {"runq", x} /\ Event \subseteq Chain \ {"runq"} /\ "runq" \notin Sema
      /\ {"newq", "newq_sema", "newq_event"} \subseteq Chain \ {"runq", x}
  BY Anchors
<1>2. Types'
  BY DEF QuietFacts, Types
<1>3. Counts'
  <2>1. ASSUME NEW s \in Sema
        PROVE  value'[s] <= value[s] /\ chain'[s] = chain[s] /\ Head(todo[cur]) # Take(s)
    <3>1. value'[s] <= value[s]
      BY DEF QuietFacts, Types
    <3>2. Head(todo[cur]) # Take(s)
      BY DEF QuietFacts
    <3> QED
      BY <1>1, <3>1, <3>2
  <2>2. cur \in All
    BY DEF QuietFacts
  <2> QED
    BY <1>1, <1>2, <2>1, <2>2, CountsNext
<1>4. Announced'
  <2>1. ASSUME NEW e \in Event, ready'[e] /\ chain'[e] # <<>> PROVE ready[e] /\ chain[e] # <<>>
    BY <1>1, <2>1
  <2>2. ASSUME NEW e \in Event, todo[cur] \in Opening(e) PROVE chain'[e] = <<>>
    BY <2>2 DEF QuietFacts
  <2> QED
    BY <2>1, <2>2, AnnouncedNext
<1>5. \A t \in Thread : t \in Alive' <=> Linked(chain', t) \/ t = cur'
  BY DEF QuietFacts
<1>6. /\ Calm(todo[cur]) /\ Quiet(ops) /\ cur' # Nobody /\ ~Linked(chain', cur')
      /\ value'["newq_sema"] = value["newq_sema"]
  BY DEF QuietFacts
<1>7. \A s \in Sema : \A u \in Members(chain'[s]) : u \in Members(chain[s])
  BY <1>1
<1>8. \A r \in {"newq", "newq_sema", "newq_event"} : chain'[r] = chain[r]
  BY <1>1
<1> QED
  BY <1>2, <1>3, <1>4, <1>5, <1>6, <1>7, <1>8, CalmStep

LEMMA SignalsIt ==
    ASSUME IInv, NEW e \in Event, DoSignal(e), cur \in Thread, Quiet(todo[cur])
    PROVE  IInv'
<1>1. PICK ops, x : ops = Tail(todo[cur]) /\ x = Head(chain[e])
  OBVIOUS
<1>2. /\ At("signal", e) /\ todo' = [todo EXCEPT ![cur] = ops]
      /\ value' = value /\ cur' = cur /\ chain' = Moved(chain, e)
      /\ state' = IF chain[e] = <<>> THEN state
                  ELSE [state EXCEPT ![Head(chain[e])] = "runnable"]
      /\ onExit' = onExit /\ ready' = ready
  BY <1>1 DEF DoSignal, Done, client
<1>3. QuietFacts("signal", e, ops)
  BY <1>1, <1>2, QuietNow
<1>4. e \in Evt
  BY Anchors
<1>5. Wakes(e, x)
  BY <1>1, <1>2, <1>3, <1>4, CalmHand, Waking DEF QuietFacts
<1>6. Stirs(e)
  BY <1>2, <1>5 DEF Wakes, Stirs
<1> QED
  <2>1. PICK op : op = "signal"
    OBVIOUS
  <2>2. /\ QuietFacts(op, e, ops) /\ op \in {"signal", "broadcast"}
        /\ op = "broadcast" => chain'[e] = <<>>
        /\ Leaves(ops)
    BY <1>2, <1>3, <2>1 DEF Leaves
  <2> QED
    BY ONLY IInv, cur \in Thread, e \in Event, <1>6, <2>2, EventStep

LEMMA BroadcastsIt ==
    ASSUME IInv, NEW e \in Event, DoBroadcast(e), cur \in Thread, Quiet(todo[cur])
    PROVE  IInv'
<1>1. PICK ops : ops = Tail(todo[cur])
  OBVIOUS
<1>2. /\ At("broadcast", e) /\ todo' = [todo EXCEPT ![cur] = ops]
      /\ value' = value /\ cur' = cur /\ chain' = MovedAll(chain, e)
      /\ state' = Woken(chain[e]) /\ onExit' = onExit /\ ready' = ready
  BY <1>1 DEF DoBroadcast, Done, client
<1>3. QuietFacts("broadcast", e, ops)
  BY <1>1, <1>2, QuietNow
<1>4. e \in Evt /\ e \in Chain
  BY Anchors
<1>5. PICK d : d = MovedAll(chain, e)
  OBVIOUS
<1>6. /\ d \in [Chain -> Seq(All)] /\ Disjoint(d)
      /\ \A t : Linked(d, t) <=> Linked(chain, t)
      /\ Members(d["runq"]) = Members(chain["runq"]) \cup Members(chain[e])
      /\ d[e] = <<>>
      /\ \A r \in Chain \ {"runq", e} : d[r] = chain[r]
  <2>1. chain \in [Chain -> Seq(All)] /\ Disjoint(chain)
    BY <1>3 DEF QuietFacts, Types
  <2>2. Emptied(chain, e, d)
    BY ONLY <1>4, <1>5, <2>1, MovedAllIs
  <2> QED
    BY <2>2, Zenon DEF Emptied
<1>7. chain' = d
  BY <1>2, <1>5
<1>8. state' \in [All -> State] /\ \A t \in Thread : t \in Alive' <=> t \in Alive
  <2>1. \A t \in All : state'[t] = IF t \in Members(chain[e]) THEN "runnable" ELSE state[t]
    BY <1>2 DEF Woken, Members
  <2>2. state' \in [All -> State]
    BY <1>2, <1>3 DEF Woken, QuietFacts, Types, State
  <2>3. ASSUME NEW t \in Thread, t \in Members(chain[e]) PROVE t \in Alive
    BY <1>3, <1>4, <2>3 DEF QuietFacts, Linked
  <2> QED
    BY <1>3, <2>1, <2>2, <2>3 DEF Alive, QuietFacts
<1>9. \A t : CanRun(t) => CanRun(t)'
  BY <1>2, <1>6, <1>7, RunqIs, RunqIsNext
<1>10. Stirs(e)
  BY <1>2, <1>6, <1>7, <1>8, <1>9 DEF Stirs
<1> QED
  <2>1. PICK op : op = "broadcast"
    OBVIOUS
  <2>2. /\ QuietFacts(op, e, ops) /\ op \in {"signal", "broadcast"}
        /\ op = "broadcast" => chain'[e] = <<>>
        /\ Leaves(ops)
    BY <1>2, <1>3, <1>6, <1>7, <2>1 DEF Leaves
  <2> QED
    BY ONLY IInv, cur \in Thread, e \in Event, <1>10, <2>2, EventStep

LEMMA Exits ==
    ASSUME IInv, DoExit
    PROVE  IInv'
<1>1. PICK ops : ops = <<>>
  OBVIOUS
<1>2. /\ At("exit", Nobody) /\ todo' = [todo EXCEPT ![cur] = ops]
      /\ state' = [state EXCEPT ![cur] = "exited"] /\ Sleep(chain)
      /\ value' = value /\ onExit' = onExit /\ ready' = ready
  BY <1>1 DEF DoExit, client
<1>3. /\ Types /\ Shapes /\ cur \in Thread /\ Quiet(todo[cur])
      /\ todo[cur] # <<>> /\ Head(todo[cur]) = <<"exit", Nobody>>
      /\ Thread \subseteq All /\ cur # Nobody
  BY <1>2, AtExit, AtIs DEF IInv, All
<1>4. /\ chain \in [Chain -> Seq(All)] /\ Disjoint(chain) /\ ~Linked(chain, cur)
      /\ Calm(todo[cur]) /\ \A t \in Thread : t \in Alive <=> Linked(chain, t) \/ t = cur
  <2>1. Calm(todo[cur])
    BY <1>3 DEF Calm
  <2> QED
    BY <1>3, <2>1, CalmHand DEF IInv, Types, Places
<1>5. /\ chain' \in [Chain -> Seq(All)] /\ Disjoint(chain')
      /\ cur' \in All \cup {Nobody} /\ ~Linked(chain', cur')
      /\ \A t \in All : Linked(chain', t) \/ t = cur' <=> Linked(chain, t)
      /\ \A t \in All : t = cur' \/ t \in Members(chain'["runq"])
                            <=> t \in Members(chain["runq"])
      /\ \A r \in Chain \ {"runq"} : chain'[r] = chain[r]
      /\ cur' = Nobody => chain'["runq"] = <<>>
  BY <1>2, <1>4, SleepIs
<1>6. Types'
  BY <1>1, <1>2, <1>3, <1>5 DEF Types, State
<1>7. Sema \subseteq Chain \ {"runq"} /\ Event \subseteq Chain \ {"runq"} /\ "runq" \notin Sema
      /\ {"newq", "newq_sema", "newq_event"} \subseteq Chain \ {"runq"}
  BY Anchors
<1>8. \A t \in All : t # cur /\ CanRun(t) => CanRun(t)'
  BY <1>5, RunqIs, RunqIsNext
<1>9. Counts'
  <2>1. ASSUME NEW s \in Sema
        PROVE  value'[s] <= value[s] /\ chain'[s] = chain[s] /\ Head(todo[cur]) # Take(s)
    <3>1. value'[s] <= value[s]
      BY <1>2, <1>3 DEF Types
    <3>2. chain'[s] = chain[s]
      BY <1>5, <1>7
    <3>3. Head(todo[cur]) # Take(s)
      BY <1>3, OpsDiffer
    <3> QED
      BY <3>1, <3>2, <3>3
  <2>2. cur \in All
    BY <1>3
  <2> QED
    BY <1>2, <1>6, <1>7, <1>8, <2>1, <2>2, CountsNext
<1>10. Announced'
  <2>1. \A e \in Event : todo[cur] \notin Opening(e)
    BY <1>3, OpeningIs
  <2>2. \A e \in Event : chain'[e] = chain[e]
    BY <1>5, <1>7
  <2> QED
    BY <1>2, <1>3, <1>8, <2>1, <2>2, AnnouncedNext
<1>11. \A t \in Thread : t \in Alive' <=> Linked(chain', t) \/ t = cur'
  <2>1. \A t \in Thread : t \in Alive' <=> t \in Alive /\ t # cur
    BY <1>2, <1>3 DEF Alive, Types
  <2> QED
    BY <1>3, <1>4, <1>5, <2>1
<1>12. \A s \in Sema : \A u \in Members(chain'[s]) : u \in Members(chain[s])
  BY <1>5, <1>7
<1>13. \A r \in {"newq", "newq_sema", "newq_event"} : chain'[r] = chain[r]
  BY <1>5, <1>7
<1>14. Quiet(ops) /\ value'["newq_sema"] = value["newq_sema"]
  BY <1>1, <1>2, CallShapes
<1> QED
  BY <1>2, <1>3, <1>4, <1>5, <1>6, <1>8, <1>9, <1>10, <1>11, <1>12, <1>13, <1>14, CalmStep

\* The wait for an event of the program: the lock is dropped by a thread that is
\* in the queue of the event.
LEMMA WaitsIt ==
    ASSUME IInv, NEW e \in Event, NEW l, l = LockOf[e], DoWait(e, l),
           cur \in Thread, todo[cur] = EventWait(e), ~ready[e]
    PROVE  IInv'
<1>1. PICK ops, b, d, x : /\ ops = Tail(todo[cur]) /\ b = JoinTo(chain, e, cur)
                          /\ d = Moved(b, l) /\ x = Head(b[l])
  OBVIOUS
<1>2. /\ todo' = [todo EXCEPT ![cur] = ops]
      /\ value' = [value EXCEPT ![l] = @ + 1]
      /\ state' = [t \in All |-> IF t = cur THEN "event_wait"
                                 ELSE IF chain[l] # <<>> /\ t = Head(chain[l]) THEN "runnable"
                                 ELSE state[t]]
      /\ Sleep(d) /\ onExit' = onExit /\ ready' = ready
  BY <1>1, Zenon DEF DoWait, Done, client, JoinTo
<1>3. /\ Types /\ cur \in All /\ cur # Nobody /\ Thread \subseteq All
      /\ Quiet(ops) /\ ops \in Seq(Operation)
      /\ Head(todo[cur]) = <<"wait", <<e, l>>>> /\ todo[cur] # <<>> /\ Calm(todo[cur])
  BY <1>1, EventShapes, QuietTyped, OpsDiffer DEF IInv, All, Calm
<1>4. /\ chain \in [Chain -> Seq(All)] /\ Disjoint(chain) /\ ~Linked(chain, cur)
      /\ \A t \in Thread : t \in Alive <=> Linked(chain, t) \/ t = cur
  BY <1>3, CalmHand DEF IInv, Types, Places
<1>5. /\ l \in Lock /\ l \in Sema /\ e \in Evt /\ l \in Chain /\ e \in Chain /\ l # e
      /\ l # "runq" /\ e # "runq" /\ "runq" \in Chain /\ l # "newq_sema"
      /\ Sema \subseteq Chain \ {"runq", e}
      /\ Event \subseteq Chain \ {"runq", l} /\ "newq_sema" \in Sema
      /\ {"newq", "newq_sema", "newq_event"} \subseteq Chain \ {"runq", e, l}
  BY Anchors
<1>6. /\ b \in [Chain -> Seq(All)] /\ Disjoint(b)
      /\ \A t : Linked(b, t) <=> Linked(chain, t) \/ t = cur
      /\ \A r \in Chain \ {e} : b[r] = chain[r]
  <2>1. Joined(chain, e, cur, b)
    BY ONLY <1>1, <1>3, <1>4, <1>5, JoinIs
  <2> QED
    BY <2>1 DEF Joined
<1>7. b[l] = chain[l] /\ b["runq"] = chain["runq"]
  BY <1>5, <1>6
<1>8. /\ d \in [Chain -> Seq(All)] /\ Disjoint(d)
      /\ \A t : Linked(d, t) <=> Linked(b, t)
      /\ chain[l] = <<>> => d = b
      /\ chain[l] # <<>> =>
            /\ x \in All /\ x \in Members(chain[l]) /\ x = Head(chain[l])
            /\ Members(d["runq"]) = Members(chain["runq"]) \cup {x}
            /\ Members(d[l]) = Members(chain[l]) \ {x}
            /\ \A r \in Chain \ {"runq", l} : d[r] = b[r]
  <2>1. l \in Sema \cup Evt
    BY <1>5
  <2>2. Shifted(b, l, x, d)
    BY ONLY <1>1, <1>6, <2>1, MovedIs
  <2> QED
    BY ONLY <1>1, <1>7, <2>2, Zenon DEF Shifted
<1>9. /\ chain' \in [Chain -> Seq(All)] /\ Disjoint(chain')
      /\ cur' \in All \cup {Nobody} /\ ~Linked(chain', cur')
      /\ \A t \in All : Linked(chain', t) \/ t = cur' <=> Linked(d, t)
      /\ \A t \in All : t = cur' \/ t \in Members(chain'["runq"])
                            <=> t \in Members(d["runq"])
      /\ \A r \in Chain \ {"runq"} : chain'[r] = d[r]
      /\ cur' = Nobody => chain'["runq"] = <<>>
  <2>1. d \in [Chain -> Seq(All)] /\ Disjoint(d) /\ Sleep(d)
    BY <1>2, <1>8
  <2> QED
    BY <2>1, SleepIs
<1>10. \A r \in Chain \ {"runq", e, l} : chain'[r] = chain[r]
  BY <1>6, <1>8, <1>9
<1>11. Members(chain'[l]) \subseteq Members(chain[l]) /\ (chain[l] = <<>> => chain'[l] = <<>>)
  BY <1>5, <1>7, <1>8, <1>9
<1>12. /\ \A t \in All : t # cur /\ CanRun(t) => CanRun(t)'
       /\ chain[l] # <<>> => \A t \in All : t = x => CanRun(t)'
  BY <1>7, <1>8, <1>9, RunqIs, RunqIsNext
<1>13. \A t \in Thread : t \in Alive' <=> t \in Alive
  <2>1. cur \in Alive
    BY <1>4
  <2>2. ASSUME NEW t \in Thread, chain[l] # <<>>, t = Head(chain[l]) PROVE t \in Alive
    BY <1>4, <1>5, <1>8, <2>2 DEF Linked
  <2>3. \A t \in All : state'[t] = IF t = cur THEN "event_wait"
                                   ELSE IF chain[l] # <<>> /\ t = Head(chain[l]) THEN "runnable"
                                   ELSE state[t]
    BY <1>2
  <2> QED
    BY <1>3, <2>1, <2>2, <2>3 DEF Alive
<1>14. Types'
  <2>1. value' \in [Sema -> Nat]
    <3>1. value \in [Sema -> Nat] /\ value' = [value EXCEPT ![l] = @ + 1] /\ l \in Sema
      BY <1>2, <1>3, <1>5 DEF Types
    <3> QED
      BY ONLY <3>1
  <2>2. todo' \in [All -> Seq(Operation)]
    <3>1. todo \in [All -> Seq(Operation)] /\ todo' = [todo EXCEPT ![cur] = ops]
      BY <1>2, <1>3 DEF Types
    <3> QED
      BY ONLY <1>3, <3>1
  <2>3. state' \in [All -> State]
    BY <1>2, <1>3 DEF Types, State
  <2>4. chain' \in [Chain -> Seq(All)] /\ cur' \in All \cup {Nobody}
    BY <1>9
  <2> QED
    BY <1>2, <1>3, <2>1, <2>2, <2>3, <2>4 DEF Types
<1>15. Counts'
  <2>1. ASSUME chain'[l] # <<>> PROVE value'[l] <= Cardinality(Coming(l)')
    <3>1. \A u \in All : todo'[u] = IF u = cur THEN ops ELSE todo[u]
      BY <1>2, <1>3 DEF Types
    <3>2. chain[l] # <<>> /\ x \in All /\ x \in Members(chain[l])
      BY <1>8, <1>11, <2>1
    <3>3. Coming(l) \subseteq Coming(l)'
      <4>1. Head(todo[cur]) # Take(l)
        BY <1>3, OpsDiffer
      <4> QED
        BY <1>12, <3>1, <4>1 DEF Coming
    <3>4. x # cur
      BY <1>4, <1>5, <3>2 DEF Linked
    <3>5. x \notin Members(chain["runq"])
      BY <1>4, <1>5, <3>2 DEF Disjoint
    <3>6. x \in Coming(l)' /\ x \notin Coming(l)
      <4>1. todo[x] # <<>> /\ Head(todo[x]) = Take(l)
        BY <1>5, <3>2 DEF IInv, Blocked
      <4>2. todo'[x] # <<>> /\ Head(todo'[x]) = Take(l)
        BY <3>1, <3>2, <3>4, <4>1
      <4>3. CanRun(x)' /\ ~CanRun(x)
        BY <1>12, <3>2, <3>4, <3>5, RunqIs
      <4> QED
        BY <3>2, <4>2, <4>3 DEF Coming
    <3>7. /\ Cardinality(Coming(l)) \in Nat /\ Cardinality(Coming(l)') \in Nat
          /\ Cardinality(Coming(l)) + 1 <= Cardinality(Coming(l)')
      BY <3>3, <3>6, ComingFinite, ComingFiniteNext, LoseOne
    <3>8. value[l] <= Cardinality(Coming(l)) /\ value[l] \in Nat /\ value'[l] = value[l] + 1
      BY <1>2, <1>3, <1>5, <3>2 DEF IInv, Counts, Types
    <3> QED
      BY <3>7, <3>8
  <2>2. ASSUME NEW r \in Sema \ {l}
        PROVE  Head(todo[cur]) # Take(r) /\ value'[r] <= value[r] /\ chain'[r] = chain[r]
    <3>1. Head(todo[cur]) # Take(r)
      BY <1>3, OpsDiffer
    <3>2. chain'[r] = chain[r]
      BY <1>5, <1>10
    <3>3. value'[r] <= value[r]
      BY <1>2, <1>3 DEF Types
    <3> QED
      BY <3>1, <3>2, <3>3
  <2> QED
    BY <1>2, <1>3, <1>12, <1>14, <2>1, <2>2, CountsNext
<1>16. Announced'
  <2>1. \A f \in Event : todo[cur] \notin Opening(f)
    BY <1>3, OpeningIs
  <2>2. \A f \in Event : f # e => chain'[f] = chain[f]
    BY <1>5, <1>10
  <2> QED
    BY <1>2, <1>12, <2>1, <2>2, AnnouncedNext
<1>17. \A t \in Thread : t \in Alive' <=> Linked(chain', t) \/ t = cur'
  BY <1>3, <1>4, <1>6, <1>8, <1>9, <1>13
<1>18. \A r \in {"newq", "newq_sema", "newq_event"} : chain'[r] = chain[r]
  BY <1>5, <1>10
<1>19. \A r \in Sema : \A u \in Members(chain'[r]) : u \in Members(chain[r])
  BY <1>5, <1>10, <1>11
<1>20. value'["newq_sema"] = value["newq_sema"]
  BY <1>2, <1>3, <1>5 DEF Types
<1> QED
  BY <1>2, <1>3, <1>9, <1>12, <1>14, <1>15, <1>16, <1>17, <1>18, <1>19, <1>20, CalmStep

-----------------------------------------------------------------------------
(* Steps of the launcher, and of a thread that runs another one *)

Busy(ops) == \/ ops \in {Takes, Launches, Waits}
             \/ \E t \in Thread : ops \in {Run4(t), Run3(t), Run2(t), Run1(t), Drops(t), Forks(t)}

LEMMA BusyIs ==
    ASSUME NEW ops, Busy(ops)
    PROVE  /\ ops # <<>> /\ \A s \in Lock \cup Thread : Head(ops) # Take(s)
           /\ \A e \in Event : ops \notin Opening(e)
<1>1. /\ ops # <<>>
      /\ \/ Head(ops) \in {<<"take", "newq_sema">>, <<"launch", Topmost>>,
                           <<"wait", <<"newq_event", "newq_sema">>>>,
                           <<"signal", "newq_event">>, <<"drop", "newq_sema">>}
         \/ \E t \in Thread : Head(ops) \in {<<"enqueue", t>>, <<"fork", t>>}
  <2>1. CASE ops \in {Takes, Launches, Waits}
    BY <2>1, LauncherShapes, OpsDiffer
  <2>2. CASE \E t \in Thread : ops \in {Run4(t), Run3(t), Run2(t), Run1(t), Drops(t), Forks(t)}
    BY <2>2, RunShapes, ForkShapes, OpsDiffer
  <2> QED
    BY <2>1, <2>2 DEF Busy
<1>2. \A s \in Lock \cup Thread : Head(ops) # Take(s)
  BY <1>1, Anchors, OpsDiffer
<1>3. ASSUME NEW e \in Event, ops \in Opening(e) PROVE FALSE
  <2>1. LockOf[e] # "newq_sema"
    BY Anchors
  <2> QED
    BY <1>1, <1>3, <2>1, OpeningIs
<1> QED
  BY <1>1, <1>2, <1>3

\* What is left of such a routine.
Onward(ops) ==
    \/ /\ cur \in Thread
       /\ Quiet(ops) \/ \E t \in Thread : ops \in {Run4(t), Run3(t), Run2(t), Run1(t)}
    \/ /\ cur = Topmost
       /\ \/ ops \in {Takes, Launches, Waits}
          \/ \E t \in Thread : ops \in {Drops(t), Forks(t)}

\* Everybody is in one place after the step.
Placed(ops) ==
    /\ Disjoint(chain') /\ ~Linked(chain', cur)
    /\ \A t \in Thread : t \in Hand(ops) => ~Linked(chain', t) /\ t # cur
    /\ \A t \in Thread : t \in Alive' <=> Linked(chain', t) \/ t = cur \/ t \in Hand(ops)
    /\ \A t \in All : CanRun(t) => CanRun(t)'
    /\ Members(chain'["newq"]) \subseteq Thread
    /\ Members(chain'["newq_event"]) \subseteq {Topmost}
    /\ CanRun(Topmost)' \/ Topmost \in Members(chain'["newq_event"])
    /\ \A r \in Sema \cup Event : chain'[r] = chain[r]

LEMMA BusyNext ==
    ASSUME IInv, cur \in All, cur' = cur, ready' = ready, Types',
           NEW ops, todo' = [todo EXCEPT ![cur] = ops],
           Busy(todo[cur]) \/ todo[cur] = <<>>, Onward(ops), Placed(ops),
           \A s \in Lock \cup Thread : value'[s] <= value[s],
           value'["newq_sema"] = IF Locked(ops) THEN 0 ELSE 1,
           Signalled'
    PROVE  IInv'
<1>1. /\ Types /\ Shapes /\ cur # Nobody /\ Thread \subseteq All /\ Topmost \in All
      /\ Topmost \notin Thread
      /\ \A u \in All : todo'[u] = IF u = cur THEN ops ELSE todo[u]
  BY DEF IInv, Types, All
<1>2. Shapes'
  <2>1. ASSUME NEW u \in Thread
        PROVE  \/ Quiet(todo'[u])
               \/ cur' = u /\ \E t \in Thread : todo'[u] \in {Run4(t), Run3(t), Run2(t), Run1(t)}
    BY <1>1, <2>1 DEF Shapes, Onward
  <2>2. \/ todo'[Topmost] = Takes
        \/ /\ cur' = Topmost
           /\ \/ todo'[Topmost] \in {Launches, Waits}
              \/ \E t \in Thread : todo'[Topmost] \in {Drops(t), Forks(t)}
    BY <1>1 DEF Shapes, Onward
  <2> QED
    BY <2>1, <2>2 DEF Shapes
<1>3. todo'[cur] = ops /\ todo'[cur'] = ops /\ cur' # Nobody
  BY <1>1
<1>4. Places'
  <2>1. \A t \in Thread : InHand(t)' <=> t \in Hand(ops)
    BY <1>3 DEF InHand
  <2>2. ~Linked(chain', cur')
    BY DEF Placed
  <2> QED
    BY <2>1, <2>2 DEF Places, Placed
<1>5. Section'
  <2>1. chain'["newq_sema"] = <<>>
    BY Anchors DEF IInv, Section, Placed
  <2>2. InSection' <=> Locked(ops)
    BY <1>3 DEF InSection
  <2> QED
    BY <2>1, <2>2 DEF Section
<1>6. \A s \in Lock \cup Thread : /\ value'[s] <= value[s]
                                  /\ todo[cur] = <<>> \/ Head(todo[cur]) # Take(s)
  BY BusyIs
<1>7. \A e \in Event : todo[cur] \notin Opening(e)
  BY BusyIs, OpeningIs
<1>8. /\ \A t \in All : CanRun(t) => CanRun(t)'
      /\ \A r \in (Sema \cup Event) : chain'[r] = chain[r]
  BY DEF Placed
<1> QED
  BY <1>2, <1>4, <1>5, <1>6, <1>7, <1>8, BusyStep

\* When nothing moves.
LEMMA StaysPlaced ==
    ASSUME IInv, cur \in All, chain' = chain, state' = state, cur' = cur,
           NEW ops, Hand(ops) = Hand(todo[cur])
    PROVE  Placed(ops)
<1>1. cur # Nobody
  BY DEF All
<1>2. \A t : CanRun(t)' <=> CanRun(t)
  BY DEF CanRun, InRunq
<1>3. \A t \in Thread : InHand(t) <=> t \in Hand(ops)
  BY <1>1 DEF InHand
<1> QED
  BY <1>2, <1>3 DEF Placed, IInv, Places, Alive

LEMMA RunTyped ==
    /\ \A t \in Thread : /\ Run4(t) \in Seq(Operation) /\ Run3(t) \in Seq(Operation)
                         /\ Run2(t) \in Seq(Operation) /\ Run1(t) \in Seq(Operation)
                         /\ Drops(t) \in Seq(Operation) /\ Forks(t) \in Seq(Operation)
    /\ Takes \in Seq(Operation) /\ Launches \in Seq(Operation) /\ Waits \in Seq(Operation)
    /\ \A o \in Seq(Operation) : Types => [todo EXCEPT ![cur] = o] \in [All -> Seq(Operation)]
<1>1. ASSUME NEW o \in Seq(Operation), Types
      PROVE  [todo EXCEPT ![cur] = o] \in [All -> Seq(Operation)]
  BY <1>1 DEF Types
<1> QED
  BY <1>1, RunShapes, ForkShapes, LauncherShapes

\* A thread that does not run is run.
LEMMA RunCall ==
    ASSUME IInv, NEW t \in Thread, CallRun(t)
    PROVE  IInv'
<1>1. PICK ops : ops = Run4(t)
  OBVIOUS
<1>2. /\ state[t] \in {"none", "exited"} /\ Client
      /\ todo' = [todo EXCEPT ![cur] = dthr_thread_run(t) \o dthr_thread_detach(t)]
      /\ state' = [state EXCEPT ![t] = "runnable"]
      /\ value' = [value EXCEPT ![t] = 0]
      /\ cur' = cur /\ chain' = chain /\ onExit' = onExit /\ ready' = ready
  BY DEF CallRun, Call, client
<1>3. todo' = [todo EXCEPT ![cur] = ops]
  <2>1. dthr_thread_run(t) \o dthr_thread_detach(t) = ops
    BY <1>1, RunShapes, Zenon DEF Cat
  <2> QED
    BY ONLY <1>2, <2>1, Zenon
<1>4. /\ Types /\ Places /\ cur \in Thread /\ cur \in All /\ Thread \subseteq All
      /\ todo[cur] = <<>> /\ cur # Nobody
  BY <1>2 DEF Client, IInv, All
<1>5. \A u : ~InHand(u)
  <2>1. Hand(todo[cur]) = {}
    BY <1>4, CallShapes, CalmIs DEF Calm
  <2> QED
    BY <2>1 DEF InHand
<1>6. ~Linked(chain, t) /\ t # cur
  <2>1. t \notin Alive
    BY <1>2 DEF Alive
  <2> QED
    BY <1>4, <2>1 DEF Places
<1>7. /\ Hand(ops) = {t} /\ ~Locked(ops)
      /\ \A u \in Thread : ops # Run2(u)
  BY <1>1, RunIs
<1>8. t \in Sema /\ t # "newq_sema" /\ "newq_sema" \in Sema /\ Lock \cup Thread \subseteq Sema
  BY Anchors
<1>9. value' \in [Sema -> Nat] /\ \A s \in Sema : value'[s] = IF s = t THEN 0 ELSE value[s]
  BY <1>2, <1>4, <1>8 DEF Types
<1>10. Types'
  <2>1. todo' \in [All -> Seq(Operation)]
    BY <1>1, <1>3, <1>4, RunTyped
  <2>2. state' \in [All -> State]
    BY <1>2, <1>4 DEF Types, State
  <2> QED
    BY <1>2, <1>4, <1>9, <2>1, <2>2 DEF Types
<1>11. Onward(ops)
  BY <1>1, <1>4 DEF Onward
<1>12. Placed(ops)
  <2>1. \A u \in Thread : u \in Alive' <=> u \in Alive \/ u = t
    BY <1>2, <1>4 DEF Alive, Types
  <2>2. \A u : CanRun(u)' <=> CanRun(u)
    BY <1>2 DEF CanRun, InRunq
  <2> QED
    BY <1>2, <1>4, <1>5, <1>6, <1>7, <2>1, <2>2 DEF Placed, Places
<1>13. \A s \in Lock \cup Thread : value'[s] <= value[s]
  <2>1. \A s \in Sema : value[s] \in Nat
    BY <1>4 DEF Types
  <2> QED
    BY <1>8, <1>9, <2>1
<1>14. value'["newq_sema"] = IF Locked(ops) THEN 0 ELSE 1
  <2>1. ~InSection
    BY <1>4, CallShapes, CalmIs DEF InSection, Calm
  <2> QED
    BY <1>7, <1>8, <1>9, <2>1 DEF IInv, Section
<1>15. Signalled'
  <2>1. \A u \in Thread : todo[cur] # Run2(u)
    BY <1>4, RunShapes
  <2>2. todo'[Topmost] = todo[Topmost]
    BY <1>3, <1>4 DEF Types, All
  <2> QED
    BY <1>2, <2>1, <2>2 DEF IInv, Signalled
<1> QED
  BY <1>2, <1>3, <1>4, <1>10, <1>11, <1>12, <1>13, <1>14, <1>15, BusyNext

\* The lock of the new-thread queue is free whenever it is taken.
LEMMA QueueLocks ==
    ASSUME IInv, DoTake("newq_sema"), NEW old, NEW ops,
           \/ cur = Topmost /\ old = Takes /\ ops = Launches
           \/ cur \in Thread /\ \E t \in Thread : old = Run4(t) /\ ops = Run3(t),
           todo[cur] = old
    PROVE  IInv'
<1>1. Tail(old) = ops /\ Busy(old) /\ ~Locked(old) /\ Locked(ops) /\ Hand(ops) = Hand(old)
  <2>1. CASE cur = Topmost /\ old = Takes /\ ops = Launches
    BY ONLY <2>1, LauncherShapes, LauncherIs DEF Busy
  <2>2. CASE cur \in Thread /\ \E t \in Thread : old = Run4(t) /\ ops = Run3(t)
    <3>1. PICK t \in Thread : old = Run4(t) /\ ops = Run3(t)
      BY <2>2
    <3>2. Tail(old) = ops /\ Busy(old)
      BY ONLY <3>1, RunShapes DEF Busy
    <3> QED
      BY ONLY <3>1, <3>2, RunIs
  <2> QED
    BY <2>1, <2>2
<1>2. ops \in Seq(Operation) /\ Onward(ops) /\ ops # Waits /\ \A u \in Thread : old # Run2(u)
  <2>1. CASE cur = Topmost /\ old = Takes /\ ops = Launches
    BY <2>1, RunTyped, LauncherIs DEF Onward
  <2>2. CASE cur \in Thread /\ \E t \in Thread : old = Run4(t) /\ ops = Run3(t)
    <3>1. PICK t \in Thread : old = Run4(t) /\ ops = Run3(t)
      BY <2>2
    <3>2. ops # Waits
      BY ONLY <3>1, Lengths
    <3> QED
      BY <2>2, <3>1, <3>2, RunTyped, RunIs DEF Onward
  <2> QED
    BY <2>1, <2>2
<1>3. Types /\ cur \in All /\ cur # Nobody /\ Topmost \in All /\ Topmost \notin Thread
  BY DEF IInv, All
<1>4. value["newq_sema"] = 1 /\ "newq_sema" \in Sema
  BY <1>1, Anchors DEF IInv, Section, InSection
<1>5. /\ value' = [value EXCEPT !["newq_sema"] = @ - 1]
      /\ todo' = [todo EXCEPT ![cur] = ops]
      /\ cur' = cur /\ chain' = chain /\ state' = state /\ onExit' = onExit /\ ready' = ready
  <2>1. value["newq_sema"] # 0
    BY <1>4
  <2>2. /\ value' = [value EXCEPT !["newq_sema"] = @ - 1] /\ Done
        /\ cur' = cur /\ chain' = chain /\ state' = state /\ onExit' = onExit /\ ready' = ready
    BY ONLY <2>1, DoTake("newq_sema"), Zenon DEF DoTake, client
  <2>3. todo' = [todo EXCEPT ![cur] = ops]
    BY <1>1, <2>2 DEF Done
  <2> QED
    BY <2>2, <2>3
<1>6. /\ value' \in [Sema -> Nat] /\ value'["newq_sema"] = 0
      /\ \A s \in Lock \cup Thread : value'[s] <= value[s]
  BY <1>3, <1>4, <1>5, Anchors DEF Types
<1>7. Types'
  BY <1>2, <1>3, <1>5, <1>6, RunTyped DEF Types
<1>8. Placed(ops)
  BY <1>1, <1>3, <1>5, StaysPlaced
<1>9. Signalled'
  <2>1. \A u \in Thread : todo[cur] # Run2(u)
    BY <1>2
  <2>2. todo'[Topmost] = Waits => todo[Topmost] = Waits
    BY <1>2, <1>3, <1>5 DEF Types
  <2> QED
    BY <1>5, <2>1, <2>2 DEF IInv, Signalled
<1> QED
  BY <1>1, <1>2, <1>3, <1>5, <1>6, <1>7, <1>8, <1>9, BusyNext

\* Nobody waits for it when it is dropped.
LEMMA QueueUnlocks ==
    ASSUME IInv, DoDrop("newq_sema"), NEW old, NEW ops,
           \/ cur = Topmost /\ \E t \in Thread : old = Drops(t) /\ ops = Forks(t)
           \/ cur \in Thread /\ \E t \in Thread : old = Run1(t) /\ ops = Run0(t),
           todo[cur] = old
    PROVE  IInv'
<1>1. Tail(old) = ops /\ Busy(old) /\ Locked(old) /\ ~Locked(ops) /\ Hand(ops) = Hand(old)
  <2>1. CASE cur = Topmost /\ \E t \in Thread : old = Drops(t) /\ ops = Forks(t)
    <3>1. PICK t \in Thread : old = Drops(t) /\ ops = Forks(t)
      BY <2>1
    <3>2. Tail(old) = ops /\ Busy(old)
      BY ONLY <3>1, ForkShapes DEF Busy
    <3> QED
      BY ONLY <3>1, <3>2, RunIs
  <2>2. CASE cur \in Thread /\ \E t \in Thread : old = Run1(t) /\ ops = Run0(t)
    <3>1. Calm(ops)
      BY <2>2, RunShapes DEF Calm
    <3> QED
      BY <2>2, <3>1, RunShapes, RunIs, CalmIs DEF Busy
  <2> QED
    BY <2>1, <2>2
<1>2. ops \in Seq(Operation) /\ Onward(ops) /\ ops # Waits
  <2>1. CASE cur = Topmost /\ \E t \in Thread : old = Drops(t) /\ ops = Forks(t)
    BY <2>1, RunTyped, RunIs DEF Onward
  <2>2. CASE cur \in Thread /\ \E t \in Thread : old = Run1(t) /\ ops = Run0(t)
    BY <2>2, RunShapes, QuietTyped, CalmIs DEF Onward, Calm
  <2> QED
    BY <2>1, <2>2
<1>3. Types /\ cur \in All /\ cur # Nobody /\ Topmost \in All /\ Topmost \notin Thread
  BY DEF IInv, All
<1>4. value["newq_sema"] = 0 /\ chain["newq_sema"] = <<>> /\ "newq_sema" \in Sema
  BY <1>1, <1>3, Anchors DEF IInv, Section, InSection
<1>5. /\ value' = [value EXCEPT !["newq_sema"] = @ + 1]
      /\ todo' = [todo EXCEPT ![cur] = ops]
      /\ cur' = cur /\ chain' = chain /\ state' = state /\ onExit' = onExit /\ ready' = ready
  BY <1>1, <1>4 DEF DoDrop, Done, client, Moved
<1>6. /\ value' \in [Sema -> Nat] /\ value'["newq_sema"] = 1
      /\ \A s \in Lock \cup Thread : value'[s] <= value[s]
  BY <1>3, <1>4, <1>5, Anchors DEF Types
<1>7. Types'
  BY <1>2, <1>3, <1>5, <1>6, RunTyped DEF Types
<1>8. Placed(ops)
  BY <1>1, <1>3, <1>5, StaysPlaced
<1>9. Signalled'
  <2>1. \A u \in Thread : todo[cur] # Run2(u)
    BY Lengths
  <2>2. todo'[Topmost] = Waits => todo[Topmost] = Waits
    BY <1>2, <1>3, <1>5 DEF Types
  <2> QED
    BY <1>5, <2>1, <2>2 DEF IInv, Signalled
<1> QED
  BY <1>1, <1>2, <1>3, <1>5, <1>6, <1>7, <1>8, <1>9, BusyNext

\* What the steps on the queues of new and of runnable threads have in common.
LEMMA QueueFacts ==
    ASSUME IInv, cur \in All
    PROVE  /\ Types /\ Shapes /\ Places /\ cur # Nobody /\ Thread \subseteq All
           /\ Topmost \in All /\ Topmost \notin Thread
           /\ chain \in [Chain -> Seq(All)] /\ Disjoint(chain) /\ ~Linked(chain, cur)
           /\ Members(chain["newq"]) \subseteq Thread
           /\ Members(chain["newq_event"]) \subseteq {Topmost}
           /\ CanRun(Topmost) \/ Topmost \in Members(chain["newq_event"])
           /\ \A t \in Thread : t \in Hand(todo[cur]) => ~Linked(chain, t) /\ t # cur
           /\ \A t \in Thread : t \in Alive <=> \/ Linked(chain, t) \/ t = cur
                                                \/ t \in Hand(todo[cur])
           /\ value \in [Sema -> Nat]
           /\ value["newq_sema"] = IF Locked(todo[cur]) THEN 0 ELSE 1
           /\ "runq" \in Chain /\ "newq" \in Chain /\ "newq_event" \in Chain /\ "runq" # "newq"
           /\ "newq_event" # "runq" /\ "newq_event" # "newq"
           /\ Sema \cup Event \subseteq Chain \ {"runq", "newq", "newq_event"}
<1>1. cur # Nobody
  BY DEF All
<1>2. \A t \in Thread : InHand(t) <=> t \in Hand(todo[cur])
  BY <1>1 DEF InHand
<1>3. InSection <=> Locked(todo[cur])
  BY <1>1 DEF InSection
<1>4. Sema \cup Event \subseteq Chain \ {"runq", "newq", "newq_event"}
  BY Anchors
<1> QED
  BY <1>1, <1>2, <1>3, <1>4, Anchors DEF IInv, Types, Places, Section, All

LEMMA Enqueues ==
    ASSUME IInv, NEW t \in Thread, DoEnqueue(t)
    PROVE  IInv'
<1>1. PICK ops, c : ops = Run2(t) /\ c = JoinTo(chain, "newq", t)
  OBVIOUS
<1>2. /\ At("enqueue", t) /\ Done /\ chain' = c
      /\ cur' = cur /\ value' = value /\ state' = state /\ onExit' = onExit /\ ready' = ready
  BY <1>1, Zenon DEF DoEnqueue, threads, client, JoinTo
<1>3. cur \in Thread /\ cur \in All /\ todo[cur] = Run3(t)
  BY <1>2, AtEnqueue DEF IInv, All
<1>4. /\ todo' = [todo EXCEPT ![cur] = ops] /\ Busy(todo[cur]) /\ Onward(ops)
      /\ Hand(todo[cur]) = {t} /\ Hand(ops) = {} /\ Locked(todo[cur]) /\ Locked(ops)
      /\ ops \in Seq(Operation)
  <2>1. todo' = [todo EXCEPT ![cur] = ops]
    BY <1>1, <1>2, <1>3, RunShapes DEF Done
  <2>2. Busy(todo[cur]) /\ Onward(ops)
    BY <1>1, <1>3 DEF Busy, Onward
  <2>3. Hand(todo[cur]) = {t} /\ Hand(ops) = {} /\ Locked(todo[cur]) /\ Locked(ops)
    BY <1>1, <1>3, RunIs
  <2>4. ops \in Seq(Operation)
    BY <1>1, RunTyped
  <2> QED
    BY <2>1, <2>2, <2>3, <2>4
<1>5. Joined(chain, "newq", t, c)
  <2>1. /\ chain \in [Chain -> Seq(All)] /\ Disjoint(chain) /\ "newq" \in Chain
        /\ t \in All /\ ~Linked(chain, t)
    BY <1>3, <1>4, QueueFacts
  <2> QED
    BY ONLY <1>1, <2>1, JoinIs
<1>6. Types'
  BY <1>2, <1>3, <1>4, <1>5, RunTyped, QueueFacts DEF Types, Joined
<1>7. Placed(ops)
  <2>1. \A u \in All : CanRun(u)' <=> CanRun(u)
    BY <1>2, <1>3, <1>5, QueueFacts, RunqIs, RunqIsNext DEF Joined
  <2>2. /\ Disjoint(c) /\ \A u : Linked(c, u) <=> Linked(chain, u) \/ u = t
        /\ Members(c["newq"]) = Members(chain["newq"]) \cup {t}
        /\ \A r \in Chain \ {"newq"} : c[r] = chain[r]
    BY <1>5 DEF Joined
  <2>3. \A u \in Thread : u \in Alive' <=> u \in Alive
    BY <1>2 DEF Alive
  <2> QED
    BY <1>2, <1>3, <1>4, <2>1, <2>2, <2>3, QueueFacts DEF Placed
<1>8. \A s \in Lock \cup Thread : value'[s] <= value[s]
  BY <1>2, <1>3, QueueFacts, Anchors
<1>9. value'["newq_sema"] = IF Locked(ops) THEN 0 ELSE 1
  BY <1>2, <1>3, <1>4, QueueFacts
<1>10. Signalled'
  <2>1. cur' \in Thread /\ todo'[cur'] = Run2(t)
    BY <1>1, <1>2, <1>3, <1>4, QueueFacts DEF Types
  <2>2. todo'[Topmost] = Takes
    BY <1>3, <1>4, QueueFacts DEF Types, Shapes
  <2> QED
    BY <2>1, <2>2, LauncherIs DEF Signalled
<1> QED
  BY <1>2, <1>3, <1>4, <1>6, <1>7, <1>8, <1>9, <1>10, BusyNext

LEMMA WakesLauncher ==
    ASSUME IInv, DoSignal("newq_event"), NEW t \in Thread, cur \in Thread, todo[cur] = Run2(t)
    PROVE  IInv'
<1>1. PICK ops, x : ops = Run1(t) /\ x = Head(chain["newq_event"])
  OBVIOUS
<1>2. /\ Done /\ chain' = Moved(chain, "newq_event")
      /\ state' = IF chain["newq_event"] = <<>> THEN state
                  ELSE [state EXCEPT ![Head(chain["newq_event"])] = "runnable"]
      /\ cur' = cur /\ value' = value /\ onExit' = onExit /\ ready' = ready
  BY Zenon DEF DoSignal, client
<1>3. cur \in All
  BY DEF All
<1>4. /\ todo' = [todo EXCEPT ![cur] = ops] /\ Busy(todo[cur]) /\ Onward(ops)
      /\ Hand(todo[cur]) = {} /\ Hand(ops) = {} /\ Locked(todo[cur]) /\ Locked(ops)
      /\ ops \in Seq(Operation)
  <2>1. todo' = [todo EXCEPT ![cur] = ops]
    BY <1>1, <1>2, RunShapes DEF Done
  <2>2. Busy(todo[cur]) /\ Onward(ops)
    BY <1>1 DEF Busy, Onward
  <2>3. /\ Hand(todo[cur]) = {} /\ Hand(ops) = {} /\ Locked(todo[cur]) /\ Locked(ops)
    BY <1>1, RunIs
  <2>4. ops \in Seq(Operation)
    BY <1>1, RunTyped
  <2> QED
    BY <2>1, <2>2, <2>3, <2>4
<1>5. Wakes("newq_event", x)
  <2>1. ~(\E u \in Thread : InHand(u))
    BY <1>4 DEF InHand
  <2> QED
    BY <1>1, <1>2, <2>1, Waking, Anchors DEF IInv
<1>6. Topmost \notin Members(chain'["newq_event"]) /\ Members(chain'["newq_event"]) \subseteq {Topmost}
      /\ CanRun(Topmost)'
  <2>1. CASE chain["newq_event"] = <<>>
    <3>1. chain' = chain /\ Members(chain["newq_event"]) = {}
      BY <1>5, <2>1, EmptyMembers DEF Wakes
    <3>2. CanRun(Topmost)
      BY <1>3, <3>1, QueueFacts
    <3> QED
      BY <1>5, <3>1, <3>2 DEF Wakes
  <2>2. CASE chain["newq_event"] # <<>>
    <3>1. /\ x \in Members(chain["newq_event"])
          /\ Members(chain'["runq"]) = Members(chain["runq"]) \cup {x}
          /\ Members(chain'["newq_event"]) = Members(chain["newq_event"]) \ {x}
      BY <1>5, <2>2 DEF Wakes
    <3>2. x = Topmost
      BY <1>3, <3>1, QueueFacts
    <3> QED
      BY <1>3, <3>1, <3>2, QueueFacts, RunqIsNext
  <2> QED
    BY <2>1, <2>2
<1>7. Types'
  BY <1>2, <1>3, <1>4, <1>5, RunTyped, QueueFacts DEF Types, Wakes
<1>8. Placed(ops)
  <2>1. /\ Disjoint(chain') /\ \A u : Linked(chain', u) <=> Linked(chain, u)
        /\ \A u \in Thread : u \in Alive' <=> u \in Alive
        /\ \A r \in Chain \ {"runq", "newq_event"} : chain'[r] = chain[r]
        /\ \A u : CanRun(u) => CanRun(u)'
    BY <1>5 DEF Wakes
  <2> QED
    BY <1>3, <1>4, <1>6, <2>1, QueueFacts DEF Placed
<1>9. \A s \in Lock \cup Thread : value'[s] <= value[s]
  BY <1>2, <1>3, QueueFacts, Anchors
<1>10. value'["newq_sema"] = IF Locked(ops) THEN 0 ELSE 1
  BY <1>2, <1>3, <1>4, QueueFacts
<1>11. Signalled'
  <2>1. todo'[Topmost] = Takes
    BY <1>3, <1>4, QueueFacts DEF Types, Shapes
  <2> QED
    BY <1>6, <2>1, LauncherIs DEF Signalled
<1> QED
  BY <1>2, <1>3, <1>4, <1>7, <1>8, <1>9, <1>10, <1>11, BusyNext

LEMMA ForksIt ==
    ASSUME IInv, NEW t \in Thread, DoFork(t)
    PROVE  IInv'
<1>1. PICK ops, c : ops = Takes /\ c = JoinTo(chain, "runq", t)
  OBVIOUS
<1>2. /\ At("fork", t) /\ Done /\ chain' = c
      /\ cur' = cur /\ value' = value /\ state' = state /\ onExit' = onExit /\ ready' = ready
  BY <1>1, Zenon DEF DoFork, threads, client, JoinTo
<1>3. cur = Topmost /\ cur \in All /\ todo[cur] = Forks(t)
  BY <1>2, AtFork DEF IInv, All
<1>4. /\ todo' = [todo EXCEPT ![cur] = ops] /\ Busy(todo[cur]) /\ Onward(ops)
      /\ Hand(todo[cur]) = {t} /\ Hand(ops) = {} /\ ~Locked(todo[cur]) /\ ~Locked(ops)
      /\ ops \in Seq(Operation)
  <2>1. todo' = [todo EXCEPT ![cur] = ops]
    BY <1>1, <1>2, <1>3, ForkShapes DEF Done
  <2>2. Busy(todo[cur]) /\ Onward(ops)
    BY <1>1, <1>3 DEF Busy, Onward
  <2>3. Hand(todo[cur]) = {t} /\ Hand(ops) = {} /\ ~Locked(todo[cur]) /\ ~Locked(ops)
    BY <1>1, <1>3, RunIs, LauncherIs
  <2>4. ops \in Seq(Operation)
    BY <1>1, RunTyped
  <2> QED
    BY <2>1, <2>2, <2>3, <2>4
<1>5. Joined(chain, "runq", t, c)
  <2>1. /\ chain \in [Chain -> Seq(All)] /\ Disjoint(chain) /\ "runq" \in Chain
        /\ t \in All /\ ~Linked(chain, t)
    BY <1>3, <1>4, QueueFacts
  <2> QED
    BY ONLY <1>1, <2>1, JoinIs
<1>6. Types'
  BY <1>2, <1>3, <1>4, <1>5, RunTyped, QueueFacts DEF Types, Joined
<1>7. Placed(ops)
  <2>1. /\ Disjoint(c) /\ \A u : Linked(c, u) <=> Linked(chain, u) \/ u = t
        /\ Members(c["runq"]) = Members(chain["runq"]) \cup {t}
        /\ \A r \in Chain \ {"runq"} : c[r] = chain[r]
    BY <1>5 DEF Joined
  <2>2. \A u \in All : CanRun(u) => CanRun(u)'
    BY <1>2, <2>1, RunqIs, RunqIsNext
  <2>3. \A u \in Thread : u \in Alive' <=> u \in Alive
    BY <1>2 DEF Alive
  <2> QED
    BY <1>2, <1>3, <1>4, <2>1, <2>2, <2>3, QueueFacts DEF Placed
<1>8. \A s \in Lock \cup Thread : value'[s] <= value[s]
  BY <1>2, <1>3, QueueFacts, Anchors
<1>9. value'["newq_sema"] = IF Locked(ops) THEN 0 ELSE 1
  BY <1>2, <1>3, <1>4, QueueFacts
<1>10. Signalled'
  <2>1. todo'[Topmost] = Takes
    BY <1>1, <1>3, <1>4, QueueFacts DEF Types
  <2>2. ~Linked(chain', Topmost)
    BY <1>2, <1>3, <1>5, QueueFacts DEF Joined
  <2>3. Topmost \notin Members(chain'["newq_event"])
    BY <1>3, <2>2, QueueFacts DEF Linked
  <2> QED
    BY <2>1, <2>3, LauncherIs DEF Signalled
<1> QED
  BY <1>2, <1>3, <1>4, <1>6, <1>7, <1>8, <1>9, <1>10, BusyNext

\* The first of the new threads leaves their queue.
LEMMA FirstOfNew ==
    ASSUME IInv, cur \in All, chain["newq"] # <<>>,
           NEW t, t = Head(chain["newq"]), NEW b, b = Leave(chain, "newq")
    PROVE  /\ b \in [Chain -> Seq(All)] /\ Disjoint(b) /\ t \in Members(chain["newq"])
           /\ \A r \in Chain : Members(b[r]) = Members(chain[r]) \ {t}
           /\ \A r \in Chain \ {"newq"} : b[r] = chain[r]
<1>1. /\ chain \in [Chain -> Seq(All)] /\ Disjoint(chain) /\ "newq" \in Chain
      /\ chain["newq"] # <<>>
  BY QueueFacts
<1>2. /\ Leave(chain, "newq") \in [Chain -> Seq(All)] /\ Disjoint(Leave(chain, "newq"))
      /\ Head(chain["newq"]) \in Members(chain["newq"])
      /\ \A r \in Chain : Members(Leave(chain, "newq")[r])
                          = Members(chain[r]) \ {Head(chain["newq"])}
      /\ \A r \in Chain \ {"newq"} : Leave(chain, "newq")[r] = chain[r]
  BY ONLY <1>1, LeaveIs
<1> QED
  BY ONLY <1>2, t = Head(chain["newq"]), b = Leave(chain, "newq"), Zenon

\* A new thread gets a stack that is free.
LEMMA Reuses ==
    ASSUME IInv, NEW t \in Thread, ReuseStack(t)
    PROVE  IInv'
<1>1. PICK ops, b, c : ops = Launches /\ b = Leave(chain, "newq") /\ c = JoinTo(b, "runq", t)
  OBVIOUS
<1>2. /\ At("launch", Topmost) /\ chain["newq"] # <<>> /\ t = Head(chain["newq"])
      /\ state' = [state EXCEPT ![t] = "runnable"]
      /\ chain' = [chain EXCEPT !["newq"] = Tail(@), !["runq"] = Append(@, t)]
      /\ cur' = cur /\ value' = value /\ todo' = todo /\ onExit' = onExit /\ ready' = ready
  BY DEF ReuseStack, client
<1>3. cur = Topmost /\ cur \in All /\ todo[cur] = ops
  BY <1>1, <1>2, AtLaunch DEF IInv, All
<1>4. /\ Busy(todo[cur]) /\ Onward(ops) /\ Hand(ops) = {} /\ Locked(ops) /\ ops \in Seq(Operation)
      /\ todo' = [todo EXCEPT ![cur] = ops]
  <2>1. Busy(todo[cur]) /\ Onward(ops) /\ Hand(ops) = {} /\ Locked(ops) /\ ops \in Seq(Operation)
    BY <1>1, <1>3, LauncherIs, RunTyped DEF Busy, Onward
  <2> QED
    BY <1>2, <1>3, <2>1, QueueFacts DEF Types
<1>5. /\ b \in [Chain -> Seq(All)] /\ Disjoint(b) /\ t \in Members(chain["newq"])
      /\ \A r \in Chain : Members(b[r]) = Members(chain[r]) \ {t}
      /\ \A r \in Chain \ {"newq"} : b[r] = chain[r]
  BY <1>1, <1>2, <1>3, FirstOfNew
<1>6. Linked(chain, t) /\ ~Linked(b, t) /\ \A u : u # t => (Linked(b, u) <=> Linked(chain, u))
  BY <1>3, <1>5, QueueFacts DEF Linked
<1>7. Joined(b, "runq", t, c)
  <2>1. t \in All /\ "runq" \in Chain
    BY <1>3, QueueFacts
  <2> QED
    BY ONLY <1>1, <1>5, <1>6, <2>1, JoinIs
<1>8. chain' = c
  BY <1>1, <1>2, <1>3, QueueFacts DEF Leave, JoinTo
<1>9. /\ c \in [Chain -> Seq(All)] /\ Disjoint(c)
      /\ \A u : Linked(c, u) <=> Linked(chain, u)
      /\ Members(c["runq"]) = Members(chain["runq"]) \cup {t}
      /\ Members(c["newq"]) \subseteq Members(chain["newq"])
      /\ \A r \in Chain \ {"runq", "newq"} : c[r] = chain[r]
  <2>1. /\ c \in [Chain -> Seq(All)] /\ Disjoint(c)
        /\ Members(c["runq"]) = Members(b["runq"]) \cup {t}
        /\ \A u : Linked(c, u) <=> Linked(b, u) \/ u = t
        /\ \A r \in Chain \ {"runq"} : c[r] = b[r]
    BY <1>7 DEF Joined
  <2>2. \A u : Linked(c, u) <=> Linked(chain, u)
    BY ONLY <1>6, <2>1
  <2>3. "runq" \in Chain /\ "newq" \in Chain /\ "runq" # "newq"
    BY Anchors
  <2>4. Members(c["runq"]) = Members(chain["runq"]) \cup {t}
    BY ONLY <1>5, <2>1, <2>3
  <2>5. /\ Members(c["newq"]) \subseteq Members(chain["newq"])
        /\ \A r \in Chain \ {"runq", "newq"} : c[r] = chain[r]
    BY ONLY <1>5, <2>1, <2>3
  <2> QED
    BY <2>1, <2>2, <2>4, <2>5
<1>10. t \in Alive
  BY <1>3, <1>6, QueueFacts
<1>11. Types'
  BY <1>2, <1>3, <1>8, <1>9, QueueFacts DEF Types, State
<1>12. Placed(ops)
  <2>1. \A u \in All : CanRun(u) => CanRun(u)'
    BY <1>2, <1>8, <1>9, RunqIs, RunqIsNext
  <2>2. \A u \in Thread : u \in Alive' <=> u \in Alive
    BY <1>2, <1>3, <1>10, QueueFacts DEF Alive, Types
  <2>3. \A r \in Sema \cup Event \cup {"newq_event"} : c[r] = chain[r]
    BY <1>3, <1>9, QueueFacts
  <2>4. Hand(todo[cur]) = {}
    BY <1>3, <1>4
  <2> QED
    BY <1>3, <1>4, <1>8, <1>9, <2>1, <2>2, <2>3, <2>4, QueueFacts DEF Placed
<1>13. \A s \in Lock \cup Thread : value'[s] <= value[s]
  BY <1>2, <1>3, QueueFacts, Anchors
<1>14. value'["newq_sema"] = IF Locked(ops) THEN 0 ELSE 1
  BY <1>2, <1>3, QueueFacts
<1>15. Signalled'
  <2>1. todo'[Topmost] = Launches
    BY <1>1, <1>2, <1>3
  <2>2. ~Linked(chain', Topmost)
    BY <1>3, <1>8, <1>9, QueueFacts
  <2>3. Topmost \notin Members(chain'["newq_event"])
    BY <1>3, <2>2, QueueFacts DEF Linked
  <2> QED
    BY <2>1, <2>3, LauncherIs DEF Signalled
<1> QED
  BY <1>2, <1>3, <1>4, <1>11, <1>12, <1>13, <1>14, <1>15, BusyNext

\* Or the stack of the launcher.
LEMMA StacksUp ==
    ASSUME IInv, NEW t \in Thread, NewStack(t)
    PROVE  IInv'
<1>1. PICK ops, b : ops = Drops(t) /\ b = Leave(chain, "newq")
  OBVIOUS
<1>2. /\ At("launch", Topmost) /\ chain["newq"] # <<>> /\ t = Head(chain["newq"])
      /\ state' = [state EXCEPT ![t] = "runnable"] /\ chain' = b
      /\ todo' = [todo EXCEPT ![Topmost] = <<Drop("newq_sema"), Fork(t)>> \o dthr_thread_launcher]
      /\ cur' = cur /\ value' = value /\ onExit' = onExit /\ ready' = ready
  BY <1>1, Zenon DEF NewStack, client, Leave
<1>3. cur = Topmost /\ cur \in All /\ todo[cur] = Launches
  BY <1>2, AtLaunch DEF IInv, All
<1>4. /\ Busy(todo[cur]) /\ Onward(ops) /\ Hand(ops) = {t} /\ Locked(ops) /\ ops \in Seq(Operation)
      /\ Locked(todo[cur]) /\ Hand(todo[cur]) = {} /\ ops # Waits
      /\ todo' = [todo EXCEPT ![cur] = ops]
  <2>1. /\ Busy(todo[cur]) /\ Onward(ops) /\ Hand(ops) = {t} /\ Locked(ops)
        /\ Locked(todo[cur]) /\ Hand(todo[cur]) = {} /\ ops \in Seq(Operation) /\ ops # Waits
    BY <1>1, <1>3, LauncherIs, RunIs, RunTyped DEF Busy, Onward
  <2>2. <<Drop("newq_sema"), Fork(t)>> \o dthr_thread_launcher = ops
    BY <1>1, ForkShapes, Zenon DEF Cat
  <2>3. todo' = [todo EXCEPT ![cur] = ops]
    BY ONLY <1>2, <1>3, <2>2, Zenon
  <2> QED
    BY <2>1, <2>3
<1>5. /\ b \in [Chain -> Seq(All)] /\ Disjoint(b) /\ t \in Members(chain["newq"])
      /\ \A r \in Chain : Members(b[r]) = Members(chain[r]) \ {t}
      /\ \A r \in Chain \ {"newq"} : b[r] = chain[r]
  BY <1>1, <1>2, <1>3, FirstOfNew
<1>6. Linked(chain, t) /\ ~Linked(b, t) /\ \A u : u # t => (Linked(b, u) <=> Linked(chain, u))
  BY <1>3, <1>5, QueueFacts DEF Linked
<1>7. t \in Alive
  BY <1>3, <1>6, QueueFacts
<1>8. Types'
  <2>1. todo' \in [All -> Seq(Operation)]
    BY <1>3, <1>4, RunTyped, QueueFacts
  <2>2. state' \in [All -> State]
    BY <1>2, <1>3, QueueFacts DEF Types, State
  <2>3. /\ chain' \in [Chain -> Seq(All)] /\ value' = value /\ onExit' = onExit /\ ready' = ready
        /\ cur' = cur
    BY <1>2, <1>5
  <2> QED
    BY ONLY <2>1, <2>2, <2>3, IInv DEF IInv, Types
<1>9. Placed(ops)
  <2>1. \A u \in All : CanRun(u) => CanRun(u)'
    BY <1>2, <1>3, <1>5, QueueFacts, RunqIs, RunqIsNext
  <2>2. \A u \in Thread : u \in Alive' <=> u \in Alive
    BY <1>2, <1>3, <1>7, QueueFacts DEF Alive, Types
  <2>3. \A r \in Sema \cup Event \cup {"newq_event"} : b[r] = chain[r]
    BY <1>3, <1>5, QueueFacts
  <2>4. /\ \A u \in Thread : u \in Alive' <=> Linked(b, u) \/ u = cur \/ u \in Hand(ops)
        /\ ~Linked(b, cur) /\ t # cur
    BY <1>3, <1>4, <1>6, <2>2, QueueFacts
  <2>5. /\ Members(b["newq"]) \subseteq Thread /\ Members(b["newq_event"]) \subseteq {Topmost}
        /\ CanRun(Topmost)'
    BY <1>2, <1>3, <1>5, <2>3, QueueFacts, RunqIsNext
  <2> QED
    BY <1>2, <1>4, <1>5, <1>6, <2>1, <2>3, <2>4, <2>5 DEF Placed
<1>10. \A s \in Lock \cup Thread : value'[s] <= value[s]
  BY <1>2, <1>3, QueueFacts, Anchors
<1>11. value'["newq_sema"] = IF Locked(ops) THEN 0 ELSE 1
  BY <1>2, <1>3, <1>4, QueueFacts
<1>12. Signalled'
  <2>1. todo'[Topmost] = ops
    BY <1>3, <1>4, QueueFacts DEF Types
  <2>2. ~Linked(chain', Topmost)
    BY <1>2, <1>3, <1>6, QueueFacts
  <2>3. Topmost \notin Members(chain'["newq_event"])
    BY <1>3, <2>2, QueueFacts DEF Linked
  <2> QED
    BY <1>4, <2>1, <2>3 DEF Signalled
<1> QED
  BY <1>2, <1>3, <1>4, <1>8, <1>9, <1>10, <1>11, <1>12, BusyNext

\* No thread is left to be launched.
LEMMA NoneLeft ==
    ASSUME IInv, WaitForNew
    PROVE  IInv'
<1>1. PICK ops : ops = Waits
  OBVIOUS
<1>2. /\ At("launch", Topmost) /\ chain["newq"] = <<>>
      /\ todo' = [todo EXCEPT ![Topmost] = dthr_event_wait("newq_event", "newq_sema") \o <<Launch>>]
      /\ cur' = cur /\ chain' = chain /\ value' = value /\ state' = state
      /\ onExit' = onExit /\ ready' = ready
  BY DEF WaitForNew, threads, client
<1>3. cur = Topmost /\ cur \in All /\ todo[cur] = Launches
  BY <1>2, AtLaunch DEF IInv, All
<1>4. /\ Busy(todo[cur]) /\ Onward(ops) /\ Hand(ops) = Hand(todo[cur]) /\ Locked(ops)
      /\ Locked(todo[cur]) /\ ops \in Seq(Operation) /\ todo' = [todo EXCEPT ![cur] = ops]
  <2>1. /\ Busy(todo[cur]) /\ Onward(ops) /\ Hand(ops) = Hand(todo[cur]) /\ Locked(ops)
        /\ Locked(todo[cur]) /\ ops \in Seq(Operation)
    BY <1>1, <1>3, LauncherIs, RunTyped DEF Busy, Onward
  <2>2. dthr_event_wait("newq_event", "newq_sema") \o <<Launch>> = ops
    BY <1>1, LauncherShapes, Zenon DEF Cat
  <2>3. todo' = [todo EXCEPT ![cur] = ops]
    BY ONLY <1>2, <1>3, <2>2, Zenon
  <2> QED
    BY <2>1, <2>3
<1>5. Types'
  <2>1. todo' \in [All -> Seq(Operation)]
    BY <1>3, <1>4, RunTyped, QueueFacts
  <2>2. /\ chain' = chain /\ value' = value /\ onExit' = onExit /\ ready' = ready
        /\ cur' = cur /\ state' = state
    BY <1>2
  <2> QED
    BY ONLY <2>1, <2>2, IInv DEF IInv, Types
<1>6. Placed(ops)
  BY <1>2, <1>3, <1>4, StaysPlaced
<1>7. \A s \in Lock \cup Thread : value'[s] <= value[s]
  BY <1>2, <1>3, QueueFacts, Anchors
<1>8. value'["newq_sema"] = IF Locked(ops) THEN 0 ELSE 1
  BY <1>2, <1>3, <1>4, QueueFacts
<1>9. Signalled'
  BY <1>2 DEF Signalled
<1> QED
  BY <1>2, <1>3, <1>4, <1>5, <1>6, <1>7, <1>8, <1>9, BusyNext

\* The launcher sleeps until it is signalled, and lets go of the lock.
LEMMA LauncherSleeps ==
    ASSUME IInv, DoWait("newq_event", "newq_sema"), cur = Topmost, todo[cur] = Waits
    PROVE  IInv'
<1>1. PICK ops, b : ops = Takes /\ b = JoinTo(chain, "newq_event", cur)
  OBVIOUS
<1>2. /\ Types /\ Shapes /\ Places /\ cur \in All /\ Topmost \notin Thread /\ Thread \subseteq All
      /\ Nobody \notin All /\ chain["newq_sema"] = <<>> /\ "newq_sema" \in Sema
      /\ Sema \cup Event \cup {"newq"} \subseteq Chain \ {"runq", "newq_event"}
      /\ "newq_event" \in Chain /\ "newq_event" # "runq" /\ "newq_event" # "newq_sema"
      /\ "runq" \notin Sema
  BY Anchors DEF IInv, Section, All
<1>3. /\ Hand(todo[cur]) = {} /\ Locked(todo[cur]) /\ Head(todo[cur]) = <<"wait", <<"newq_event", "newq_sema">>>>
      /\ todo[cur] # <<>> /\ ops \in Seq(Operation)
  BY <1>1, LauncherIs, LauncherShapes, OpsDiffer
<1>4. /\ chain \in [Chain -> Seq(All)] /\ Disjoint(chain) /\ ~Linked(chain, cur)
      /\ value["newq_sema"] = 0 /\ chain["newq"] = <<>>
  BY <1>2, <1>3, QueueFacts DEF IInv, Signalled
<1>5. Joined(chain, "newq_event", cur, b)
  BY ONLY <1>1, <1>2, <1>4, JoinIs
<1>6. b["newq_sema"] = <<>>
  BY <1>2, <1>5 DEF Joined
<1>7. /\ Done /\ value' = [value EXCEPT !["newq_sema"] = @ + 1]
      /\ state' = [t \in All |-> IF t = cur THEN "event_wait" ELSE state[t]]
      /\ Sleep(b) /\ onExit' = onExit /\ ready' = ready
  <2>1. /\ Done /\ value' = [value EXCEPT !["newq_sema"] = @ + 1]
        /\ state' = [t \in All |-> IF t = cur THEN "event_wait"
                                   ELSE IF chain["newq_sema"] # <<>> /\ t = Head(chain["newq_sema"])
                                        THEN "runnable"
                                   ELSE state[t]]
        /\ Sleep(Moved(b, "newq_sema")) /\ onExit' = onExit /\ ready' = ready
    BY <1>1, Zenon DEF DoWait, client, JoinTo
  <2>2. Moved(b, "newq_sema") = b
    BY <1>6, Zenon DEF Moved
  <2>3. state' = [t \in All |-> IF t = cur THEN "event_wait" ELSE state[t]]
    BY ONLY <1>2, <2>1
  <2> QED
    BY <2>1, <2>2, <2>3
<1>8. todo' = [todo EXCEPT ![cur] = ops]
  BY <1>1, <1>7, LauncherShapes DEF Done
<1>9. SleepsIn("newq_event")
  <2>1. Sleep(JoinTo(chain, "newq_event", cur))
    BY <1>1, <1>7
  <2> QED
    BY ONLY <1>2, <1>4, <2>1, Sleeping
<1>10. /\ chain' \in [Chain -> Seq(All)] /\ Disjoint(chain') /\ cur' \in All \cup {Nobody}
       /\ ~Linked(chain', cur')
       /\ \A t \in All : Linked(chain', t) \/ t = cur' <=> Linked(chain, t) \/ t = cur
       /\ \A t \in All : CanRun(t)' <=> t \in Members(chain["runq"])
       /\ Members(chain'["newq_event"]) = Members(chain["newq_event"]) \cup {cur}
       /\ \A r \in Chain \ {"runq", "newq_event"} : chain'[r] = chain[r]
       /\ cur' = Nobody => chain'["runq"] = <<>>
  BY <1>9 DEF SleepsIn
<1>11. \A r \in Sema \cup Event \cup {"newq"} : chain'[r] = chain[r]
  BY <1>2, <1>10
<1>12. cur' # cur /\ (cur' \in Thread \/ cur' = Nobody)
  BY <1>2, <1>10 DEF Linked, All
<1>13. \A u \in All : todo'[u] = IF u = cur THEN ops ELSE todo[u]
  BY <1>2, <1>8 DEF Types
<1>14. \A u \in Thread : Quiet(todo[u]) /\ todo'[u] = todo[u]
  BY <1>2, <1>13 DEF Shapes
<1>15. Shapes' /\ todo'[Topmost] = Takes
  BY <1>1, <1>2, <1>13, <1>14 DEF Shapes
<1>16. cur' # Nobody => Hand(todo'[cur']) = {} /\ ~Locked(todo'[cur'])
  BY <1>12, <1>14, CalmIs DEF Calm
<1>17. Types'
  <2>1. value' \in [Sema -> Nat]
    BY <1>2, <1>7 DEF Types
  <2>2. todo' \in [All -> Seq(Operation)]
    BY <1>2, <1>3, <1>8, RunTyped
  <2>3. state' \in [All -> State]
    BY <1>2, <1>7 DEF Types, State
  <2> QED
    BY <1>2, <1>7, <1>10, <2>1, <2>2, <2>3 DEF Types
<1>18. Places'
  <2>1. \A t : ~InHand(t)'
    BY <1>16 DEF InHand
  <2>2. \A t \in Thread : t \in Alive' <=> Linked(chain', t) \/ t = cur'
    <3>1. \A t \in Thread : t \in Alive' <=> t \in Alive
      BY <1>2, <1>7 DEF Alive
    <3>2. \A t \in Thread : t \in Alive <=> Linked(chain, t) \/ t = cur
      BY <1>2, <1>3, QueueFacts
    <3> QED
      BY <1>2, <1>10, <3>1, <3>2
  <2>3. /\ Members(chain'["newq"]) \subseteq Thread
        /\ Members(chain'["newq_event"]) \subseteq {Topmost}
        /\ Topmost \in Members(chain'["newq_event"])
    BY <1>2, <1>10, <1>11 DEF Places
  <2> QED
    BY <1>10, <2>1, <2>2, <2>3 DEF Places
<1>19. Blocked'
  <2>1. ASSUME NEW s \in Sema, NEW u \in Members(chain'[s])
        PROVE  todo'[u] # <<>> /\ Head(todo'[u]) = Take(s)
    <3>1. u \in Members(chain[s]) /\ s \in Chain
      BY <1>2, <1>11, <2>1
    <3>2. u # cur
      BY <1>4, <3>1 DEF Linked
    <3>3. u \in All
      BY <1>4, <3>1 DEF Members
    <3>4. todo[u] # <<>> /\ Head(todo[u]) = Take(s)
      BY <3>1 DEF IInv, Blocked
    <3> QED
      BY <1>13, <3>2, <3>3, <3>4
  <2> QED
    BY <2>1 DEF Blocked
<1>20. Section'
  <2>1. ~InSection'
    BY <1>16 DEF InSection
  <2>2. value'["newq_sema"] = 1
    BY <1>2, <1>4, <1>7 DEF Types
  <2> QED
    BY <1>2, <1>11, <2>1, <2>2 DEF Section
<1>21. \A t \in All : t # cur /\ CanRun(t) => CanRun(t)'
  BY <1>10, RunqIs
<1>22. Counts'
  <2>1. ASSUME NEW r \in Sema \ {"newq_sema"}
        PROVE  Head(todo[cur]) # Take(r) /\ value'[r] <= value[r] /\ chain'[r] = chain[r]
    <3>1. Head(todo[cur]) # Take(r)
      BY <1>3, OpsDiffer
    <3>2. value'[r] <= value[r]
      BY <1>2, <1>7 DEF Types
    <3> QED
      BY <1>11, <3>1, <3>2
  <2>2. chain'["newq_sema"] = <<>>
    BY <1>2, <1>11
  <2> QED
    BY <1>2, <1>8, <1>17, <1>21, <2>1, <2>2, CountsNext
<1>23. Signalled'
  BY <1>4, <1>11 DEF Signalled
<1>24. Announced'
  <2>1. ASSUME NEW e \in Event, ready'[e], chain'[e] # <<>>
        PROVE  \E t \in Thread : CanRun(t)' /\ todo'[t] \in Opening(e)
    <3>1. PICK t \in Thread : CanRun(t) /\ todo[t] \in Opening(e)
      BY <1>7, <1>11, <2>1 DEF IInv, Announced
    <3>2. t # cur /\ t \in All
      BY <1>2
    <3>3. CanRun(t)' /\ todo'[t] \in Opening(e)
      BY <1>14, <1>21, <3>1, <3>2
    <3> QED
      BY ONLY <3>3, Zenon
  <2> QED
    BY <2>1 DEF Announced
<1> QED
  BY <1>10, <1>15, <1>17, <1>18, <1>19, <1>20, <1>22, <1>23, <1>24 DEF IInv, Ended

-----------------------------------------------------------------------------
(* The invariant *)

LEMMA InitInv == Init => IInv
<1> SUFFICES ASSUME Init PROVE IInv
  OBVIOUS
<1>1. /\ cur = Topmost /\ Topmost \in All /\ Main \in Thread /\ Topmost \notin Thread
      /\ Thread \subseteq All /\ Main # Topmost /\ cur # Nobody
      /\ \A t \in All : todo[t] = IF t = Topmost THEN Takes ELSE <<>>
  BY LauncherShapes DEF Init, All
<1>2. /\ \A q \in Chain : chain[q] = IF q = "newq" THEN <<Main>> ELSE <<>>
      /\ "newq" \in Chain /\ \A q \in Sema \cup Evt \cup {"runq"} : chain[q] = <<>>
  BY Anchors DEF Init
<1>3. Types
  <2>1. chain \in [Chain -> Seq(All)] /\ state \in [All -> State]
    BY <1>1 DEF Init, State
  <2>2. value \in [Sema -> Nat]
    BY DEF Init
  <2>3. todo \in [All -> Seq(Operation)]
    BY <1>1, LauncherShapes DEF Init
  <2> QED
    BY <1>1, <2>1, <2>2, <2>3 DEF Types, Init
<1>4. Shapes
  BY <1>1, CallShapes DEF Shapes
<1>5. /\ \A q \in Chain : Members(chain[q]) = IF q = "newq" THEN {Main} ELSE {}
      /\ \A q \in Chain : NoRepeat(chain[q])
  <2>1. Members(<<Main>>) = {Main} /\ NoRepeat(<<Main>>)
    BY DEF Members, NoRepeat
  <2> QED
    BY <1>2, <2>1, EmptyMembers
<1>6. \A t : Linked(chain, t) <=> t = Main
  BY <1>2, <1>5 DEF Linked
<1>7. Places
  <2>1. \A t \in Thread : ~InHand(t)
    BY <1>1, LauncherIs DEF InHand
  <2>2. \A t \in Thread : t \in Alive <=> t = Main
    BY <1>1 DEF Alive, Init
  <2>3. Disjoint(chain)
    BY <1>5 DEF Disjoint
  <2>4. CanRun(Topmost)
    BY <1>1 DEF CanRun
  <2>5. Members(chain["newq"]) \subseteq Thread /\ Members(chain["newq_event"]) \subseteq {Topmost}
    BY <1>1, <1>5, Anchors
  <2> QED
    BY <1>1, <1>6, <2>1, <2>2, <2>3, <2>4, <2>5 DEF Places
<1>8. Blocked /\ Counts
  BY <1>2, EmptyMembers DEF Blocked, Counts
<1>9. Section
  <2>1. value["newq_sema"] = 1
    BY Anchors DEF Init
  <2> QED
    BY <1>1, <1>2, <2>1, LauncherIs, Anchors DEF Section, InSection
<1>10. Signalled
  <2>1. Topmost \notin Members(chain["newq_event"])
    BY <1>2, EmptyMembers, Anchors
  <2> QED
    BY <1>1, <2>1, LauncherIs DEF Signalled
<1>11. Ended /\ Announced
  BY <1>1 DEF Ended, Announced, Init
<1> QED
  BY <1>3, <1>4, <1>7, <1>8, <1>9, <1>10, <1>11 DEF IInv

LEMMA StutterInv == IInv /\ UNCHANGED vars => IInv'
<1> SUFFICES ASSUME IInv, UNCHANGED vars PROVE IInv'
  OBVIOUS
<1>1. /\ cur' = cur /\ chain' = chain /\ value' = value /\ state' = state /\ todo' = todo
      /\ onExit' = onExit /\ ready' = ready
  BY DEF vars
<1>2. Types' /\ Shapes' /\ Blocked' /\ Ended'
  BY <1>1 DEF IInv, Types, Shapes, Blocked, Ended
<1>3. (\A t : CanRun(t)' <=> CanRun(t)) /\ (\A t : InHand(t)' <=> InHand(t)) /\ Alive' = Alive
  BY <1>1 DEF CanRun, InRunq, InHand, Alive
<1>4. Places'
  BY <1>1, <1>3 DEF IInv, Places
<1>5. Section' /\ Signalled'
  BY <1>1 DEF IInv, Section, InSection, Signalled
<1>6. Counts'
  <2>1. \A s : Coming(s)' = Coming(s)
    BY <1>1, <1>3 DEF Coming
  <2> QED
    BY <1>1, <2>1 DEF IInv, Counts
<1>7. Announced'
  BY <1>1, <1>3 DEF IInv, Announced
<1> QED
  BY <1>2, <1>4, <1>5, <1>6, <1>7 DEF IInv

LEMMA SynchroniseInv ==
    ASSUME IInv, Synchronise
    PROVE  IInv'
<1>1. Types /\ Shapes
  BY DEF IInv
<1>2. CASE DoYield
  BY <1>2, Yields
<1>3. ASSUME NEW s \in Sema, DoTake(s) PROVE IInv'
  <2>1. At("take", s)
    BY <1>3 DEF DoTake
  <2>2. CASE cur \in Thread /\ Quiet(todo[cur]) /\ s \in Lock \cup Thread
    BY <1>3, <2>2, TakesIt, WaitsForIt
  <2>3. CASE \/ cur = Topmost /\ todo[cur] = Takes /\ s = "newq_sema"
             \/ cur \in Thread /\ s = "newq_sema" /\ \E t \in Thread : todo[cur] = Run4(t)
    <3>1. DoTake("newq_sema")
      BY <1>3, <2>3
    <3>2. CASE cur = Topmost /\ todo[cur] = Takes
      BY <3>1, <3>2, QueueLocks
    <3>3. CASE cur \in Thread /\ \E t \in Thread : todo[cur] = Run4(t)
      BY <3>1, <3>3, QueueLocks
    <3> QED
      BY <2>3, <3>2, <3>3
  <2> QED
    BY <1>1, <2>1, <2>2, <2>3, AtTake
<1>4. ASSUME NEW s \in Sema, DoDrop(s) PROVE IInv'
  <2>1. At("drop", s)
    BY <1>4 DEF DoDrop
  <2>2. CASE cur \in Thread /\ Quiet(todo[cur]) /\ s \in Lock \cup Thread
    BY <1>4, <2>2, DropsIt
  <2>3. CASE \/ cur = Topmost /\ s = "newq_sema" /\ \E t \in Thread : todo[cur] = Drops(t)
             \/ cur \in Thread /\ s = "newq_sema" /\ \E t \in Thread : todo[cur] = Run1(t)
    <3>1. DoDrop("newq_sema")
      BY <1>4, <2>3
    <3>2. CASE cur = Topmost /\ \E t \in Thread : todo[cur] = Drops(t)
      BY <3>1, <3>2, QueueUnlocks
    <3>3. CASE cur \in Thread /\ \E t \in Thread : todo[cur] = Run1(t)
      BY <3>1, <3>3, QueueUnlocks
    <3> QED
      BY <2>3, <3>2, <3>3
  <2> QED
    BY <1>1, <2>1, <2>2, <2>3, AtDrop
<1>5. ASSUME NEW e \in Evt, DoSignal(e) PROVE IInv'
  <2>1. At("signal", e)
    BY <1>5 DEF DoSignal
  <2>2. CASE cur \in Thread /\ Quiet(todo[cur]) /\ e \in Event
    BY <1>5, <2>2, SignalsIt
  <2>3. CASE cur \in Thread /\ e = "newq_event" /\ \E t \in Thread : todo[cur] = Run2(t)
    <3>1. DoSignal("newq_event")
      BY <1>5, <2>3
    <3> QED
      BY <2>3, <3>1, WakesLauncher
  <2> QED
    BY <1>1, <2>1, <2>2, <2>3, AtSignal
<1>6. ASSUME NEW e \in Evt, DoBroadcast(e) PROVE IInv'
  <2>1. At("broadcast", e)
    BY <1>6 DEF DoBroadcast
  <2> QED
    BY <1>1, <1>6, <2>1, AtBroadcast, BroadcastsIt
<1>7. ASSUME NEW e \in Evt, NEW l \in Guard, DoWait(e, l) PROVE IInv'
  <2>1. At("wait", <<e, l>>)
    BY <1>7 DEF DoWait
  <2>2. CASE cur = Topmost /\ todo[cur] = Waits /\ e = "newq_event" /\ l = "newq_sema"
    <3>1. DoWait("newq_event", "newq_sema")
      BY <1>7, <2>2
    <3> QED
      BY <2>2, <3>1, LauncherSleeps
  <2>3. CASE /\ cur \in Thread /\ e \in Event /\ l = LockOf[e]
             /\ todo[cur] = EventWait(e) /\ ~ready[e]
    BY <1>7, <2>3, WaitsIt
  <2> QED
    BY <1>1, <2>1, <2>2, <2>3, AtWait
<1> QED
  BY <1>2, <1>3, <1>4, <1>5, <1>6, <1>7 DEF Synchronise

LEMMA NextInv == IInv /\ [Next]_vars => IInv'
<1> SUFFICES ASSUME IInv, [Next]_vars PROVE IInv'
  OBVIOUS
<1>1. CASE Synchronise
  BY <1>1, SynchroniseInv
<1>2. CASE Launcher
  BY <1>2, NoneLeft, Enqueues, Reuses, StacksUp, ForksIt DEF Launcher
<1>3. CASE ExitFunction \/ DoExit
  BY <1>3, ExitFunctions, Exits
<1>4. CASE Calls
  BY <1>4, PlainCalls, LockCalls, EventCalls, RunCall, JoinCall DEF Calls
<1>5. CASE UNCHANGED vars
  BY <1>5, StutterInv
<1> QED
  BY <1>1, <1>2, <1>3, <1>4, <1>5 DEF Next

-----------------------------------------------------------------------------
(* Stacks *)

\* A thread has a stack that is large enough.
Bound(t) == stack[t] \in DOMAIN size /\ size[stack[t]] >= StackSize[t]

\* It has not been launched: it is a new thread, or dthr_thread_run will make it one.
Running(t)    == cur # Nobody /\ todo[cur] \in {Run4(t), Run3(t)}
Unlaunched(t) == t \in Members(chain["newq"]) \/ Running(t)

StackTypes ==
    /\ size \in Seq(Nat) /\ free \in Seq(DOMAIN size)
    /\ stack \in [Thread -> DOMAIN size \cup {NoStack}]
    /\ held \subseteq All \X Sema /\ detached \in BOOLEAN

StackInv == StackTypes /\ \A t \in Alive : Bound(t) \/ Unlaunched(t)

\* Who can run has been launched.
LEMMA LaunchedIsBound ==
    ASSUME IInv, StackInv, NEW t \in Thread, CanRun(t)
    PROVE  Bound(t) /\ t \in Alive
<1>1. t = cur \/ t \in Members(chain["runq"])
  BY RunqIs DEF All
<1>2. "runq" \in Chain /\ "newq" \in Chain /\ "runq" # "newq"
  BY Anchors
<1>3. t \in Alive
  BY <1>1, <1>2 DEF IInv, Places, Linked
<1>4. t \notin Members(chain["newq"])
  BY <1>1, <1>2 DEF IInv, Places, Linked, Disjoint
<1>5. ~Running(t)
  <2> SUFFICES ASSUME Running(t) PROVE FALSE
    OBVIOUS
  <2>1. InHand(t)
    BY DEF Running, InHand, Hand
  <2> QED
    BY <1>1, <1>2, <2>1 DEF IInv, Places, Linked
<1> QED
  BY <1>3, <1>4, <1>5 DEF StackInv, Unlaunched

\* What no step but that of the launcher and that of an exit does.
StacksStay ==
    /\ stack' = stack /\ size' = size /\ free' = free
    /\ held' \subseteq All \X Sema /\ detached' \in BOOLEAN

\* No thread comes to life, or out of the queue of new threads.
NobodyStarts ==
    /\ \A t \in Thread : t \in Alive' => t \in Alive
    /\ chain'["newq"] = chain["newq"]
    /\ \A t \in Thread : ~Running(t)

LEMMA StackStays ==
    ASSUME StackInv, StacksStay, NobodyStarts
    PROVE  StackInv'
<1>1. StackTypes'
  BY DEF StackInv, StackTypes, StacksStay
<1>2. ASSUME NEW t \in Alive'
      PROVE  Bound(t)' \/ Unlaunched(t)'
  <2>1. t \in Alive
    BY <1>2 DEF NobodyStarts, Alive
  <2>2. Bound(t) \/ t \in Members(chain["newq"])
    BY <1>2, <2>1 DEF StackInv, Unlaunched, NobodyStarts, Alive
  <2>3. Bound(t) => Bound(t)'
    BY DEF Bound, StacksStay
  <2>4. t \in Members(chain["newq"]) => Unlaunched(t)'
    BY DEF Unlaunched, NobodyStarts
  <2> QED
    BY <2>2, <2>3, <2>4
<1> QED
  BY <1>1, <1>2 DEF StackInv

\* The operations in front of dthr_thread_run are its own.
LEMMA NotRunning ==
    ASSUME Types, NEW o, todo[cur] # <<>> => Head(todo[cur]) = o, o # Take("newq_sema"),
           \A t \in Thread : o # Enqueue(t)
    PROVE  \A t \in Thread : ~Running(t)
  BY RunShapes DEF Running

\* A thread that is current or in a queue is alive.
LEMMA StatesStay ==
    ASSUME IInv,
           \A t \in Thread : state'[t] = state[t] \/ t = cur \/ Linked(chain, t) \/ state'[t] = "exited"
    PROVE  \A t \in Thread : t \in Alive' => t \in Alive
<1> SUFFICES ASSUME NEW t \in Thread, t \in Alive'
             PROVE  t \in Alive
  OBVIOUS
<1>1. CASE state'[t] = state[t]
  BY <1>1 DEF Alive
<1>2. CASE t = cur \/ Linked(chain, t)
  BY <1>2 DEF IInv, Places
<1>3. state'[t] # "exited"
  BY DEF Alive
<1> QED
  BY <1>1, <1>2, <1>3

LEMMA HeadIsLinked ==
    ASSUME IInv, NEW q \in Chain, chain[q] # <<>>
    PROVE  Linked(chain, Head(chain[q]))
<1>1. Head(chain[q]) \in Members(chain[q])
  BY LeaveIs DEF IInv, Types, Places
<1> QED
  BY <1>1 DEF Linked

\* The queue of new threads is not among those that the operations change.
LEMMA NewqStays ==
    /\ \A c \in [Chain -> Seq(All)] : Sleep(c) => chain'["newq"] = c["newq"]
    /\ \A c \in [Chain -> Seq(All)], q \in Sema \cup Evt :
          /\ Moved(c, q)["newq"] = c["newq"] /\ MovedAll(c, q)["newq"] = c["newq"]
          /\ \A t \in All : [c EXCEPT ![q] = Append(@, t)]["newq"] = c["newq"]
<1>1. "newq" \in Chain /\ "newq" # "runq" /\ \A q \in Sema \cup Evt : q # "newq"
  BY Anchors
<1>2. ASSUME NEW c \in [Chain -> Seq(All)], Sleep(c) PROVE chain'["newq"] = c["newq"]
  BY <1>1, <1>2 DEF Sleep
<1>3. ASSUME NEW c \in [Chain -> Seq(All)], NEW q \in Sema \cup Evt
      PROVE  /\ Moved(c, q)["newq"] = c["newq"] /\ MovedAll(c, q)["newq"] = c["newq"]
             /\ \A t \in All : [c EXCEPT ![q] = Append(@, t)]["newq"] = c["newq"]
  BY <1>1 DEF Moved, MovedAll
<1> QED
  BY <1>2, <1>3

\* What may be said of every operation of a thread.
LEMMA StackFacts ==
    ASSUME IInv, NEW op, NEW x, At(op, x)
    PROVE  /\ Types /\ Shapes /\ cur \in All /\ cur # Nobody /\ todo[cur] # <<>>
           /\ Head(todo[cur]) = <<op, x>> /\ chain \in [Chain -> Seq(All)]
           /\ Sema \subseteq Chain /\ Evt \subseteq Chain
           /\ \A t \in Thread : Running(t) => t \in Hand(todo[cur])
  BY AtIs, Anchors DEF IInv, Types, Running, Hand

LEMMA SynchroniseStacks ==
    ASSUME IInv, StackInv, Synchronise
    PROVE  StackInv' \/ DoTake("newq_sema")
<1>1. held \subseteq All \X Sema /\ detached \in BOOLEAN
  BY DEF StackInv, StackTypes
<1>2. CASE DoYield
  <2>0. At("yield", "cpu")
    BY <1>2 DEF DoYield
  <2>1. \A t \in Thread : ~Running(t)
    <3>1. <<"yield", "cpu">> # Take("newq_sema") /\ \A t \in Thread : <<"yield", "cpu">> # Enqueue(t)
      BY OpsDiffer
    <3>2. todo[cur] # <<>> => Head(todo[cur]) = <<"yield", "cpu">>
      BY <2>0, StackFacts
    <3> QED
      BY <3>1, <3>2, NotRunning DEF IInv
  <2>2. chain'["newq"] = chain["newq"]
    <3>1. CASE chain["runq"] = <<>>
      BY <1>2, <3>1 DEF DoYield
    <3>2. CASE chain["runq"] # <<>>
      <4>1. PICK c : c = JoinTo(chain, "runq", cur)
        OBVIOUS
      <4>2. Sleep(c)
        BY <1>2, <3>2, <4>1 DEF DoYield, JoinTo
      <4>3. c \in [Chain -> Seq(All)] /\ c["newq"] = chain["newq"]
        BY <2>0, <4>1, StackFacts, Anchors DEF JoinTo
      <4> QED
        BY <4>2, <4>3, NewqStays
    <3> QED
      BY <3>1, <3>2
  <2>3. StacksStay /\ state' = state
    BY <1>1, <1>2 DEF DoYield, threads, client, StacksStay
  <2> QED
    BY <2>1, <2>2, <2>3, StatesStay, StackStays DEF NobodyStarts
<1>3. ASSUME NEW s \in Sema, DoTake(s), s # "newq_sema" PROVE StackInv'
  <2>1. At("take", s) /\ \A t \in Thread : ~Running(t)
    <3>1. At("take", s)
      BY <1>3 DEF DoTake
    <3>2. <<"take", s>> # Take("newq_sema") /\ \A t \in Thread : <<"take", s>> # Enqueue(t)
      BY <1>3, OpsDiffer DEF Take
    <3> QED
      BY <3>1, <3>2, StackFacts, NotRunning
  <2>2. chain'["newq"] = chain["newq"]
    <3>1. CASE value[s] # 0
      BY <1>3, <3>1 DEF DoTake
    <3>2. CASE value[s] = 0
      <4>1. PICK c : c = JoinTo(chain, s, cur)
        OBVIOUS
      <4>2. Sleep(c)
        BY <1>3, <3>2, <4>1 DEF DoTake, JoinTo
      <4>3. c \in [Chain -> Seq(All)] /\ c["newq"] = chain["newq"]
        BY <2>1, <4>1, StackFacts, Anchors DEF JoinTo
      <4> QED
        BY <4>2, <4>3, NewqStays
    <3> QED
      BY <3>1, <3>2
  <2>3. StacksStay
    BY <1>1, <1>3, <2>1, StackFacts DEF DoTake, client, StacksStay
  <2>4. \A t \in Thread : state'[t] = state[t] \/ t = cur
    BY <1>3, <2>1, StackFacts DEF DoTake, Types, All
  <2> QED
    BY <2>1, <2>2, <2>3, <2>4, StatesStay, StackStays DEF NobodyStarts
<1>4. ASSUME NEW q \in Sema \cup Evt, NEW op \in {"drop", "signal"}, At(op, q),
             chain' = Moved(chain, q), StacksStay,
             state' = IF chain[q] = <<>> THEN state ELSE [state EXCEPT ![Head(chain[q])] = "runnable"]
      PROVE  StackInv'
  <2>1. \A t \in Thread : ~Running(t)
    <3>1. <<op, q>> # Take("newq_sema") /\ \A t \in Thread : <<op, q>> # Enqueue(t)
      BY <1>4, OpsDiffer DEF Take, Enqueue
    <3> QED
      BY <1>4, <3>1, StackFacts, NotRunning
  <2>2. chain'["newq"] = chain["newq"]
    BY <1>4, StackFacts, NewqStays
  <2>3. \A t \in Thread : state'[t] = state[t] \/ Linked(chain, t)
    BY <1>4, StackFacts, HeadIsLinked DEF Types, All
  <2> QED
    BY <1>4, <2>1, <2>2, <2>3, StatesStay, StackStays DEF NobodyStarts
<1>5. ASSUME NEW s \in Sema, DoDrop(s) PROVE StackInv'
  <2>1. StacksStay
    BY <1>1, <1>5 DEF DoDrop, client, StacksStay
  <2> QED
    BY <1>4, <1>5, <2>1 DEF DoDrop
<1>6. ASSUME NEW e \in Evt, DoSignal(e) PROVE StackInv'
  <2>1. StacksStay
    BY <1>1, <1>6 DEF DoSignal, client, StacksStay
  <2> QED
    BY <1>4, <1>6, <2>1 DEF DoSignal
<1>7. ASSUME NEW e \in Evt, DoBroadcast(e) PROVE StackInv'
  <2>1. At("broadcast", e) /\ chain' = MovedAll(chain, e) /\ state' = Woken(chain[e])
    BY <1>7 DEF DoBroadcast
  <2>2. \A t \in Thread : ~Running(t)
    <3>1. <<"broadcast", e>> # Take("newq_sema") /\ \A t \in Thread : <<"broadcast", e>> # Enqueue(t)
      BY OpsDiffer
    <3>2. todo[cur] # <<>> => Head(todo[cur]) = <<"broadcast", e>>
      BY <2>1, StackFacts
    <3> QED
      BY <3>1, <3>2, NotRunning DEF IInv
  <2>3. chain'["newq"] = chain["newq"]
    BY <2>1, StackFacts, NewqStays
  <2>4. \A t \in Thread : state'[t] = state[t] \/ Linked(chain, t)
    BY <2>1, StackFacts DEF Woken, Linked, Members, All
  <2>5. StacksStay
    BY <1>1, <1>7 DEF DoBroadcast, client, StacksStay
  <2> QED
    BY <2>2, <2>3, <2>4, <2>5, StatesStay, StackStays DEF NobodyStarts
<1>8. ASSUME NEW e \in Evt, NEW l \in Guard, DoWait(e, l) PROVE StackInv'
  <2>1. PICK c : c = JoinTo(chain, e, cur)
    OBVIOUS
  <2>2. At("wait", <<e, l>>) /\ Sleep(Moved(c, l)) /\ l \in Sema
    BY <1>8, <2>1 DEF DoWait, JoinTo, Sema
  <2>3. \A t \in Thread : ~Running(t)
    <3>1. <<"wait", <<e, l>>>> # Take("newq_sema") /\ \A t \in Thread : <<"wait", <<e, l>>>> # Enqueue(t)
      BY OpsDiffer
    <3>2. todo[cur] # <<>> => Head(todo[cur]) = <<"wait", <<e, l>>>>
      BY <2>2, StackFacts
    <3> QED
      BY <3>1, <3>2, NotRunning DEF IInv
  <2>4. chain'["newq"] = chain["newq"]
    <3>1. c \in [Chain -> Seq(All)] /\ c["newq"] = chain["newq"]
      BY <2>1, <2>2, StackFacts, Anchors DEF JoinTo
    <3>2. Moved(c, l) \in [Chain -> Seq(All)]
      <4>1. /\ c[l] \in Seq(All) /\ c["runq"] \in Seq(All)
            /\ c[l] # <<>> => Head(c[l]) \in All /\ Tail(c[l]) \in Seq(All)
        BY <2>2, <3>1, Anchors
      <4>2. c[l] # <<>> => Append(c["runq"], Head(c[l])) \in Seq(All)
        BY <4>1
      <4> QED
        BY <3>1, <4>1, <4>2 DEF Moved
    <3> QED
      BY <2>2, <3>1, <3>2, NewqStays
  <2>5. \A t \in Thread : state'[t] = state[t] \/ t = cur \/ Linked(chain, t)
    BY <1>8, <2>2, StackFacts, HeadIsLinked DEF DoWait, All
  <2>6. StacksStay
    BY <1>1, <1>8 DEF DoWait, client, StacksStay
  <2> QED
    BY <2>3, <2>4, <2>5, <2>6, StatesStay, StackStays DEF NobodyStarts
<1> QED
  BY <1>2, <1>3, <1>5, <1>6, <1>7, <1>8 DEF Synchronise

\* The lock of the queue of new threads is free: dthr_thread_run goes on to its thread.
LEMMA QueueLockStacks ==
    ASSUME IInv, StackInv, DoTake("newq_sema")
    PROVE  StackInv'
<1>1. At("take", "newq_sema") /\ "newq_sema" \in Sema
  BY Anchors DEF DoTake
<1>2. \/ cur = Topmost /\ todo[cur] = Takes
      \/ cur \in Thread /\ \E t \in Thread : todo[cur] = Run4(t)
  BY <1>1, AtTake, Anchors, QuietKinds DEF IInv
<1>3. cur \in All /\ cur # Nobody /\ todo \in [All -> Seq(Operation)]
  BY <1>1, AtIs DEF IInv, Types
<1>4. ~Locked(todo[cur])
  BY <1>2, LauncherIs, RunIs
<1>5. value["newq_sema"] # 0
  BY <1>4 DEF IInv, Section, InSection
<1>6. Done /\ chain' = chain /\ state' = state /\ cur' = cur /\ StacksStay
  BY <1>1, <1>3, <1>5 DEF DoTake, client, StacksStay, StackInv, StackTypes
<1>7. ASSUME NEW t \in Thread, Running(t) PROVE Running(t)'
  <2>1. t \in Hand(todo[cur])
    BY <1>7 DEF Running, Hand
  <2>2. PICK u \in Thread : todo[cur] = Run4(u)
    BY <1>2, <2>1, LauncherIs
  <2>3. todo[cur] = Run4(t)
    BY <2>1, <2>2, RunIs
  <2>4. todo'[cur'] = Run3(t)
    BY <1>3, <1>6, <2>3, RunShapes DEF Done
  <2> QED
    BY <1>3, <1>6, <2>4 DEF Running
<1>8. Alive' = Alive /\ \A t : Bound(t)' <=> Bound(t)
  BY <1>6 DEF Alive, Bound, StacksStay
<1>9. \A t \in Thread : Unlaunched(t) => Unlaunched(t)'
  BY <1>6, <1>7 DEF Unlaunched
<1>10. StackTypes'
  BY <1>6 DEF StackInv, StackTypes, StacksStay
<1> QED
  BY <1>8, <1>9, <1>10 DEF StackInv, Alive

\* Then the thread is in the queue.
LEMMA EnqueueStacks ==
    ASSUME IInv, StackInv, NEW t \in Thread, DoEnqueue(t)
    PROVE  StackInv'
<1>1. /\ cur \in Thread /\ todo[cur] = Run3(t) /\ StacksStay /\ Alive' = Alive
      /\ chain' = JoinTo(chain, "newq", t) /\ chain \in [Chain -> Seq(All)] /\ t \in All
      /\ "newq" \in Chain
  BY AtEnqueue, Anchors DEF IInv, Types, DoEnqueue, threads, client, JoinTo, StacksStay, StackInv,
                            StackTypes, Alive, All
<1>2. \A u : u \in Members(chain["newq"]) \/ u = t => u \in Members(chain'["newq"])
  <2>1. chain["newq"] \in Seq(All) /\ chain'["newq"] = Append(chain["newq"], t)
    BY <1>1 DEF JoinTo
  <2>2. Len(chain["newq"]) + 1 \in DOMAIN chain'["newq"] /\ chain'["newq"][Len(chain["newq"]) + 1] = t
    BY <2>1
  <2>3. \A i \in DOMAIN chain["newq"] : i \in DOMAIN chain'["newq"] /\ chain'["newq"][i] = chain["newq"][i]
    BY <2>1
  <2> QED
    BY <2>2, <2>3 DEF Members
<1>3. \A u \in Thread : Running(u) => u = t
  BY <1>1, RunIs DEF Running, Hand
<1>4. \A u : Bound(u)' <=> Bound(u)
  BY <1>1 DEF Bound, StacksStay
<1>5. \A u \in Thread : Unlaunched(u) => Unlaunched(u)'
  BY <1>2, <1>3 DEF Unlaunched
<1>6. StackTypes'
  BY <1>1 DEF StackInv, StackTypes, StacksStay
<1> QED
  BY <1>1, <1>4, <1>5, <1>6 DEF StackInv, Alive

\* A thread that is run has no stack: dthr_thread_run makes a new thread of it.
LEMMA RunStacks ==
    ASSUME IInv, StackInv, NEW t \in Thread, CallRun(t)
    PROVE  StackInv'
<1>1. /\ cur \in Thread /\ cur \in All /\ cur # Nobody /\ todo[cur] = <<>> /\ cur' = cur
      /\ chain' = chain /\ size' = size /\ free' = free /\ held' = held /\ detached' = detached
      /\ stack' = [stack EXCEPT ![t] = NoStack] /\ state' = [state EXCEPT ![t] = "runnable"]
      /\ state \in [All -> State] /\ todo \in [All -> Seq(Operation)] /\ Thread \subseteq All
  BY DEF CallRun, Call, Client, client, IInv, Types, All
<1>2. todo' = [todo EXCEPT ![cur] = Run4(t)]
  <2>1. todo' = [todo EXCEPT ![cur] = Cat(dthr_thread_run(t), dthr_thread_detach(t))]
    BY Zenon DEF CallRun, Call, Cat
  <2> QED
    BY <2>1, RunShapes
<1>3. Running(t)'
  BY <1>1, <1>2 DEF Running
<1>4. \A u \in Thread : ~Running(u)
  BY <1>1, RunShapes DEF Running
<1>5. StackTypes'
  BY <1>1 DEF StackInv, StackTypes
<1>6. ASSUME NEW u \in Alive' PROVE Bound(u)' \/ Unlaunched(u)'
  <2>1. CASE u = t
    BY <1>3, <2>1 DEF Unlaunched
  <2>2. CASE u # t
    <3>1. u \in Alive /\ u \in Thread
      BY <1>1, <1>6, <2>2 DEF Alive
    <3>2. Bound(u) \/ u \in Members(chain["newq"])
      BY <1>4, <3>1 DEF StackInv, Unlaunched
    <3>3. stack'[u] = stack[u]
      BY <1>1, <2>2, <3>1 DEF StackInv, StackTypes
    <3> QED
      BY <1>1, <3>2, <3>3 DEF Bound, Unlaunched
  <2> QED
    BY <2>1, <2>2
<1> QED
  BY <1>5, <1>6 DEF StackInv

\* The least of a set of numbers.
Lower == {ss \in Nat \X Nat : ss[1] < ss[2]}

LEMMA Least ==
    ASSUME NEW T, T \subseteq Nat, T # {}
    PROVE  \E x \in T : \A y \in T : x <= y
<1>1. IsWellFoundedOn(Lower, Nat)
  BY NatLessThanWellFounded, Zenon DEF OpToRel, Lower
<1>2. PICK x \in T : \A y \in T : ~(<<y, x>> \in Lower)
  BY <1>1, WFMin
<1>3. \A y \in T : ~(y < x)
  BY <1>2 DEF Lower
<1> QED
  BY <1>3

\* The stack that is found is larger than what the thread asks for.
LEMMA FitIs ==
    ASSUME StackTypes, NEW t \in Thread, Fitting(t) # {}
    PROVE  /\ dthr_find_free_stack(t) \in DOMAIN size
           /\ size[dthr_find_free_stack(t)] >= StackSize[t]
<1> DEFINE Large(i) == size[free[i]]
           Best(i)  == \A j \in Fitting(t) : \/ Large(i) < Large(j)
                                             \/ Large(i) = Large(j) /\ i <= j
<1>1. /\ Fitting(t) \subseteq Nat
      /\ \A i \in Fitting(t) : free[i] \in DOMAIN size /\ Large(i) \in Nat /\ Large(i) > StackSize[t]
  <2>1. /\ DOMAIN free \subseteq Nat /\ \A i \in DOMAIN free : free[i] \in DOMAIN size
        /\ \A k \in DOMAIN size : size[k] \in Nat
    BY DEF StackTypes
  <2> QED
    BY <2>1 DEF Fitting
<1>2. PICK m \in {Large(i) : i \in Fitting(t)} : \A i \in Fitting(t) : m <= Large(i)
  <2>1. {Large(i) : i \in Fitting(t)} \subseteq Nat /\ {Large(i) : i \in Fitting(t)} # {}
    BY <1>1
  <2>2. PICK m \in {Large(i) : i \in Fitting(t)} : \A n \in {Large(i) : i \in Fitting(t)} : m <= n
    BY <2>1, Least
  <2> QED
    BY <2>2
<1>3. PICK k \in {i \in Fitting(t) : Large(i) = m} : \A j \in {i \in Fitting(t) : Large(i) = m} : k <= j
  <2>1. {i \in Fitting(t) : Large(i) = m} \subseteq Nat /\ {i \in Fitting(t) : Large(i) = m} # {}
    BY <1>1, <1>2
  <2> QED
    BY <2>1, Least
<1>4. k \in Fitting(t) /\ Best(k)
  <2>1. k \in Fitting(t) /\ Large(k) = m
    BY <1>3
  <2>2. ASSUME NEW j \in Fitting(t) PROVE Large(k) < Large(j) \/ (Large(k) = Large(j) /\ k <= j)
    <3>1. Large(j) = m => k <= j
      BY <1>3, <2>2
    <3>2. m <= Large(j) /\ m \in Nat /\ Large(j) \in Nat
      BY <1>1, <1>2, <2>1, <2>2
    <3> HIDE DEF Large
    <3> QED
      BY <2>1, <3>1, <3>2
  <2> QED
    BY <2>1, <2>2
<1>5. PICK f : f = CHOOSE i \in Fitting(t) : Best(i)
  OBVIOUS
<1>6. f \in Fitting(t)
  BY <1>4, <1>5
<1>7. dthr_find_free_stack(t) = free[f]
  BY <1>5 DEF dthr_find_free_stack
<1> QED
  BY <1>1, <1>6, <1>7

\* What is left of a list when a link is taken out of it.
LEMMA DeleteIs ==
    ASSUME NEW S, NEW c \in Seq(S), NEW k
    PROVE  dthr_chain_delete(c, k) \in Seq(S)
<1>1. CASE \A i \in DOMAIN c : c[i] # k
  BY <1>1 DEF dthr_chain_delete
<1>2. CASE ~(\A i \in DOMAIN c : c[i] # k)
  <2>1. PICK p : p = CHOOSE i \in DOMAIN c : c[i] = k
    OBVIOUS
  <2>2. PICK d : d = [i \in 1 .. Len(c) - 1 |-> IF i < p THEN c[i] ELSE c[i + 1]]
    OBVIOUS
  <2>3. Len(c) \in Nat \ {0} /\ DOMAIN c = 1 .. Len(c) /\ \A i \in 1 .. Len(c) : c[i] \in S
    BY <1>2
  <2>4. \A i \in 1 .. Len(c) - 1 : d[i] \in S
    BY <2>2, <2>3
  <2>5. d \in Seq(S)
    BY <2>2, <2>3, <2>4
  <2> QED
    BY <1>2, <2>1, <2>2, <2>5 DEF dthr_chain_delete
<1> QED
  BY <1>1, <1>2

\* A new thread that is given a stack is bound.
LEMMA ReuseStacks ==
    ASSUME IInv, StackInv, NEW t \in Thread, ReuseStack(t)
    PROVE  StackInv'
<1>1. /\ At("launch", Topmost) /\ chain["newq"] # <<>> /\ t = Head(chain["newq"]) /\ Fitting(t) # {}
      /\ stack' = [stack EXCEPT ![t] = dthr_find_free_stack(t)]
      /\ state' = [state EXCEPT ![t] = "runnable"]
      /\ chain' = [chain EXCEPT !["newq"] = Tail(@), !["runq"] = Append(@, t)]
      /\ size' = size /\ free' = free /\ held' = held /\ detached' = detached
  BY DEF ReuseStack, client
<1>2. cur \in All /\ todo[cur] = Launches
  BY <1>1, AtLaunch DEF IInv, All
<1>3. PICK b : b = Leave(chain, "newq")
  OBVIOUS
<1>4. /\ b \in [Chain -> Seq(All)] /\ t \in Members(chain["newq"])
      /\ \A r \in Chain : Members(b[r]) = Members(chain[r]) \ {t}
  BY <1>1, <1>2, <1>3, FirstOfNew
<1>5. Members(chain'["newq"]) = Members(chain["newq"]) \ {t}
  <2>1. chain'["newq"] = b["newq"]
    BY <1>1, <1>3, Anchors DEF IInv, Types, Leave
  <2> QED
    BY <1>4, <2>1, Anchors
<1>6. \A u \in Thread : ~Running(u)
  BY <1>2, RunIs, LauncherIs DEF Running
<1>7. dthr_find_free_stack(t) \in DOMAIN size /\ size[dthr_find_free_stack(t)] >= StackSize[t]
  BY <1>1, FitIs DEF StackInv
<1>8. StackTypes'
  BY <1>1, <1>7 DEF StackInv, StackTypes
<1>9. ASSUME NEW u \in Alive' PROVE Bound(u)' \/ Unlaunched(u)'
  <2>1. CASE u = t
    BY <1>1, <1>7, <2>1 DEF Bound, StackInv, StackTypes
  <2>2. CASE u # t
    <3>1. u \in Alive
      BY <1>1, <1>9, <2>2 DEF Alive, IInv, Types, All
    <3>2. Bound(u) \/ u \in Members(chain["newq"])
      BY <1>6, <3>1 DEF StackInv, Unlaunched, Alive
    <3>3. Bound(u) => Bound(u)'
      BY <1>1, <2>2, <3>1 DEF Bound, StackInv, StackTypes, Alive
    <3> QED
      BY <1>5, <2>2, <3>2, <3>3 DEF Unlaunched
  <2> QED
    BY <2>1, <2>2
<1> QED
  BY <1>8, <1>9 DEF StackInv

\* The stack of the launcher has the size that the thread asks for.
LEMMA NewStacks ==
    ASSUME IInv, StackInv, NEW t \in Thread, NewStack(t)
    PROVE  StackInv'
<1>1. /\ At("launch", Topmost) /\ chain["newq"] # <<>> /\ t = Head(chain["newq"])
      /\ size' = Append(size, StackSize[t]) /\ stack' = [stack EXCEPT ![t] = Len(size) + 1]
      /\ state' = [state EXCEPT ![t] = "runnable"] /\ chain' = Leave(chain, "newq")
      /\ free' = free /\ held' = held /\ detached' = detached
  BY Zenon DEF NewStack, client, Leave
<1>2. cur \in All /\ todo[cur] = Launches
  BY <1>1, AtLaunch DEF IInv, All
<1>3. /\ t \in Members(chain["newq"])
      /\ Members(chain'["newq"]) = Members(chain["newq"]) \ {t}
  BY <1>1, <1>2, FirstOfNew, Anchors
<1>4. \A u \in Thread : ~Running(u)
  BY <1>2, RunIs, LauncherIs DEF Running
<1>5. /\ size \in Seq(Nat) /\ StackSize[t] \in Nat /\ free \in Seq(DOMAIN size)
      /\ stack \in [Thread -> DOMAIN size \cup {NoStack}] /\ size' \in Seq(Nat)
  BY <1>1 DEF StackInv, StackTypes
<1>6. /\ \A k \in DOMAIN size : k \in DOMAIN size' /\ size'[k] = size[k]
      /\ Len(size) + 1 \in DOMAIN size' /\ size'[Len(size) + 1] = StackSize[t]
  BY <1>1, <1>5
<1>7. StackTypes'
  <2>1. free' \in Seq(DOMAIN size')
    BY <1>1, <1>5, <1>6
  <2>2. stack' \in [Thread -> DOMAIN size' \cup {NoStack}]
    BY <1>1, <1>5, <1>6
  <2> QED
    BY <1>1, <1>5, <2>1, <2>2 DEF StackInv, StackTypes
<1>8. ASSUME NEW u \in Alive' PROVE Bound(u)' \/ Unlaunched(u)'
  <2>1. CASE u = t
    BY <1>1, <1>5, <1>6, <2>1 DEF Bound
  <2>2. CASE u # t
    <3>1. u \in Alive
      BY <1>1, <1>8, <2>2 DEF Alive, IInv, Types, All
    <3>2. Bound(u) \/ u \in Members(chain["newq"])
      BY <1>4, <3>1 DEF StackInv, Unlaunched, Alive
    <3>3. Bound(u) => Bound(u)'
      BY <1>1, <1>5, <1>6, <2>2, <3>1 DEF Bound, Alive
    <3> QED
      BY <1>3, <2>2, <3>2, <3>3 DEF Unlaunched
  <2> QED
    BY <2>1, <2>2
<1> QED
  BY <1>7, <1>8 DEF StackInv

\* Who exits gives its stack back, if another thread runs.
LEMMA ExitStacks ==
    ASSUME IInv, StackInv, DoExit
    PROVE  StackInv'
<1>1. /\ At("exit", Nobody) /\ state' = [state EXCEPT ![cur] = "exited"] /\ Sleep(chain)
      /\ size' = size /\ held' = held /\ detached' = detached
      /\ \/ stack' = stack /\ free' = free
         \/ /\ stack' = [stack EXCEPT ![cur] = NoStack]
            /\ free' = Append(dthr_chain_delete(free, stack[cur]), stack[cur])
  BY DEF DoExit, client
<1>2. cur \in Thread /\ Head(todo[cur]) = <<"exit", Nobody>>
  BY <1>1, AtExit, StackFacts DEF IInv
<1>3. \A u \in Thread : ~Running(u)
  <2>1. <<"exit", Nobody>> # Take("newq_sema") /\ \A u \in Thread : <<"exit", Nobody>> # Enqueue(u)
    BY OpsDiffer
  <2> QED
    BY <1>2, <2>1, NotRunning DEF IInv
<1>4. chain'["newq"] = chain["newq"]
  BY <1>1, NewqStays DEF IInv, Types
<1>5. Bound(cur)
  BY <1>2, LaunchedIsBound DEF CanRun
<1>6. StackTypes'
  <2>1. free' \in Seq(DOMAIN size)
    <3>1. free \in Seq(DOMAIN size) /\ stack[cur] \in DOMAIN size
      BY <1>5 DEF Bound, StackInv, StackTypes
    <3>2. PICK c : c = dthr_chain_delete(free, stack[cur])
      OBVIOUS
    <3>3. c \in Seq(DOMAIN size)
      BY <3>1, <3>2, DeleteIs
    <3>4. Append(c, stack[cur]) \in Seq(DOMAIN size)
      BY ONLY <3>1, <3>3
    <3> QED
      BY ONLY <1>1, <3>1, <3>2, <3>4
  <2>2. stack' \in [Thread -> DOMAIN size \cup {NoStack}]
    BY <1>1 DEF StackInv, StackTypes
  <2> QED
    BY <1>1, <2>1, <2>2 DEF StackInv, StackTypes
<1>7. ASSUME NEW u \in Alive' PROVE Bound(u)' \/ Unlaunched(u)'
  <2>1. u \in Alive /\ u # cur
    BY <1>1, <1>2, <1>7 DEF Alive, IInv, Types, All
  <2>2. Bound(u) \/ u \in Members(chain["newq"])
    BY <1>3, <2>1 DEF StackInv, Unlaunched, Alive
  <2>3. Bound(u) => Bound(u)'
    BY <1>1, <2>1 DEF Bound, StackInv, StackTypes, Alive
  <2> QED
    BY <1>4, <2>2, <2>3 DEF Unlaunched
<1> QED
  BY <1>6, <1>7 DEF StackInv

LEMMA LauncherStacks ==
    ASSUME IInv, StackInv, Launcher
    PROVE  StackInv'
<1>1. CASE WaitForNew
  <2>1. At("launch", Topmost) /\ chain' = chain /\ state' = state /\ StacksStay
    BY <1>1 DEF WaitForNew, threads, client, StacksStay, StackInv, StackTypes
  <2>2. \A u \in Thread : ~Running(u)
    BY <2>1, AtLaunch, RunIs, LauncherIs DEF Running, IInv
  <2> QED
    BY <2>1, <2>2, StackStays DEF NobodyStarts, Alive
<1>2. ASSUME NEW t \in Thread, DoFork(t) PROVE StackInv'
  <2>1. At("fork", t) /\ chain' = JoinTo(chain, "runq", t) /\ state' = state /\ StacksStay
    BY <1>2 DEF DoFork, threads, client, StacksStay, StackInv, StackTypes, JoinTo
  <2>2. \A u \in Thread : ~Running(u)
    <3>1. <<"fork", t>> # Take("newq_sema") /\ \A u \in Thread : <<"fork", t>> # Enqueue(u)
      BY OpsDiffer
    <3>2. Head(todo[cur]) = <<"fork", t>>
      BY <2>1, StackFacts
    <3> QED
      BY <3>1, <3>2, NotRunning DEF IInv
  <2>3. chain'["newq"] = chain["newq"]
    BY <2>1, Anchors DEF JoinTo, IInv, Types
  <2> QED
    BY <2>1, <2>2, <2>3, StackStays DEF NobodyStarts, Alive
<1> QED
  BY <1>1, <1>2, EnqueueStacks, ReuseStacks, NewStacks DEF Launcher

\* A routine is called with the stacks as they are.
LEMMA CallStacks ==
    ASSUME IInv, StackInv, Calls
    PROVE  StackInv'
<1>1. /\ cur \in Thread /\ cur \in All /\ todo[cur] = <<>>
      /\ held \subseteq All \X Sema /\ detached \in BOOLEAN /\ Lock \subseteq Sema
  <2>1. Client
    BY DEF Calls, CallYield, CallDetach, CallExit, CallTake, CallTry, CallDrop, CallOnExit,
           CallWait, CallSignal, CallOpen, CallRun, CallJoin, Call
  <2> QED
    BY <2>1 DEF Client, All, StackInv, StackTypes, Sema, Guard
<1>2. \A u \in Thread : ~Running(u)
  BY <1>1, RunShapes DEF Running
<1>3. CASE \E t \in Thread : CallRun(t)
  BY <1>3, RunStacks
<1>4. CASE ~(\E t \in Thread : CallRun(t))
  <2>1. chain' = chain /\ state' = state /\ stack' = stack /\ size' = size /\ free' = free
    BY <1>4 DEF Calls, CallYield, CallDetach, CallExit, CallTake, CallTry, CallDrop, CallOnExit,
                CallWait, CallSignal, CallOpen, CallJoin, threads, client
  <2>2. held' = held \/ \E l \in Lock : held' = held \cup {<<cur, l>>}
    BY <1>4 DEF Calls, CallYield, CallDetach, CallExit, CallTake, CallTry, CallDrop, CallOnExit,
                CallWait, CallSignal, CallOpen, CallJoin
  <2>3. detached' = detached \/ detached' = TRUE
    BY <1>4 DEF Calls, CallYield, CallDetach, CallExit, CallTake, CallTry, CallDrop, CallOnExit,
                CallWait, CallSignal, CallOpen, CallJoin, client
  <2>4. StacksStay
    <3>1. \A l \in Lock : <<cur, l>> \in All \X Sema
      BY <1>1
    <3>2. held' \subseteq All \X Sema
      BY <1>1, <2>2, <3>1, Zenon
    <3> QED
      BY <1>1, <2>1, <2>3, <3>2 DEF StacksStay
  <2> QED
    BY <1>2, <2>1, <2>4, StackStays DEF NobodyStarts, Alive
<1> QED
  BY <1>3, <1>4

LEMMA ExitFunctionStacks ==
    ASSUME IInv, StackInv, ExitFunction
    PROVE  StackInv'
<1>1. At("exit", Nobody) /\ chain' = chain /\ state' = state /\ StacksStay
  BY DEF ExitFunction, threads, StacksStay, StackInv, StackTypes
<1>2. \A u \in Thread : ~Running(u)
  <2>1. <<"exit", Nobody>> # Take("newq_sema") /\ \A u \in Thread : <<"exit", Nobody>> # Enqueue(u)
    BY OpsDiffer
  <2>2. Head(todo[cur]) = <<"exit", Nobody>>
    BY <1>1, StackFacts
  <2> QED
    BY <2>1, <2>2, NotRunning DEF IInv
<1> QED
  BY <1>1, <1>2, StackStays DEF NobodyStarts, Alive

LEMMA InitStacks == Init => StackInv
<1> SUFFICES ASSUME Init PROVE StackInv
  OBVIOUS
<1>1. StackTypes
  <2>1. /\ size = <<>> /\ free = <<>> /\ held = {} /\ detached = FALSE
        /\ stack = [t \in Thread |-> NoStack]
    BY DEF Init
  <2>2. size \in Seq(Nat) /\ free \in Seq(DOMAIN size)
    BY ONLY <2>1
  <2> QED
    BY ONLY <2>1, <2>2 DEF StackTypes
<1>2. Alive = {Main} /\ chain["newq"] = <<Main>>
  BY Anchors DEF Init, Alive, All
<1>3. Main \in Members(chain["newq"])
  BY <1>2 DEF Members
<1> QED
  BY <1>1, <1>2, <1>3 DEF StackInv, Unlaunched

LEMMA NextStacks == IInv /\ StackInv /\ [Next]_vars => StackInv'
<1> SUFFICES ASSUME IInv, StackInv, [Next]_vars PROVE StackInv'
  OBVIOUS
<1>1. CASE Synchronise
  BY <1>1, SynchroniseStacks, QueueLockStacks
<1>2. CASE UNCHANGED vars
  BY <1>2 DEF vars, StackInv, StackTypes, Alive, Bound, Unlaunched, Running
<1> QED
  BY <1>1, <1>2, LauncherStacks, ExitFunctionStacks, ExitStacks, CallStacks DEF Next

-----------------------------------------------------------------------------
(* Theorems *)

\* The inductive invariant: every thread is in one place, and what is left of its
\* routine goes with the place and with the counts.
THEOREM Invariance == Spec => []IInv
  BY InitInv, NextInv, PTL DEF Spec

\* A broadcast is never missed: a thread that waits for a flag that is set has a
\* thread that will wake it (dthr_event_wait, dthr_event_broadcast).
THEOREM BroadcastsReachAll == Spec => []NoForgottenWaiter
<1>1. IInv => NoForgottenWaiter
  <2> SUFFICES ASSUME IInv, NEW e \in Event, ready[e], chain[e] # <<>>
               PROVE  \E t \in Thread : CanRun(t) /\ Pending(t, Wake(e))
    BY DEF NoForgottenWaiter
  <2>1. PICK t \in Thread : CanRun(t) /\ todo[t] \in Opening(e)
    BY DEF IInv, Announced
  <2>2. /\ 3 \in DOMAIN Opens3(e) /\ Opens3(e)[3] = Wake(e)
        /\ 2 \in DOMAIN Opens2(e) /\ Opens2(e)[2] = Wake(e)
        /\ 1 \in DOMAIN Opens1(e) /\ Opens1(e)[1] = Wake(e)
    BY ONLY TRUE DEF Opens3, Opens2, Opens1
  <2>3. \E i \in DOMAIN todo[t] : todo[t][i] = Wake(e)
    BY ONLY <2>1, <2>2 DEF Opening
  <2> QED
    BY <2>1, <2>3 DEF Pending
<1> QED
  BY <1>1, Invariance, PTL

\* When dthr_thread_multithread returns, every thread that has not exited waits for an
\* event or for a semaphore at 0, and no new thread was left behind.
THEOREM ReturnsAtTheEnd == Spec => []EndIsDeadlock
<1>1. IInv => EndIsDeadlock
  <2> SUFFICES ASSUME IInv, cur = Nobody
               PROVE  /\ chain["runq"] = <<>> /\ chain["newq"] = <<>>
                      /\ \A t \in Alive : \E q \in Sema \cup Evt :
                            /\ \E i \in DOMAIN chain[q] : chain[q][i] = t
                            /\ q \in Sema => value[q] = 0
    BY DEF EndIsDeadlock
  <2>1. chain["runq"] = <<>> /\ Members(chain["runq"]) = {}
    BY EmptyMembers DEF IInv, Ended
  <2>2. \A t \in All : ~CanRun(t)
    BY <2>1, RunqIs DEF All
  <2>3. chain["newq"] = <<>> /\ Members(chain["newq"]) = {}
    <3>1. Topmost \in All /\ cur \notin Thread
      BY DEF All
    <3>2. Topmost \in Members(chain["newq_event"])
      BY <2>2, <3>1 DEF IInv, Places
    <3> QED
      BY <3>1, <3>2, EmptyMembers DEF IInv, Signalled
  <2>4. ASSUME NEW t \in Alive
        PROVE  \E q \in Sema \cup Evt : /\ \E i \in DOMAIN chain[q] : chain[q][i] = t
                                        /\ q \in Sema => value[q] = 0
    <3>1. t \in Thread /\ t # cur
      BY DEF Alive
    <3>2. Linked(chain, t)
      BY <3>1 DEF IInv, Places, InHand
    <3>3. PICK q \in Sema \cup Evt : t \in Members(chain[q])
      BY <2>1, <2>3, <3>2 DEF Linked, Chain
    <3>4. ASSUME q \in Sema PROVE value[q] = 0
      <4>1. Coming(q) = {}
        BY <2>2 DEF Coming
      <4>2. Cardinality(Coming(q)) = 0
        BY <4>1, FS_EmptySet
      <4>3. chain[q] # <<>>
        BY <3>3, EmptyMembers
      <4>4. value[q] <= 0 /\ value[q] \in Nat
        BY <3>4, <4>2, <4>3 DEF IInv, Counts, Types
      <4> QED
        BY <4>4
    <3> QED
      BY <3>3, <3>4 DEF Members
  <2> QED
    BY <2>1, <2>3, <2>4
<1> QED
  BY <1>1, Invariance, PTL

\* Every thread that lives has a stack or has not been launched, and the state keeps
\* its types: no count of dread.c is below 0.
THEOREM TypeCorrect == Spec => []TypeOK
<1>1. Spec => [](IInv /\ StackInv)
  BY Invariance, InitStacks, NextStacks, PTL DEF Spec
<1>2. IInv /\ StackInv => TypeOK
  <2> SUFFICES ASSUME IInv, StackInv PROVE TypeOK
    OBVIOUS
  <2>1. free \in Seq(Nat) /\ stack \in [Thread -> Nat \cup {NoStack}] /\ size \in Seq(Nat)
    <3>1. DOMAIN size \subseteq Nat /\ free \in Seq(DOMAIN size)
      BY DEF StackInv, StackTypes
    <3> QED
      BY <3>1 DEF StackInv, StackTypes
  <2> QED
    BY <2>1 DEF TypeOK, IInv, Types, StackInv, StackTypes
<1> QED
  BY <1>1, <1>2, PTL

\* Who can run has a stack of at least the size it asked for: the stack that
\* dthr_find_free_stack finds is large enough, and no thread is put in the run queue
\* before dthr_thread_launcher has bound one to it.
THEOREM StacksFit == Spec => []RunsOnAStack
<1>1. Spec => [](IInv /\ StackInv)
  BY Invariance, InitStacks, NextStacks, PTL DEF Spec
<1>2. IInv /\ StackInv => RunsOnAStack
  <2> SUFFICES ASSUME IInv, StackInv, NEW t \in Thread, CanRun(t)
               PROVE  stack[t] # NoStack /\ size[stack[t]] >= StackSize[t]
    BY DEF RunsOnAStack
  <2>1. Bound(t)
    BY LaunchedIsBound
  <2>2. DOMAIN size \subseteq Nat /\ NoStack \notin Nat
    BY DEF StackInv, StackTypes
  <2> QED
    BY <2>1, <2>2 DEF Bound
<1> QED
  BY <1>1, <1>2, PTL

=============================================================================
