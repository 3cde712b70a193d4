------------------------- MODULE SpawnClient_proofs -------------------------
(***************************************************************************)
(* Theorems about the client of a process: the descriptors of one that     *)
(* starts others, for every number of descriptors, pipes and notes of      *)
(* restore_pipes, and its request channel, for any number of threads and   *)
(* requests.                                                               *)
(***************************************************************************)
EXTENDS SpawnClient, SendRequest, FiniteSetTheorems, WellFoundedInduction, TLAPS

-----------------------------------------------------------------------------
(* The request channel: a thread gets the reply to its own request, and    *)
(* handle_reply never touches a reply that is gone.                        *)

\* The handlers registered are those of the requests that are under way.
HandlersOK ==
    /\ \A n \in DOMAIN handlers : pc[handlers[n]] # "idle" /\ id[handlers[n]] = n
    /\ \A t \in Thread : pc[t] # "idle" => id[t] \in DOMAIN handlers /\ handlers[id[t]] = t

\* A reply to come belongs to a thread that waits, or is about to wait, for it.
Outstanding(r) == r = Sent(r.from) /\ pc[r.from] \in {"posted", "waiting"}

PendingOK == \A r \in pending : Outstanding(r)
InboxOK   == \A i \in 1 .. Len(inbox) : Outstanding(inbox[i])
RunningOK == running # NoThread =>
                /\ message \in Request /\ Outstanding(message)
                /\ message.from = running

\* A request is in one place, once.
OnePlace ==
    /\ \A i \in 1 .. Len(inbox) : inbox[i] \notin pending
    /\ \A i, j \in 1 .. Len(inbox) : inbox[i] = inbox[j] => i = j
    /\ running # NoThread =>
          /\ message \notin pending
          /\ \A i \in 1 .. Len(inbox) : inbox[i] # message

ChannelInv == ChannelTypeOK /\ HandlersOK /\ PendingOK /\ InboxOK /\ RunningOK /\ OnePlace /\ OwnReply

-----------------------------------------------------------------------------
\* The state at the start satisfies the invariant.
LEMMA ChannelInitOK == ChannelInit => ChannelInv
BY SendRequestAssumption
DEF ChannelInit, ChannelInv, ChannelTypeOK, HandlersOK, PendingOK, InboxOK, RunningOK, OnePlace, OwnReply

\* get_request_id and the registration of the handler keep the invariant: the
\* number is one that no handler has.
LEMMA RegisterOK == ASSUME ChannelInv, NEW t \in Thread, Register(t) PROVE ChannelInv'
<1> USE DEF ChannelInv, ChannelTypeOK, Register, NextId
<1> USE SendRequestAssumption
<1>1. req_id + 1 \notin DOMAIN handlers /\ id' = [id EXCEPT ![t] = req_id + 1]
  OBVIOUS
<1>2. ChannelTypeOK'
  OBVIOUS
<1>3. \A u \in Thread : u # t => pc'[u] = pc[u] /\ id'[u] = id[u] /\ result_var'[u] = result_var[u]
  OBVIOUS
<1>4. pc'[t] = "registered" /\ id'[t] = req_id + 1 /\ pc[t] = "idle"
  OBVIOUS
<1>5. HandlersOK'
  <2>1. ASSUME NEW n \in DOMAIN handlers' PROVE pc'[handlers'[n]] # "idle" /\ id'[handlers'[n]] = n
    <3>1. CASE n = req_id + 1
      BY <1>4, <3>1
    <3>2. CASE n # req_id + 1
      <4>1. n \in DOMAIN handlers /\ handlers'[n] = handlers[n] /\ handlers[n] \in Thread
        BY <3>2
      <4>2. handlers[n] # t
        BY <1>4, <4>1 DEF HandlersOK
      <4> QED
        BY <1>3, <4>1, <4>2 DEF HandlersOK
    <3> QED
      BY <3>1, <3>2
  <2>2. ASSUME NEW u \in Thread, pc'[u] # "idle"
        PROVE id'[u] \in DOMAIN handlers' /\ handlers'[id'[u]] = u
    <3>1. CASE u = t
      BY <1>4, <3>1
    <3>2. CASE u # t
      <4>1. id[u] \in DOMAIN handlers /\ handlers[id[u]] = u /\ id'[u] = id[u]
        BY <1>3, <2>2, <3>2 DEF HandlersOK
      <4> QED
        BY <1>1, <4>1
    <3> QED
      BY <3>1, <3>2
  <2> QED
    BY <2>1, <2>2 DEF HandlersOK
<1>6. ASSUME NEW r \in Request, Outstanding(r) PROVE Outstanding(r)'
  BY <1>3, <1>4, <1>6 DEF Outstanding, Sent, Request
<1>7. PendingOK' /\ InboxOK' /\ RunningOK'
  BY <1>6 DEF PendingOK, InboxOK, RunningOK
<1>8. OnePlace'
  BY DEF OnePlace
<1>9. OwnReply'
  BY <1>3, <1>4 DEF OwnReply, Sent
<1> QED
  BY <1>2, <1>5, <1>7, <1>8, <1>9 DEF ChannelInv

\* A step of a thread that leaves its request in place: it stays outstanding.
LEMMA PostOK == ASSUME ChannelInv, NEW t \in Thread, Post(t) PROVE ChannelInv'
<1> USE DEF ChannelInv, ChannelTypeOK, Post
<1>1. \A u \in Thread : u # t => pc'[u] = pc[u]
  OBVIOUS
<1>2. pc'[t] = "posted" /\ pc[t] = "registered"
  OBVIOUS
<1>3. Sent(t) \in Request /\ Sent(t).from = t
  BY DEF Sent, Request
<1>4. ChannelTypeOK'
  BY <1>3
<1>5. HandlersOK'
  BY <1>1, <1>2 DEF HandlersOK
<1>6. ASSUME NEW r \in Request, Outstanding(r) PROVE Outstanding(r)' /\ r # Sent(t)
  BY <1>1, <1>2, <1>3, <1>6 DEF Outstanding, Sent, Request
<1>7. ASSUME NEW r \in Request, r = Sent(t) PROVE Outstanding(r)'
  BY <1>2, <1>3, <1>7 DEF Outstanding, Sent
<1>8. PendingOK' /\ InboxOK' /\ RunningOK'
  <2>1. PendingOK'
    <3>1. ASSUME NEW r \in pending' PROVE Outstanding(r)'
      <4>1. CASE r = Sent(t)
        BY <1>3, <1>7, <4>1
      <4>2. CASE r \in pending
        BY <1>6, <4>2 DEF PendingOK
      <4> QED
        BY <3>1, <4>1, <4>2
    <3> QED
      BY <3>1 DEF PendingOK
  <2>2. InboxOK'
    BY <1>6 DEF InboxOK
  <2>3. RunningOK'
    BY <1>6 DEF RunningOK
  <2> QED
    BY <2>1, <2>2, <2>3
<1>9. OnePlace'
  <2>1. \A i \in 1 .. Len(inbox) : inbox[i] \in Request /\ inbox[i] # Sent(t)
    BY <1>6 DEF InboxOK
  <2>2. running # NoThread => message # Sent(t)
    BY <1>6 DEF RunningOK
  <2> QED
    BY <2>1, <2>2 DEF OnePlace
<1>10. OwnReply'
  BY <1>1, <1>2 DEF OwnReply, Sent
<1> QED
  BY <1>4, <1>5, <1>8, <1>9, <1>10 DEF ChannelInv

\* Going to sleep changes nothing that the replies depend on.
LEMMA WaitOK == ASSUME ChannelInv, NEW t \in Thread, Wait(t) PROVE ChannelInv'
<1> USE DEF ChannelInv, ChannelTypeOK, Wait
<1>1. \A u \in Thread : u # t => pc'[u] = pc[u]
  OBVIOUS
<1>2. pc'[t] = "waiting" /\ pc[t] = "posted"
  OBVIOUS
<1>3. ChannelTypeOK' /\ HandlersOK'
  BY <1>1, <1>2 DEF HandlersOK
<1>4. ASSUME NEW r \in Request, Outstanding(r) PROVE Outstanding(r)'
  BY <1>1, <1>2, <1>4 DEF Outstanding, Sent, Request
<1>5. PendingOK' /\ InboxOK' /\ RunningOK' /\ OnePlace'
  BY <1>4 DEF PendingOK, InboxOK, RunningOK, OnePlace
<1>6. OwnReply'
  BY <1>1, <1>2 DEF OwnReply, Sent
<1> QED
  BY <1>3, <1>5, <1>6 DEF ChannelInv

\* A thread only returns when nothing is to come for it any more.
LEMMA ReturnOK == ASSUME ChannelInv, NEW t \in Thread, Return(t) PROVE ChannelInv'
<1> USE DEF ChannelInv, ChannelTypeOK, Return
<1>1. \A u \in Thread : u # t => pc'[u] = pc[u]
  OBVIOUS
<1>2. pc'[t] = "idle" /\ pc[t] = "signalled"
  OBVIOUS
<1>3. ChannelTypeOK'
  OBVIOUS
<1>4. HandlersOK'
  BY <1>1, <1>2 DEF HandlersOK
<1>5. ASSUME NEW r \in Request, Outstanding(r) PROVE Outstanding(r)'
  BY <1>1, <1>2, <1>5 DEF Outstanding, Sent, Request
<1>6. PendingOK' /\ InboxOK' /\ RunningOK' /\ OnePlace'
  BY <1>5 DEF PendingOK, InboxOK, RunningOK, OnePlace
<1>7. OwnReply'
  BY <1>1, <1>2 DEF OwnReply, Sent
<1> QED
  BY <1>3, <1>4, <1>6, <1>7 DEF ChannelInv

\* The page moves a request from pending to the inbox.
LEMMA AnswerOK == ASSUME ChannelInv, NEW r \in pending, Answer(r) PROVE ChannelInv'
<1> USE DEF ChannelInv, ChannelTypeOK, Answer
<1>1. /\ Len(inbox') = Len(inbox) + 1
      /\ \A i \in 1 .. Len(inbox) : inbox'[i] = inbox[i]
      /\ inbox'[Len(inbox) + 1] = r
  OBVIOUS
<1>2. ChannelTypeOK'
  OBVIOUS
<1>3. HandlersOK' /\ OwnReply'
  BY DEF HandlersOK, OwnReply, Sent
<1>4. \A q : Outstanding(q)' <=> Outstanding(q)
  BY DEF Outstanding, Sent
<1>5. PendingOK' /\ InboxOK' /\ RunningOK'
  BY <1>1, <1>4 DEF PendingOK, InboxOK, RunningOK
<1>6. OnePlace'
  BY <1>1 DEF OnePlace
<1> QED
  BY <1>2, <1>3, <1>5, <1>6 DEF ChannelInv

\* The handler found for a reply is the one of the thread that sent the request.
LEMMA DispatchOK == ASSUME ChannelInv, Dispatch PROVE ChannelInv'
<1> USE DEF ChannelInv, ChannelTypeOK, Dispatch
<1> DEFINE r == Head(inbox)
<1>1. /\ Len(inbox) > 0 /\ r = inbox[1] /\ r \in Request
      /\ Len(inbox') = Len(inbox) - 1
      /\ \A i \in 1 .. Len(inbox') : inbox'[i] = inbox[i + 1]
  OBVIOUS
<1>2. Outstanding(r)
  BY SMTT(30), <1>1 DEF InboxOK
<1>3. r.from \in Thread /\ r.id = id[r.from] /\ pc[r.from] # "idle"
  BY <1>1, <1>2 DEF Outstanding, Sent, Request
<1>4. r.id \in DOMAIN handlers /\ handlers[r.id] = r.from
  BY <1>3 DEF HandlersOK
<1>5. running' = r.from /\ message' = r
  BY <1>4
<1>6. ChannelTypeOK'
  BY <1>1, <1>3, <1>5
<1>7. HandlersOK' /\ OwnReply'
  BY DEF HandlersOK, OwnReply, Sent
<1>8. \A q : Outstanding(q)' <=> Outstanding(q)
  BY DEF Outstanding, Sent
<1>9. PendingOK' /\ InboxOK' /\ RunningOK'
  BY <1>1, <1>2, <1>5, <1>8 DEF PendingOK, InboxOK, RunningOK
<1>10. OnePlace'
  BY <1>1, <1>5 DEF OnePlace
<1> QED
  BY <1>6, <1>7, <1>9, <1>10 DEF ChannelInv

\* handle_reply stores the reply of the thread it wakes, and nothing else that
\* is to come is for this thread.
LEMMA HandleReplyOK == ASSUME ChannelInv, HandleReply PROVE ChannelInv'
<1> USE DEF ChannelInv, ChannelTypeOK, HandleReply
<1> DEFINE t == running
<1>1. t \in Thread /\ message \in Request /\ message = Sent(t) /\ pc[t] \in {"posted", "waiting"}
  BY DEF RunningOK, Outstanding, Sent
<1>2. \A u \in Thread : u # t => pc'[u] = pc[u] /\ result_var'[u] = result_var[u]
  OBVIOUS
<1>3. /\ result_var'[t] = Sent(t)
      /\ pc'[t] = (IF pc[t] = "waiting" THEN "signalled" ELSE pc[t])
  BY <1>1
<1>4. ChannelTypeOK'
  BY <1>1, <1>3
<1>5. HandlersOK'
  BY <1>1, <1>2, <1>3 DEF HandlersOK
<1>6. ASSUME NEW r \in Request, Outstanding(r), r # message PROVE Outstanding(r)'
  <2>1. r.from \in Thread /\ r.from # t
    BY <1>1, <1>6 DEF Outstanding, Sent, Request
  <2> QED
    BY <1>2, <1>6, <2>1 DEF Outstanding, Sent
<1>7. PendingOK' /\ InboxOK' /\ RunningOK'
  BY <1>6 DEF PendingOK, InboxOK, RunningOK, OnePlace
<1>8. OnePlace'
  BY DEF OnePlace
<1>9. OwnReply'
  BY <1>1, <1>2, <1>3 DEF OwnReply, Sent
<1> QED
  BY <1>4, <1>5, <1>7, <1>8, <1>9 DEF ChannelInv

-----------------------------------------------------------------------------
\* The invariant holds in every reachable state of the channel.
THEOREM ChannelInvariance == ChannelSpec => []ChannelInv
<1>1. ChannelInit => ChannelInv
  BY ChannelInitOK
<1>2. ChannelInv /\ [ChannelNext]_channel => ChannelInv'
  <2> SUFFICES ASSUME ChannelInv, [ChannelNext]_channel PROVE ChannelInv'
    OBVIOUS
  <2>1. CASE \E t \in Thread : Send(t)
    BY <2>1, RegisterOK, PostOK, WaitOK, ReturnOK DEF Send
  <2>2. CASE \E r \in pending : Answer(r)
    BY <2>2, AnswerOK
  <2>3. CASE Dispatch
    BY <2>3, DispatchOK
  <2>4. CASE HandleReply
    BY <2>4, HandleReplyOK
  <2>5. CASE UNCHANGED channel
    BY <2>5 DEF ChannelInv, ChannelTypeOK, HandlersOK, PendingOK, InboxOK, RunningOK, OnePlace,
                OwnReply, Outstanding, Sent, channel
  <2> QED
    BY <2>1, <2>2, <2>3, <2>4, <2>5 DEF ChannelNext
<1> QED
  BY <1>1, <1>2, PTL DEF ChannelSpec

\* A thread that is woken finds the reply to its own request.
THEOREM RepliesAreOwn == ChannelSpec => []OwnReply
<1>1. ChannelInv => OwnReply
  BY DEF ChannelInv
<1> QED
  BY <1>1, ChannelInvariance, PTL

\* handle_reply never works on a reply that is gone or belongs to another request.
THEOREM RepliesAreAlive == ChannelSpec => []ReplyAlive
<1>1. ChannelInv => ReplyAlive
  BY DEF ChannelInv, ChannelTypeOK, RunningOK, ReplyAlive, Outstanding
<1> QED
  BY <1>1, ChannelInvariance, PTL

-----------------------------------------------------------------------------
(* The descriptors of a process that starts others.                        *)

USE SpawnClientAssumption

-----------------------------------------------------------------------------
(* Descriptors and files *)

LEMMA FilesDiffer ==
    /\ None \notin Ends /\ Tty \notin Ends /\ None # Tty
    /\ None \in File /\ Tty \in File /\ Ends \subseteq File
  BY DEF None, Tty, Ends, End, File

LEMMA Slots ==
    /\ All \subseteq Nat /\ Fd \subseteq All
    /\ \A f \in Fd : f + MaxFd \in All /\ f + MaxFd \notin Fd /\ ~(f >= MaxFd)
    /\ \A f \in All \ Fd : f >= MaxFd /\ f - MaxFd \in Fd /\ f - MaxFd + MaxFd = f
    /\ \A f \in Fd : f + MaxFd >= MaxFd /\ f + MaxFd - MaxFd = f
  BY DEF All, Fd

Lower == {ss \in Nat \X Nat : ss[1] < ss[2]}

LEMMA Least ==
    ASSUME NEW T, T \subseteq Nat, T # {}
    PROVE  \E x \in T : \A y \in T : x <= y
<1>1. IsWellFoundedOn(Lower, Nat)
  BY NatLessThanWellFounded, Zenon DEF OpToRel, Lower
<1>2. PICK x \in T : \A y \in T : ~(<<y, x>> \in Lower)
  BY <1>1, WFMin
<1>3. \A y \in T : ~(y < x)
  BY <1>2 DEF Lower
<1> QED
  BY <1>3

LEMMA MinIs ==
    ASSUME NEW T, T \subseteq Nat, T # {}
    PROVE  Min(T) \in T /\ \A y \in T : Min(T) <= y
<1>1. \E x \in T : \A y \in T : x <= y
  BY Least
<1> QED
  BY <1>1, Zenon DEF Min

\* The lowest free descriptor is free, and not above any other that is.
LEMMA LowestIs ==
    ASSUME NEW t \in [All -> File], NEW f \in All, t[f] = None
    PROVE  Lowest(t) \in All /\ t[Lowest(t)] = None /\ Lowest(t) <= f
<1> DEFINE T == DOMAIN t \ Opened(t)
<1>1. T \subseteq All /\ f \in T /\ \A g \in T : t[g] = None
  BY DEF Opened
<1>2. T \subseteq Nat /\ T # {}
  BY <1>1, Slots
<1>3. Lowest(t) = Min(T)
  BY DEF Lowest
<1> HIDE DEF T
<1>4. Min(T) \in T /\ \A y \in T : Min(T) <= y
  BY <1>2, MinIs
<1> QED
  BY <1>1, <1>3, <1>4

-----------------------------------------------------------------------------
(* What restore_pipes makes of the entries *)

\* At most one pipe for a descriptor.
Entries(E) ==
    /\ E \subseteq Fd \X Ends
    /\ \A e, d \in E : e[1] = d[1] => e = d

LEMMA CloneIs ==
    ASSUME fds \in [All -> File]
    PROVE  /\ Entries(CloneFileDescriptors)
           /\ \A e \in CloneFileDescriptors : e[2] \in EndsIn(fds, All)
<1>1. \A e \in CloneFileDescriptors : \E f \in Fd : e = <<f, fds[f]>> /\ fds[f] \in Ends
  BY DEF CloneFileDescriptors
<1>2. Entries(CloneFileDescriptors)
  BY <1>1 DEF Entries
<1>3. \A e \in CloneFileDescriptors : e[2] \in EndsIn(fds, All)
  BY <1>1, Slots DEF EndsIn
<1> QED
  BY <1>2, <1>3

State == [got : [All -> File], old : Seq(Fd \X Ends), ok : BOOLEAN]

\* After the entries below n.
Restoring(E, n, s) ==
    /\ s \in State
    /\ \A f \in All \ Fd : s.got[f] = None
    /\ \A f \in All : s.got[f] \in Ends => <<f, s.got[f]>> \in E
    /\ s.ok => \A e \in E : e[1] < n => s.got[e[1]] = e[2]
    /\ \A i \in DOMAIN s.old : s.old[i] \in E /\ s.old[i][1] < n
    /\ \A i, j \in DOMAIN s.old : s.old[i][2] = s.old[j][2] => i = j
    /\ ~s.ok => Len(s.old) > MaxOldPipes

\* One entry puts its file at its descriptor and leaves the others alone.
LEMMA EntryGets ==
    ASSUME NEW E, Entries(E), NEW n \in Fd, NEW s, Restoring(E, n, s), s.ok,
           NEW e \in E, e[1] = n
    PROVE  LET r == RestoreEntry(s, e)
               old == {i \in DOMAIN s.old : s.old[i][2] = e[2]}
           IN  /\ r \in State
               /\ r.got = [s.got EXCEPT ![n] = e[2]]
               /\ old # {} => r.old = s.old /\ r.ok
               /\ old = {} => r.old = Append(s.old, e) /\ (r.ok <=> Len(s.old) < MaxOldPipes)
<1> DEFINE old == {i \in DOMAIN s.old : s.old[i][2] = e[2]}
           tmp == Lowest(s.got)
           new == [s.got EXCEPT ![tmp] = e[2]]
           got == [s.got EXCEPT ![n] = e[2]]
<1>1. /\ s \in State /\ s.got \in [All -> File] /\ s.old \in Seq(Fd \X Ends)
      /\ e \in Fd \X Ends /\ e[2] \in File /\ n \in All
  BY Slots, FilesDiffer DEF Restoring, Entries, State
<1>2. got \in [All -> File]
  BY <1>1
<1>3. CASE old # {}
  <2>1. Min(old) \in old
    <3>1. old \subseteq Nat
      BY <1>1
    <3> HIDE DEF old
    <3> QED
      BY <1>3, <3>1, MinIs
  <2>2. s.got[s.old[Min(old)][1]] = e[2]
    BY <2>1 DEF Restoring
  <2>3. RestoreEntry(s, e) = [s EXCEPT !.got = Dup(s.got, s.old[Min(old)][1], n)]
    BY <1>3 DEF RestoreEntry
  <2>4. Dup(s.got, s.old[Min(old)][1], n) = got
    BY <2>2 DEF Dup
  <2> HIDE DEF got, old
  <2>5. RestoreEntry(s, e) = [s EXCEPT !.got = got]
    BY <2>3, <2>4
  <2>6. [s EXCEPT !.got = got] \in State /\ [s EXCEPT !.got = got].got = got
        /\ [s EXCEPT !.got = got].old = s.old /\ [s EXCEPT !.got = got].ok
    BY <1>1, <1>2 DEF State
  <2> QED
    BY <1>3, <2>5, <2>6 DEF got, old
<1>4. CASE old = {}
  <2>1. tmp \in All /\ s.got[tmp] = None
    <3>1. n + MaxFd \in All /\ s.got[n + MaxFd] = None
      BY Slots DEF Restoring
    <3> QED
      BY <1>1, <3>1, LowestIs
  <2> DEFINE put == IF tmp # n THEN Shut(Dup(new, tmp, n), tmp) ELSE new
             more == Append(s.old, e)
             fits == Len(s.old) < MaxOldPipes
  <2>2. put = got
    <3> HIDE DEF tmp
    <3>1. CASE tmp = n
      BY <3>1
    <3>2. CASE tmp # n
      <4>1. put = [[[s.got EXCEPT ![tmp] = e[2]] EXCEPT ![n] = e[2]] EXCEPT ![tmp] = None]
        BY <1>1, <2>1, <3>2 DEF Shut, Dup
      <4>2. \A f \in All : put[f] = got[f]
        BY <1>1, <2>1, <3>2, <4>1
      <4>3. put \in [All -> File]
        BY <1>1, <2>1, <4>1, FilesDiffer
      <4> HIDE DEF put, got
      <4> QED
        BY <1>2, <4>2, <4>3
    <3> QED
      BY <3>1, <3>2
  <2>3. RestoreEntry(s, e) = [got |-> put, old |-> more, ok |-> fits]
    BY <1>4 DEF RestoreEntry
  <2>4. more \in Seq(Fd \X Ends) /\ fits \in BOOLEAN
    BY <1>1
  <2> HIDE DEF put, more, fits, got, old, new, tmp
  <2>5. RestoreEntry(s, e) = [got |-> got, old |-> more, ok |-> fits]
    BY <2>2, <2>3
  <2>6. RestoreEntry(s, e) \in State
    BY <1>2, <2>4, <2>5 DEF State
  <2>7. /\ RestoreEntry(s, e).got = got /\ RestoreEntry(s, e).old = more
        /\ RestoreEntry(s, e).ok = fits
    BY <2>5
  <2> QED
    BY <1>4, <2>6, <2>7 DEF got, old, more, fits
<1> QED
  BY <1>3, <1>4

LEMMA EntryRestores ==
    ASSUME NEW E, Entries(E), NEW n \in Fd, NEW s, Restoring(E, n, s),
           NEW e \in E, e[1] = n
    PROVE  Restoring(E, n + 1, RestoreEntry(s, e))
<1> DEFINE old == {i \in DOMAIN s.old : s.old[i][2] = e[2]}
<1>k. PICK k : k = n + 1
  OBVIOUS
<1>r. PICK r : r = RestoreEntry(s, e)
  OBVIOUS
<1> SUFFICES Restoring(E, k, r)
  BY <1>k, <1>r
<1>1. /\ n \in Nat /\ n \in All
      /\ s.got \in [All -> File] /\ s.old \in Seq(Fd \X Ends) /\ s.ok \in BOOLEAN
      /\ e \in Fd \X Ends /\ e = <<n, e[2]>>
  <2>1. n \in Nat /\ n \in All /\ e \in Fd \X Ends
    BY Slots DEF Entries
  <2>2. s.got \in [All -> File] /\ s.old \in Seq(Fd \X Ends) /\ s.ok \in BOOLEAN
    BY DEF Restoring, State
  <2> QED
    BY <2>1, <2>2
<1>2. \A d \in E : d[1] \in Nat /\ (d[1] < k <=> d[1] < n \/ d = e)
  <2>1. \A d \in E : d[1] \in Nat /\ (d[1] = n <=> d = e)
    BY Slots DEF Entries
  <2>2. \A j \in Nat : j < k <=> j < n \/ j = n
    BY <1>1, <1>k
  <2> QED
    BY <2>1, <2>2, Zenon
<1>3. CASE ~s.ok
  <2>1. r = s
    BY <1>3, <1>r DEF RestoreEntry
  <2>2. \A i \in DOMAIN s.old : s.old[i] \in E /\ s.old[i][1] < k
    BY <1>2 DEF Restoring
  <2> QED
    BY <1>3, <2>1, <2>2 DEF Restoring
<1>4. CASE s.ok
  <2>1. /\ r \in State
        /\ r.got = [s.got EXCEPT ![n] = e[2]]
        /\ old # {} => r.old = s.old /\ r.ok
        /\ old = {} => r.old = Append(s.old, e) /\ (r.ok <=> Len(s.old) < MaxOldPipes)
    BY <1>4, <1>r, EntryGets
  <2>2. /\ \A f \in All \ Fd : r.got[f] = None
        /\ \A f \in All : r.got[f] \in Ends => <<f, r.got[f]>> \in E
    <3>1. /\ \A f \in All \ Fd : s.got[f] = None
          /\ \A f \in All : s.got[f] \in Ends => <<f, s.got[f]>> \in E
      BY DEF Restoring
    <3>2. \A f \in All : r.got[f] = IF f = n THEN e[2] ELSE s.got[f]
      BY <1>1, <2>1
    <3>3. <<n, e[2]>> \in E
      BY <1>1
    <3> QED
      BY <3>1, <3>2, <3>3, Zenon
  <2>3. \A d \in E : d[1] < k => r.got[d[1]] = d[2]
    <3>1. \A d \in E : d[1] \in All /\ (d[1] < n => s.got[d[1]] = d[2] /\ d[1] # n)
      <4>1. \A d \in E : d[1] \in Fd
        BY DEF Entries
      <4>2. \A i \in Nat : i < n => i # n
        BY <1>1
      <4> QED
        BY <1>2, <1>4, <4>1, <4>2, Slots DEF Restoring
    <3> QED
      BY <1>1, <1>2, <2>1, <3>1
  <2>4. CASE old # {}
    <3>1. \A i \in DOMAIN s.old : s.old[i] \in E /\ s.old[i][1] < k
      BY <1>2 DEF Restoring
    <3>2. /\ \A i, j \in DOMAIN s.old : s.old[i][2] = s.old[j][2] => i = j
          /\ r.old = s.old /\ r.ok
      BY <2>1, <2>4 DEF Restoring
    <3>3. /\ r \in State
          /\ \A i \in DOMAIN r.old : r.old[i] \in E /\ r.old[i][1] < k
          /\ \A i, j \in DOMAIN r.old : r.old[i][2] = r.old[j][2] => i = j
          /\ r.ok => \A d \in E : d[1] < k => r.got[d[1]] = d[2]
          /\ ~r.ok => Len(r.old) > MaxOldPipes
      BY ONLY <2>1, <2>3, <3>1, <3>2
    <3> QED
      BY ONLY <2>2, <3>3, Zenon DEF Restoring
  <2>5. CASE old = {}
    <3>1. r.old = Append(s.old, e) /\ (r.ok <=> Len(s.old) < MaxOldPipes)
      BY <2>1, <2>5
    <3>2. \A i \in DOMAIN s.old : s.old[i] \in E /\ s.old[i][1] < k /\ s.old[i][2] # e[2]
      BY <1>2, <2>5 DEF Restoring
    <3>3. \A i \in DOMAIN r.old : \/ i \in DOMAIN s.old /\ r.old[i] = s.old[i]
                                  \/ i = Len(s.old) + 1 /\ r.old[i] = e
      BY <1>1, <3>1
    <3>4. \A i \in DOMAIN r.old : r.old[i] \in E /\ r.old[i][1] < k
      BY <1>1, <1>2, <3>2, <3>3
    <3>5. \A i, j \in DOMAIN r.old : r.old[i][2] = r.old[j][2] => i = j
      <4>1. \A i, j \in DOMAIN s.old : s.old[i][2] = s.old[j][2] => i = j
        BY DEF Restoring
      <4> HIDE DEF old
      <4> QED
        BY <3>2, <3>3, <4>1, Zenon
    <3>6. ~r.ok => Len(r.old) > MaxOldPipes
      <4>1. Len(r.old) = Len(s.old) + 1 /\ Len(s.old) \in Nat
        BY <1>1, <3>1
      <4> QED
        BY <3>1, <4>1
    <3>7. r \in State /\ (r.ok => \A d \in E : d[1] < k => r.got[d[1]] = d[2])
      BY <2>1, <2>3
    <3> QED
      BY ONLY <2>2, <3>4, <3>5, <3>6, <3>7, Zenon DEF Restoring
  <2> QED
    BY <2>4, <2>5
<1> QED
  BY <1>1, <1>3, <1>4

\* The function of restore_pipes, up to k.
Start == [got |-> Fresh, old |-> <<>>, ok |-> TRUE]

NextEntry(E, g, n) ==
    IF n = 0 THEN Start
    ELSE IF \E e \in E : e[1] = n - 1
         THEN RestoreEntry(g[n - 1], CHOOSE e \in E : e[1] = n - 1)
         ELSE g[n - 1]

Restores(E, g, k) == g = [n \in 0 .. k |-> NextEntry(E, g, n)]

LEMMA RestoresIs ==
    ASSUME NEW E, NEW g, NEW k, Restores(E, g, k), NEW n \in 0 .. k
    PROVE  g[n] = NextEntry(E, g, n)
  BY DEF Restores

LEMMA RestoresExists ==
    ASSUME NEW E, NEW n \in Nat
    PROVE  \E g : Restores(E, g, n)
<1> DEFINE T == {k \in Nat : ~\E g : Restores(E, g, k)}
<1> SUFFICES ASSUME T # {} PROVE FALSE
  OBVIOUS
<1>1. T \subseteq Nat
  OBVIOUS
<1>2. PICK m \in T : \A k \in T : m <= k
  <2> HIDE DEF T
  <2> QED
    BY <1>1, Least
<1>3. m # 0
  <2> DEFINE g == [i \in 0 .. 0 |-> Start]
  <2>1. \A i \in 0 .. 0 : g[i] = NextEntry(E, g, i)
    BY DEF NextEntry
  <2>2. g = [i \in 0 .. 0 |-> g[i]]
    OBVIOUS
  <2> HIDE DEF g
  <2>3. Restores(E, g, 0)
    BY <2>1, <2>2 DEF Restores
  <2> QED
    BY <2>3
<1>4. m \in Nat /\ m - 1 \in Nat /\ ~(m <= m - 1)
  BY <1>3
<1>5. PICK g : Restores(E, g, m - 1)
  BY <1>2, <1>4
<1> DEFINE h == [i \in 0 .. m |-> IF i = m THEN NextEntry(E, g, m) ELSE g[i]]
<1>6. \A i \in 0 .. m - 1 : h[i] = g[i] /\ g[i] = NextEntry(E, g, i)
  <2>1. \A i \in 0 .. m - 1 : g[i] = NextEntry(E, g, i)
    BY <1>5, RestoresIs
  <2>2. \A i \in 0 .. m - 1 : i \in 0 .. m /\ i # m
    BY <1>4
  <2> QED
    BY <2>1, <2>2
<1>7. h[m] = NextEntry(E, g, m)
  BY <1>4
<1>8. h = [i \in 0 .. m |-> h[i]]
  OBVIOUS
<1> HIDE DEF h
<1>9. ASSUME NEW i \in 0 .. m
      PROVE  h[i] = NextEntry(E, h, i)
  <2>1. i = 0 \/ i - 1 \in 0 .. m - 1
    BY <1>4
  <2>2. NextEntry(E, g, i) = NextEntry(E, h, i)
    BY <1>6, <2>1 DEF NextEntry
  <2>3. i = m \/ i \in 0 .. m - 1
    BY <1>4
  <2> QED
    BY <1>6, <1>7, <2>2, <2>3
<1>10. h = [i \in 0 .. m |-> NextEntry(E, h, i)]
  BY <1>8, <1>9
<1> QED
  BY <1>10 DEF Restores

LEMMA StartRestores ==
    ASSUME NEW E, Entries(E)
    PROVE  Restoring(E, 0, Start)
<1>1. Fresh \in [All -> File] /\ \A f \in All : Fresh[f] \notin Ends
  BY FilesDiffer DEF Fresh
<1>2. \A f \in All \ Fd : Fresh[f] = None
  <2>1. \A f \in All \ Fd : f >= MaxFd /\ f \in Nat
    BY Slots
  <2> QED
    BY <2>1 DEF Fresh
<1>3. Start \in State /\ Start.got = Fresh /\ Start.old = <<>> /\ Start.ok
  BY <1>1 DEF Start, State
<1>4. \A e \in E : ~(e[1] < 0)
  <2>1. \A e \in E : e[1] \in Fd
    BY DEF Entries
  <2>2. \A k \in Fd : ~(k < 0)
    BY DEF Fd
  <2> QED
    BY <2>1, <2>2, Zenon
<1> QED
  BY <1>1, <1>2, <1>3, <1>4 DEF Restoring

\* Whatever descriptors the entries leave out, in the order of the descriptors.
LEMMA RestoresAll ==
    ASSUME NEW E, Entries(E), NEW g, Restores(E, g, MaxFd)
    PROVE  Restoring(E, MaxFd, g[MaxFd])
<1> DEFINE T == {n \in 0 .. MaxFd : ~Restoring(E, n, g[n])}
<1> SUFFICES ASSUME T # {} PROVE FALSE
  OBVIOUS
<1>1. T \subseteq Nat
  OBVIOUS
<1>2. PICK n \in T : \A k \in T : n <= k
  <2> HIDE DEF T
  <2> QED
    BY <1>1, Least
<1>3. n \in 0 .. MaxFd /\ ~Restoring(E, n, g[n]) /\ g[n] = NextEntry(E, g, n)
  BY RestoresIs
<1>4. CASE n = 0
  BY <1>3, <1>4, StartRestores DEF NextEntry
<1>5. CASE n # 0
  <2>1. n - 1 \in 0 .. MaxFd /\ n - 1 \in Fd /\ n - 1 + 1 = n /\ ~(n <= n - 1)
    BY <1>3, <1>5 DEF Fd
  <2>2. Restoring(E, n - 1, g[n - 1])
    BY <1>2, <2>1
  <2>3. CASE \E e \in E : e[1] = n - 1
    <3>1. PICK e : e = CHOOSE d \in E : d[1] = n - 1
      OBVIOUS
    <3>2. e \in E /\ e[1] = n - 1
      BY <2>3, <3>1
    <3>3. g[n] = RestoreEntry(g[n - 1], e)
      BY <1>3, <1>5, <2>3, <3>1 DEF NextEntry
    <3>4. Restoring(E, n - 1 + 1, RestoreEntry(g[n - 1], e))
      BY <2>1, <2>2, <3>2, EntryRestores
    <3> QED
      BY <1>3, <2>1, <3>3, <3>4
  <2>4. CASE ~\E e \in E : e[1] = n - 1
    <3>1. g[n] = g[n - 1]
      BY <1>3, <1>5, <2>4 DEF NextEntry
    <3>2. \A e \in E : e[1] \in Nat
      BY Slots DEF Entries
    <3>3. \A k \in Nat : k < n => k < n - 1 \/ k = n - 1
      BY <1>3
    <3>4. \A k \in Nat : k < n - 1 => k < n
      BY <1>3
    <3>5. \A e \in E : e[1] < n <=> e[1] < n - 1
      BY <2>4, <3>2, <3>3, <3>4
    <3>6. Restoring(E, n, g[n - 1])
      BY <2>2, <3>5 DEF Restoring
    <3> QED
      BY <1>3, <3>1, <3>6
  <2> QED
    BY <2>3, <2>4
<1> QED
  BY <1>4, <1>5

\* What a new image has, if it was set up, and why it was not.
ImageOf(E, h) ==
    /\ h \in [got : [All -> File], want : SUBSET (Fd \X Ends), ok : BOOLEAN]
    /\ h.want = E
    /\ \A f \in All \ Fd : h.got[f] = None
    /\ \A f \in All : h.got[f] \in Ends => <<f, h.got[f]>> \in E
    /\ h.ok => \A e \in E : h.got[e[1]] = e[2]
    /\ ~h.ok => Cardinality({e[2] : e \in E}) > MaxOldPipes

LEMMA RestoredIs ==
    ASSUME NEW E, Entries(E)
    PROVE  Restoring(E, MaxFd, restore_pipes(E))
<1>1. PICK g : g = CHOOSE h : Restores(E, h, MaxFd)
  OBVIOUS
<1>2. \E h : Restores(E, h, MaxFd)
  BY RestoresExists
<1>3. Restores(E, g, MaxFd)
  BY <1>1, <1>2, Zenon
<1>4. restore_pipes(E) = g[MaxFd]
  BY <1>1, Zenon DEF restore_pipes, Restores, NextEntry, Start
<1>5. Restoring(E, MaxFd, g[MaxFd])
  BY <1>3, RestoresAll
<1> QED
  BY <1>4, <1>5

\* The files of the entries are finitely many.
LEMMA FilesFinite ==
    ASSUME NEW E, Entries(E)
    PROVE  IsFiniteSet({e[2] : e \in E})
<1> DEFINE D == {e[1] : e \in E}
           W == {e[2] : e \in E}
           at(f) == CHOOSE e \in E : e[1] = f
           to == [f \in D |-> at(f)[2]]
<1>1. D \subseteq 0 .. MaxFd - 1
  BY DEF Entries, Fd
<1>2. IsFiniteSet(D)
  <2>1. IsFiniteSet(0 .. MaxFd - 1)
    BY FS_Interval
  <2> HIDE DEF D
  <2> QED
    BY <1>1, <2>1, FS_Subset
<1>3. \A e \in E : at(e[1]) = e
  BY Zenon DEF Entries
<1>4. \A f \in D : to[f] \in W
  BY <1>3
<1>5. ASSUME NEW x \in W
      PROVE  \E f \in D : to[f] = x
  <2>1. PICK e \in E : x = e[2]
    OBVIOUS
  <2>2. e[1] \in D /\ to[e[1]] = x
    BY <1>3, <2>1
  <2> QED
    BY <2>2
<1> HIDE DEF D, W
<1>6. to \in Surjection(D, W)
  <2>1. to \in [D -> W]
    BY <1>4
  <2> HIDE DEF to
  <2> QED
    BY <1>5, <2>1, Zenon DEF Surjection
<1> QED
  BY <1>2, <1>6, FS_Surjection, Zenon DEF W

LEMMA NotedAreFew ==
    ASSUME NEW E, Entries(E), NEW s, Restoring(E, MaxFd, s)
    PROVE  Len(s.old) <= Cardinality({e[2] : e \in E})
<1> DEFINE I == 1 .. Len(s.old)
           W == {e[2] : e \in E}
           note == [i \in I |-> s.old[i][2]]
<1>1. s.old \in Seq(Fd \X Ends) /\ Len(s.old) \in Nat /\ I = DOMAIN s.old
  BY DEF Restoring, State
<1>2. \A i \in I : note[i] \in W
  BY <1>1 DEF Restoring
<1>3. \A i, j \in I : note[i] = note[j] => i = j
  BY <1>1 DEF Restoring
<1>4. IsFiniteSet(W)
  BY FilesFinite
<1>5. IsFiniteSet(I) /\ Cardinality(I) = Len(s.old)
  BY <1>1, FS_Interval
<1> HIDE DEF I, W
<1>6. note \in Injection(I, W)
  <2>1. note \in [I -> W]
    BY <1>2
  <2> HIDE DEF note
  <2> QED
    BY <1>3, <2>1, Zenon DEF Injection, IsInjective
<1>7. Cardinality(I) <= Cardinality(W)
  BY <1>4, <1>6, FS_Injection
<1> QED
  BY <1>5, <1>7 DEF W

LEMMA ImageIs ==
    ASSUME NEW E, Entries(E)
    PROVE  ImageOf(E, Image(E))
<1>1. PICK s : s = restore_pipes(E)
  OBVIOUS
<1>2. Restoring(E, MaxFd, s) /\ s \in State
  BY <1>1, RestoredIs DEF Restoring
<1>3. Image(E) = [got |-> s.got, want |-> E, ok |-> s.ok]
  BY <1>1 DEF Image
<1>4. Image(E).got = s.got /\ Image(E).want = E /\ Image(E).ok = s.ok
  BY <1>3
<1>5. Image(E) \in [got : [All -> File], want : SUBSET (Fd \X Ends), ok : BOOLEAN]
  BY <1>2, <1>3 DEF State, Entries
<1>6. s.ok => \A e \in E : s.got[e[1]] = e[2]
  <2>1. \A e \in E : e[1] < MaxFd
    BY DEF Entries, Fd
  <2> QED
    BY <1>2, <2>1 DEF Restoring
<1>7. ~s.ok => Cardinality({e[2] : e \in E}) > MaxOldPipes
  <2>1. Len(s.old) <= Cardinality({e[2] : e \in E})
    BY <1>2, NotedAreFew
  <2>2. ~s.ok => Len(s.old) > MaxOldPipes
    BY <1>2 DEF Restoring
  <2>3. Len(s.old) \in Nat /\ Cardinality({e[2] : e \in E}) \in Nat
    BY <1>2, FilesFinite, FS_CardinalityType DEF State
  <2> QED
    BY <2>1, <2>2, <2>3
<1>8. /\ \A f \in All \ Fd : s.got[f] = None
      /\ \A f \in All : s.got[f] \in Ends => <<f, s.got[f]>> \in E
  BY <1>2 DEF Restoring
<1> QED
  BY <1>4, <1>5, <1>6, <1>7, <1>8 DEF ImageOf

-----------------------------------------------------------------------------
(* The inductive invariant *)

\* In a vfork the upper slots hold what the lower ones held when it began; otherwise
\* they are empty.
Stashed ==
    /\ vforking  => \A f \in Fd : fds[f + MaxFd] = saved[f]
    /\ ~vforking => \A f \in Fd : fds[f + MaxFd] = None /\ saved[f] = None

\* The server counts whatever file has a descriptor or a slot of the stash.
Counted == EndsIn(fds, All) \subseteq server

HeirIs == heir = Nobody \/ (Entries(heir.want) /\ ImageOf(heir.want, heir))

IInv == TypeOK /\ Stashed /\ Counted /\ HeirIs

LEMMA FreshIs ==
    /\ Fresh \in [All -> File]
    /\ \A f \in All : Fresh[f] \notin Ends
    /\ \A f \in All \ Fd : Fresh[f] = None
<1>1. \A f \in All \ Fd : f >= MaxFd /\ f \in Nat
  BY Slots
<1> QED
  BY <1>1, FilesDiffer DEF Fresh

LEMMA NobodyIs ==
    Nobody \in [got : [All -> File], want : SUBSET (Fd \X Ends), ok : BOOLEAN]
  BY FreshIs DEF Nobody

LEMMA HeirTyped ==
    ASSUME HeirIs
    PROVE  heir \in [got : [All -> File], want : SUBSET (Fd \X Ends), ok : BOOLEAN]
  BY NobodyIs DEF HeirIs, ImageOf

\* The image of the descriptors of the process.
LEMMA HeirOfClone ==
    ASSUME TypeOK, heir' = Nobody \/ heir' = Image(CloneFileDescriptors)
    PROVE  HeirIs' /\ heir' \in [got : [All -> File], want : SUBSET (Fd \X Ends), ok : BOOLEAN]
<1>1. CASE heir' = Nobody
  BY <1>1, NobodyIs DEF HeirIs
<1>2. CASE heir' = Image(CloneFileDescriptors)
  <2>1. Entries(CloneFileDescriptors)
    BY CloneIs DEF TypeOK
  <2>2. ImageOf(CloneFileDescriptors, heir')
    BY <1>2, <2>1, ImageIs
  <2> QED
    BY <2>1, <2>2 DEF HeirIs, ImageOf
<1> QED
  BY <1>1, <1>2

\* The files that lose their last descriptor are released, and no other.
LEMMA ReleaseCounts ==
    ASSUME server \subseteq Ends, Counted, Released,
           \A f \in All : fds'[f] = None \/ \E g \in All : fds'[f] = fds[g]
    PROVE  Counted' /\ server' \subseteq Ends
<1>1. EndsIn(fds', All) \subseteq EndsIn(fds, All)
  <2>1. ASSUME NEW x \in EndsIn(fds', All)
        PROVE  x \in EndsIn(fds, All)
    <3>1. x \in Ends /\ \E f \in All : x = fds'[f]
      BY <2>1 DEF EndsIn
    <3>2. \E g \in All : x = fds[g]
      BY <3>1, FilesDiffer
    <3> QED
      BY <3>1, <3>2 DEF EndsIn
  <2> QED
    BY <2>1
<1> QED
  BY <1>1 DEF Counted, Released

LEMMA SameFilesCount ==
    ASSUME Counted, server' = server,
           \A f \in All : fds'[f] = None \/ \E g \in All : fds'[f] = fds[g]
    PROVE  Counted'
<1>1. ASSUME NEW x \in EndsIn(fds', All)
      PROVE  x \in EndsIn(fds, All)
  <2>1. x \in Ends /\ \E f \in All : x = fds'[f]
    BY <1>1 DEF EndsIn
  <2>2. \E g \in All : x = fds[g]
    BY <2>1, FilesDiffer
  <2> QED
    BY <2>1, <2>2 DEF EndsIn
<1> QED
  BY <1>1 DEF Counted

LEMMA InitInv == Init => IInv
<1> SUFFICES ASSUME Init PROVE IInv
  OBVIOUS
<1>1. TypeOK
  <2>1. fds \in [All -> File] /\ saved \in [Fd -> File]
    BY FreshIs, FilesDiffer DEF Init
  <2>2. heir \in [got : [All -> File], want : SUBSET (Fd \X Ends), ok : BOOLEAN]
    BY NobodyIs DEF Init
  <2>3. /\ cloexec = {} /\ vforking = FALSE /\ vforkPid = "-1"
        /\ mode = "runs" /\ pipes = 0 /\ server = {}
    BY DEF Init
  <2>4. pipes \in 0 .. MaxPipes
    BY <2>3
  <2> QED
    BY ONLY <2>1, <2>2, <2>3, <2>4 DEF TypeOK
<1>2. Stashed
  BY Slots, FreshIs DEF Init, Stashed
<1>3. Counted
  BY FreshIs DEF Init, Counted, EndsIn
<1> QED
  BY <1>1, <1>2, <1>3 DEF IInv, Init, HeirIs

LEMMA VforkStep ==
    ASSUME IInv, vfork PROVE IInv'
<1>1. /\ TypeOK /\ Stashed /\ ~vforking
      /\ fds \in [All -> File] /\ cloexec \subseteq Opened(fds) \cap Fd
  BY DEF IInv, vfork, TypeOK
<1>2. /\ \A f \in Fd : fds'[f] = fds[f] /\ fds'[f + MaxFd] = fds[f]
      /\ \A f \in All \ Fd : fds'[f] = fds[f - MaxFd]
      /\ fds' \in [All -> File]
  <2>1. \A f \in Fd : fds[f + MaxFd] = None
    BY <1>1 DEF Stashed
  <2>2. \A f \in All : fds'[f] = IF f >= MaxFd /\ fds[f - MaxFd] # None
                                 THEN fds[f - MaxFd] ELSE fds[f]
    BY DEF vfork, stash_file_descriptors
  <2>3. \A f \in Fd : fds'[f] = fds[f]
    BY <2>2, Slots
  <2>4. \A f \in All \ Fd : fds[f] = None
    BY <2>1, Slots
  <2>5. \A f \in All \ Fd : fds'[f] = fds[f - MaxFd]
    BY <2>2, <2>4, Slots
  <2>6. \A f \in Fd : fds'[f + MaxFd] = fds[f]
    BY <2>5, Slots
  <2>7. fds' = [f \in All |-> fds'[f]]
    BY DEF vfork, stash_file_descriptors
  <2>8. \A f \in All : fds'[f] \in File
    BY <1>1, <2>3, <2>5, Slots
  <2> QED
    BY <2>3, <2>5, <2>6, <2>7, <2>8
<1>3. saved' \in [Fd -> File] /\ \A f \in Fd : saved'[f] = fds[f]
  BY <1>1, Slots DEF vfork
<1>4. TypeOK'
  <2>1. cloexec' \subseteq Opened(fds') \cap Fd
    BY <1>1, <1>2 DEF vfork, Opened
  <2> QED
    BY <1>1, <1>2, <1>3, <2>1, NobodyIs DEF vfork, TypeOK
<1>5. Stashed'
  BY <1>2, <1>3 DEF vfork, Stashed
<1>6. Counted'
  <2>1. \A f \in All : \E g \in All : fds'[f] = fds[g]
    BY <1>2, Slots
  <2> QED
    BY <2>1, SameFilesCount DEF vfork, IInv
<1> QED
  BY <1>4, <1>5, <1>6 DEF IInv, HeirIs, vfork

LEMMA ReturnStep ==
    ASSUME IInv, vforking, NEW pid \in {"-1", "child"}, VforkReturns(pid),
           heir' = Nobody \/ heir' = Image(CloneFileDescriptors)
    PROVE  /\ IInv'
           /\ \A f \in Fd : saved[f] # None => fds'[f] = saved[f]
           /\ \A f \in All \ Fd : fds'[f] = None
<1>1. /\ TypeOK /\ Stashed /\ Counted /\ server \subseteq Ends
      /\ fds \in [All -> File] /\ cloexec \subseteq Opened(fds) \cap Fd
  BY DEF IInv, TypeOK
<1>2. /\ \A f \in Fd : fds'[f] = IF fds[f + MaxFd] # None THEN fds[f + MaxFd] ELSE fds[f]
      /\ \A f \in All \ Fd : fds'[f] = None
      /\ fds' \in [All -> File]
  <2>1. \A f \in All : fds'[f] = IF f >= MaxFd THEN None
                                 ELSE IF fds[f + MaxFd] # None THEN fds[f + MaxFd] ELSE fds[f]
    BY DEF VforkReturns, unstash_file_descriptors
  <2>2. \A f \in Fd : fds'[f] = IF fds[f + MaxFd] # None THEN fds[f + MaxFd] ELSE fds[f]
    BY <2>1, Slots
  <2>3. \A f \in All \ Fd : fds'[f] = None
    BY <2>1, Slots
  <2>4. \A f \in All : fds'[f] \in File
    BY <1>1, <2>2, <2>3, Slots, FilesDiffer
  <2>5. fds' = [f \in All |-> fds'[f]]
    BY DEF VforkReturns, unstash_file_descriptors
  <2> QED
    BY <2>2, <2>3, <2>4, <2>5
<1>3. saved' \in [Fd -> File] /\ \A f \in Fd : saved'[f] = None
  BY FilesDiffer DEF VforkReturns
<1>4. Counted' /\ server' \subseteq Ends
  <2>1. \A f \in All : fds'[f] = None \/ \E g \in All : fds'[f] = fds[g]
    BY <1>2, Slots
  <2> QED
    BY <1>1, <2>1, ReleaseCounts DEF VforkReturns
<1>5. HeirIs' /\ heir' \in [got : [All -> File], want : SUBSET (Fd \X Ends), ok : BOOLEAN]
  BY <1>1, HeirOfClone
<1>6. cloexec' \subseteq Opened(fds') \cap Fd
  BY <1>1, <1>2, Slots DEF VforkReturns, unstashed, Opened
<1>7. TypeOK'
  BY <1>1, <1>2, <1>3, <1>4, <1>5, <1>6 DEF VforkReturns, TypeOK
<1>8. Stashed'
  BY <1>2, <1>3, Slots DEF VforkReturns, Stashed
<1>9. \A f \in Fd : saved[f] # None => fds'[f] = saved[f]
  BY <1>1, <1>2 DEF Stashed
<1> QED
  BY <1>2, <1>4, <1>5, <1>7, <1>8, <1>9 DEF IInv

LEMMA ExecStep ==
    ASSUME IInv, Exec PROVE IInv'
<1>1. /\ TypeOK /\ Stashed /\ Counted /\ server \subseteq Ends /\ fds \in [All -> File]
      /\ ~vforking /\ ~vforking' /\ vforking' = vforking /\ saved' = saved /\ pipes' = pipes
  BY DEF IInv, TypeOK, Exec
<1>2. HeirIs' /\ heir' \in [got : [All -> File], want : SUBSET (Fd \X Ends), ok : BOOLEAN]
  <2>1. heir' = Nobody \/ heir' = Image(CloneFileDescriptors)
    BY Zenon DEF Exec
  <2> QED
    BY <1>1, <2>1, HeirOfClone
<1>3. CASE /\ heir' = Image(CloneFileDescriptors) /\ fds' = heir'.got
           /\ mode' = (IF heir'.ok THEN "runs" ELSE "exited")
           /\ server' = server \cup {e[2] : e \in heir'.want}
           /\ cloexec' = {} /\ vforkPid' = "-1"
  <2>1. PICK E : E = CloneFileDescriptors
    OBVIOUS
  <2>2. Entries(E)
    BY <1>1, <2>1, CloneIs
  <2>3. ImageOf(E, heir')
    BY <1>3, <2>1, <2>2, ImageIs
  <2>4. /\ fds' \in [All -> File]
        /\ \A f \in All \ Fd : fds'[f] = None
        /\ \A f \in All : fds'[f] \in Ends => <<f, fds'[f]>> \in E
        /\ server' = server \cup {e[2] : e \in E}
    BY <1>3, <2>3 DEF ImageOf
  <2>5. EndsIn(fds', All) \subseteq server' /\ server' \subseteq Ends
    <3>1. ASSUME NEW f \in All, fds'[f] \in Ends
          PROVE  fds'[f] \in {e[2] : e \in E}
      <4>1. PICK e \in E : e = <<f, fds'[f]>>
        BY <2>4, <3>1
      <4>2. e[2] = fds'[f]
        BY <4>1
      <4> QED
        BY <4>2
    <3>2. \A e \in E : e[2] \in Ends
      BY <2>2 DEF Entries
    <3> QED
      BY <1>1, <2>4, <3>1, <3>2 DEF EndsIn
  <2>6. TypeOK'
    BY <1>1, <1>2, <1>3, <2>4, <2>5 DEF TypeOK
  <2>7. Stashed'
    BY <1>1, <2>4, Slots DEF Stashed
  <2> QED
    BY <1>2, <2>5, <2>6, <2>7 DEF IInv, Counted
<1>4. CASE /\ heir' = Nobody /\ mode' \in {"runs", "aborted"}
           /\ UNCHANGED <<fds, server, cloexec, vforkPid>>
  <2>1. TypeOK'
    BY <1>1, <1>2, <1>4 DEF TypeOK, Opened
  <2> QED
    BY <1>1, <1>2, <1>4, <2>1 DEF IInv, Counted, Stashed
<1> QED
  BY <1>3, <1>4, Zenon DEF Exec

\* Steps that leave the descriptors and the server alone.
LEMMA QuietStep ==
    ASSUME IInv, mode' \in {"runs", "waits", "aborted", "exited"},
           heir' = Nobody \/ heir' = Image(CloneFileDescriptors),
           UNCHANGED <<fds, cloexec, vforking, vforkPid, pipes, server, saved>>
    PROVE  IInv'
<1>1. TypeOK /\ Stashed /\ Counted
  BY DEF IInv
<1>2. HeirIs' /\ heir' \in [got : [All -> File], want : SUBSET (Fd \X Ends), ok : BOOLEAN]
  BY <1>1, HeirOfClone
<1>3. TypeOK'
  BY <1>1, <1>2 DEF TypeOK, Opened
<1> QED
  BY <1>1, <1>2, <1>3 DEF IInv, Stashed, Counted

\* Two free descriptors of the program: those of a new pipe are its own.
LEMMA PipeGets ==
    ASSUME fds \in [All -> File], Cardinality(Fd \ Opened(fds)) >= 2,
           NEW a \in Ends, NEW b \in Ends
    PROVE  LET r == Lowest(fds)
               t == [fds EXCEPT ![r] = a]
               w == Lowest(t)
           IN  /\ r \in Fd /\ w \in Fd /\ r # w
               /\ fds[r] = None /\ fds[w] = None
               /\ [t EXCEPT ![w] = b] \in [All -> File]
               /\ \A f \in All : [t EXCEPT ![w] = b][f] = IF f = w THEN b
                                                          ELSE IF f = r THEN a ELSE fds[f]
<1> DEFINE S == Fd \ Opened(fds)
<1>1. PICK r : r = Lowest(fds)
  OBVIOUS
<1>2. PICK t : t = [fds EXCEPT ![r] = a]
  OBVIOUS
<1>3. PICK w : w = Lowest(t)
  OBVIOUS
<1>4. \A f \in S : f \in Fd /\ f \in All /\ fds[f] = None
  BY Slots DEF Opened
<1>5. IsFiniteSet(S)
  <2>1. IsFiniteSet(0 .. MaxFd - 1)
    BY FS_Interval
  <2> QED
    BY <2>1, FS_Subset DEF Fd
<1>6. PICK x \in S, y \in S : x # y
  <2> HIDE DEF S
  <2>1. S # {}
    BY FS_EmptySet DEF S
  <2>2. PICK x \in S : TRUE
    BY <2>1
  <2>3. ASSUME S = {x} PROVE FALSE
    <3>1. Cardinality(S) = 1
      BY <2>3, FS_Singleton
    <3> QED
      BY <3>1 DEF S
  <2> QED
    BY <2>2, <2>3
<1>7. r \in All /\ fds[r] = None /\ r <= x
  BY <1>1, <1>4, <1>6, LowestIs
<1>8. \A f \in All : f <= x \/ f <= y => f \in Fd
  BY <1>4, <1>6 DEF Fd, All
<1>9. t \in [All -> File] /\ \A f \in All : t[f] = IF f = r THEN a ELSE fds[f]
  BY <1>2, <1>7, FilesDiffer
<1>10. PICK z \in {x, y} : z # r
  BY <1>6
<1>11. z \in All /\ t[z] = None
  BY <1>4, <1>6, <1>9, <1>10
<1>12. w \in All /\ t[w] = None /\ w <= z
  BY <1>3, <1>9, <1>11, LowestIs
<1>13. r # w /\ fds[w] = None
  BY <1>7, <1>9, <1>12, FilesDiffer
<1>14. r \in Fd /\ w \in Fd
  BY <1>7, <1>8, <1>10, <1>12
<1>15. /\ [t EXCEPT ![w] = b] \in [All -> File]
       /\ \A f \in All : [t EXCEPT ![w] = b][f] = IF f = w THEN b
                                                  ELSE IF f = r THEN a ELSE fds[f]
  BY <1>9, <1>12, FilesDiffer
<1> QED
  BY <1>1, <1>2, <1>3, <1>7, <1>13, <1>14, <1>15

LEMMA PipeStep ==
    ASSUME IInv, nacl_spawn_pipe2 PROVE IInv'
<1>1. /\ TypeOK /\ Stashed /\ Counted /\ server \subseteq Ends /\ fds \in [All -> File]
      /\ pipes \in Nat /\ pipes < MaxPipes /\ pipes' = pipes + 1 /\ cloexec' = cloexec
      /\ heir' = Nobody
      /\ UNCHANGED <<vforking, vforkPid, mode, saved>>
  BY DEF IInv, TypeOK, nacl_spawn_pipe2, Program
<1> DEFINE both == {End(pipes + 1, "reads"), End(pipes + 1, "writes")}
<1>2. PICK a, b : a = End(pipes + 1, "reads") /\ b = End(pipes + 1, "writes")
  OBVIOUS
<1>3. a \in Ends /\ b \in Ends /\ both = {a, b}
  <2>1. pipes + 1 \in 1 .. MaxPipes
    BY <1>1
  <2> QED
    BY <1>2, <2>1 DEF Ends
<1>4. pipes' \in 0 .. MaxPipes
  BY <1>1
<1>5. CASE /\ Cardinality(Fd \ Opened(fds)) >= 2
           /\ LET r == Lowest(fds)
                  t == [fds EXCEPT ![r] = a]
              IN  fds' = [t EXCEPT ![Lowest(t)] = b]
           /\ server' = server \cup both
  <2>1. PICK r, w : /\ r \in Fd /\ w \in Fd /\ r # w
                    /\ fds[r] = None /\ fds[w] = None /\ fds' \in [All -> File]
                    /\ \A f \in All : fds'[f] = IF f = w THEN b
                                                ELSE IF f = r THEN a ELSE fds[f]
    BY <1>1, <1>3, <1>5, PipeGets, ZenonT(40)
  <2>2. \A f \in Fd : fds'[f + MaxFd] = fds[f + MaxFd]
    BY <2>1, Slots
  <2>3. cloexec' \subseteq Opened(fds') \cap Fd
    BY <1>1, <1>3, <2>1, Slots, FilesDiffer DEF Opened, TypeOK
  <2>4. EndsIn(fds', All) \subseteq server' /\ server' \subseteq Ends
    <3>1. \A f \in All : fds'[f] \in Ends => fds'[f] \in server'
      BY <1>1, <1>3, <1>5, <2>1 DEF Counted, EndsIn
    <3> QED
      BY <1>1, <1>3, <1>5, <3>1 DEF EndsIn
  <2>5. TypeOK'
    BY <1>1, <1>4, <2>1, <2>3, <2>4, NobodyIs DEF TypeOK
  <2>6. Stashed'
    BY <1>1, <2>2 DEF Stashed
  <2> QED
    BY <1>1, <2>4, <2>5, <2>6 DEF IInv, Counted, HeirIs
<1>6. CASE fds' = fds /\ \E opened \in SUBSET both : server' = server \cup (both \ opened)
  <2>1. server \subseteq server' /\ server' \subseteq Ends
    BY <1>1, <1>3, <1>6
  <2>2. TypeOK'
    BY <1>1, <1>4, <1>6, <2>1, NobodyIs DEF TypeOK, Opened
  <2> QED
    BY <1>1, <1>6, <2>1, <2>2 DEF IInv, Counted, HeirIs, Stashed
<1>7. \/ /\ Cardinality(Fd \ Opened(fds)) >= 2
         /\ LET r == Lowest(fds)
                t == [fds EXCEPT ![r] = a]
            IN  fds' = [t EXCEPT ![Lowest(t)] = b]
         /\ server' = server \cup both
      \/ fds' = fds /\ \E opened \in SUBSET both : server' = server \cup (both \ opened)
  BY <1>2, Zenon DEF nacl_spawn_pipe2
<1> QED
  BY <1>5, <1>6, <1>7

\* A step that changes one descriptor of the program.
LEMMA FileStep ==
    ASSUME IInv, Program, NEW i \in Fd, NEW v \in File, fds' = [fds EXCEPT ![i] = v],
           v = None \/ \E g \in All : v = fds[g],
           cloexec' = cloexec \ {i}, Released, pipes' = pipes
    PROVE  IInv'
<1>1. /\ TypeOK /\ Stashed /\ Counted /\ server \subseteq Ends /\ fds \in [All -> File]
      /\ heir' = Nobody
      /\ UNCHANGED <<vforking, vforkPid, mode, saved>>
  BY DEF IInv, TypeOK, Program
<1>2. /\ fds' \in [All -> File]
      /\ \A f \in All : fds'[f] = IF f = i THEN v ELSE fds[f]
  BY <1>1
<1>3. Counted' /\ server' \subseteq Ends
  <2>1. \A f \in All : fds'[f] = None \/ \E g \in All : fds'[f] = fds[g]
    BY <1>2
  <2> QED
    BY <1>1, <2>1, ReleaseCounts
<1>4. cloexec' \subseteq Opened(fds') \cap Fd
  BY <1>1, <1>2 DEF Opened, TypeOK
<1>5. TypeOK'
  BY <1>1, <1>2, <1>3, <1>4, NobodyIs DEF TypeOK
<1>6. Stashed'
  <2>1. \A f \in Fd : fds'[f + MaxFd] = fds[f + MaxFd]
    BY <1>2, Slots
  <2> QED
    BY <1>1, <2>1 DEF Stashed
<1> QED
  BY <1>1, <1>3, <1>5, <1>6 DEF IInv, HeirIs

LEMMA FdStep ==
    ASSUME IInv, NEW i \in Fd,
           close(i) \/ fcntl(i) \/ \E j \in Fd : dup2(i, j)
    PROVE  IInv'
<1>1. TypeOK /\ fds \in [All -> File] /\ i \in All
  BY Slots DEF IInv, TypeOK
<1>2. CASE close(i)
  BY <1>1, <1>2, FileStep, FilesDiffer DEF close, Shut
<1>3. CASE fcntl(i)
  <2>1. cloexec' \subseteq Opened(fds') \cap Fd
    BY <1>1, <1>3, FilesDiffer DEF fcntl, Opened, TypeOK
  <2>2. TypeOK'
    BY <1>1, <1>3, <2>1, NobodyIs DEF fcntl, Program, TypeOK
  <2> QED
    BY <1>3, <2>2 DEF IInv, Counted, HeirIs, Stashed, fcntl, Program
<1>4. ASSUME NEW j \in Fd, dup2(i, j)
      PROVE  IInv'
  BY <1>1, <1>4, FileStep DEF dup2, Dup
<1> QED
  BY <1>2, <1>3, <1>4

LEMMA StepInv ==
    ASSUME IInv, Next PROVE IInv'
<1>1. TypeOK
  BY DEF IInv
<1>2. CASE vfork
  BY <1>2, VforkStep
<1>3. CASE ExecInVfork
  <2>1. PICK pid \in {"-1", "child"} : /\ vforking /\ VforkReturns(pid)
                                       /\ heir' = Nobody \/ heir' = Image(CloneFileDescriptors)
    BY <1>3, Zenon DEF ExecInVfork
  <2> QED
    BY <2>1, ReturnStep
<1>4. CASE nacl_spawn_vfork_exit
  <2>1. CASE vforking /\ \E pid \in {"child", "-1"} : VforkReturns(pid)
    <3>1. PICK pid \in {"-1", "child"} : VforkReturns(pid)
      BY <2>1, Zenon
    <3> QED
      BY <1>4, <2>1, <3>1, ReturnStep DEF nacl_spawn_vfork_exit
  <2>2. CASE ~vforking /\ mode' = "exited"
             /\ UNCHANGED <<fds, cloexec, vforking, vforkPid, pipes, server, saved>>
    BY <1>4, <2>2, QuietStep DEF nacl_spawn_vfork_exit
  <2> QED
    BY <1>4, <2>1, <2>2, Zenon DEF nacl_spawn_vfork_exit
<1>5. CASE Exec
  BY <1>5, ExecStep
<1>6. CASE Spawn
  BY <1>1, <1>6, QuietStep DEF Spawn, TypeOK
<1>7. CASE Waited
  BY <1>7, QuietStep DEF Waited
<1>8. CASE nacl_spawn_pipe2
  BY <1>8, PipeStep
<1>9. CASE \E i \in Fd : close(i) \/ fcntl(i) \/ \E j \in Fd : dup2(i, j)
  BY <1>9, FdStep
<1> QED
  BY <1>2, <1>3, <1>4, <1>5, <1>6, <1>7, <1>8, <1>9, Zenon DEF Next

LEMMA StutterInv ==
    ASSUME IInv, UNCHANGED vars PROVE IInv'
  BY DEF IInv, TypeOK, Stashed, Counted, HeirIs, vars, Opened

-----------------------------------------------------------------------------
(* Theorems *)

\* The invariant the theorems below rest on holds in every state.
THEOREM Invariance == Spec => []IInv
<1>1. IInv /\ [Next]_vars => IInv'
  BY StepInv, StutterInv
<1> QED
  BY InitInv, <1>1, PTL DEF Spec

\* Every variable of the client stays in its range: with two free descriptors of the
\* program, a new pipe never gets a slot of the stash.
THEOREM TypeCorrect == Spec => []TypeOK
<1>1. IInv => TypeOK
  BY DEF IInv
<1> QED
  BY <1>1, Invariance, PTL

\* The second return of vfork gives the parent every descriptor it had, and leaves no
\* copy in the stash (unstash_file_descriptors).
THEOREM FilesComeBack == Spec => FilesRestored
<1> DEFINE Back == vforking /\ ~vforking' =>
                       /\ \A f \in Fd : saved[f] # None => fds'[f] = saved[f]
                       /\ \A f \in All \ Fd : fds'[f] = None
<1>1. ASSUME IInv, Next PROVE Back
  <2> SUFFICES ASSUME vforking, ~vforking' PROVE Back
    OBVIOUS
  <2>1. CASE ExecInVfork
    <3>1. PICK pid \in {"-1", "child"} :
              /\ vforking /\ VforkReturns(pid)
              /\ heir' = Nobody \/ heir' = Image(CloneFileDescriptors)
      BY <2>1, Zenon DEF ExecInVfork
    <3> QED
      BY <1>1, <3>1, ReturnStep
  <2>2. CASE nacl_spawn_vfork_exit
    <3>1. PICK pid \in {"-1", "child"} : VforkReturns(pid) /\ heir' = Nobody
      BY <2>2, Zenon DEF nacl_spawn_vfork_exit
    <3> QED
      BY <1>1, <3>1, ReturnStep
  <2>3. CASE vfork \/ Exec
    BY <2>3 DEF vfork, Exec
  <2>4. CASE Spawn \/ Waited
    BY <2>4 DEF Spawn, Waited
  <2>5. CASE nacl_spawn_pipe2
    BY <2>5 DEF nacl_spawn_pipe2, Program
  <2>6. CASE \E i \in Fd : close(i) \/ fcntl(i) \/ \E j \in Fd : dup2(i, j)
    BY <2>6 DEF close, fcntl, dup2, Program
  <2> QED
    BY <1>1, <2>1, <2>2, <2>3, <2>4, <2>5, <2>6, Zenon DEF Next
<1>2. IInv /\ [Next]_vars => [Back]_vars
  BY <1>1
<1> QED
  BY <1>2, Invariance, PTL DEF Spec, FilesRestored

\* The server counts every end the process has or will have again when a vfork
\* returns: what the child closes is not released while the stash holds it.
THEOREM EndsSurvive == Spec => []EndsSurviveVfork
<1>1. ASSUME IInv PROVE EndsSurviveVfork
  <2>1. \A f \in Fd : saved[f] \in Ends => \E g \in All : saved[f] = fds[g]
    BY <1>1, Slots, FilesDiffer DEF IInv, Stashed
  <2>2. EndsIn(saved, Fd) \subseteq EndsIn(fds, All)
    BY <2>1 DEF EndsIn
  <2> QED
    BY <1>1, <2>2 DEF IInv, Counted, EndsSurviveVfork
<1> QED
  BY <1>1, Invariance, PTL

\* A new image has the pipes of its parent at their descriptors and no other; only
\* more pipes than restore_pipes can note keep it from being set up.
THEOREM HeirsPipes == Spec => []HeirHasItsPipes
<1>1. ASSUME IInv PROVE HeirHasItsPipes
  <2>1. CASE heir = Nobody
    <3>1. heir.want = {} /\ ~heir.ok
      BY <2>1 DEF Nobody
    <3> QED
      BY <3>1 DEF HeirHasItsPipes
  <2>2. CASE Entries(heir.want) /\ ImageOf(heir.want, heir)
    <3>1. ~heir.ok => Cardinality({e[2] : e \in heir.want}) > MaxOldPipes
      BY <2>2 DEF ImageOf
    <3>2. ASSUME heir.ok
          PROVE  {<<f, heir.got[f]>> : f \in {g \in All : heir.got[g] \in Ends}} = heir.want
      <4>1. \A f \in All : heir.got[f] \in Ends => <<f, heir.got[f]>> \in heir.want
        BY <2>2 DEF ImageOf
      <4>2. ASSUME NEW e \in heir.want
            PROVE  \E f \in All : heir.got[f] \in Ends /\ e = <<f, heir.got[f]>>
        <5>1. e[1] \in All /\ e[2] \in Ends /\ e = <<e[1], e[2]>>
          <6>1. e \in Fd \X Ends
            BY <2>2 DEF Entries
          <6>2. PICK f \in Fd, x \in Ends : e = <<f, x>>
            BY <6>1
          <6> QED
            BY <6>2, Slots
        <5>2. heir.got[e[1]] = e[2]
          BY <2>2, <3>2 DEF ImageOf
        <5> QED
          BY <5>1, <5>2, Zenon
      <4> QED
        BY <4>1, <4>2
    <3> QED
      BY <3>1, <3>2 DEF HeirHasItsPipes
  <2> QED
    BY <1>1, <2>1, <2>2 DEF IInv, HeirIs
<1> QED
  BY <1>1, Invariance, PTL
=============================================================================
