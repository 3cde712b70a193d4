-------------------------- MODULE PipeServer_proofs --------------------------
(***************************************************************************)
(* Theorems about the pipe server, for every number of processes, threads, *)
(* pipes and bytes.                                                        *)
(***************************************************************************)
EXTENDS PipeStream, SequenceTheorems, WellFoundedInduction, TLAPS

USE PipeServerAssumption

\* What the three queue invariants say of one pipe.
Sound(pipe) ==
    /\ pipe.readsPending # <<>> => pipe.writesPending = <<>>
    /\ pipe.writesPending # <<>> => pipe.readers # {}
    /\ pipe.readsPending # <<>> => pipe.writers # {}

HasEnd(pipe) == pipe.readers \cup pipe.writers # {}

\* The queues of every pipe that exists are sound.
QueuesSound == \A id \in Live : Sound(anonymousPipes[id])

-----------------------------------------------------------------------------
(* Operators *)

LEMMA SuffixType ==
    ASSUME NEW S, NEW s \in Seq(S), NEW n \in 0 .. Len(s)
    PROVE  /\ Suffix(s, n) \in Seq(S)
           /\ Len(Suffix(s, n)) = Len(s) - n
           /\ Prefix(s, n) \in Seq(S)
           /\ Len(Prefix(s, n)) = n
  BY SMT DEF Suffix, Prefix

LEMMA SettleSound ==
    ASSUME NEW pipe \in Pipe, Sound(pipe), NEW q \in Pipe,
           q.readsPending = pipe.readsPending,
           q.writesPending = pipe.writesPending,
           \/ q.readers = pipe.readers
           \/ q.writers = pipe.writers
    PROVE  /\ Settle(q) \in Pipe
           /\ Settle(q).readers = q.readers
           /\ Settle(q).writers = q.writers
           /\ HasEnd(q) => Sound(Settle(q))
<1> DEFINE A == [q EXCEPT !.readsPending = <<>>]
           B == [q EXCEPT !.writesPending = <<>>]
<1>1. <<>> \in Seq(ReadRequest) /\ <<>> \in Seq(Seq(Byte))
  OBVIOUS
<1>2. A \in Pipe /\ A.readers = q.readers /\ A.writers = q.writers
      /\ A.readsPending = <<>> /\ A.writesPending = q.writesPending
  BY <1>1 DEF Pipe
<1>3. B \in Pipe /\ B.readers = q.readers /\ B.writers = q.writers
      /\ B.readsPending = q.readsPending /\ B.writesPending = <<>>
  BY <1>1 DEF Pipe
<1> HIDE DEF A, B
<1>4. CASE q.writers = {}
  <2>1. Settle(q) = A
    BY <1>4 DEF Settle, A
  <2> QED
    BY <1>2, <1>4, <2>1 DEF Sound, HasEnd
<1>5. CASE q.writers # {} /\ q.readers = {}
  <2>1. Settle(q) = B
    BY <1>5 DEF Settle, B
  <2> QED
    BY <1>3, <1>5, <2>1 DEF Sound, HasEnd
<1>6. CASE q.writers # {} /\ q.readers # {}
  <2>1. Settle(q) = q
    BY <1>6 DEF Settle
  <2> QED
    BY <1>6, <2>1 DEF Sound, HasEnd
<1> QED
  BY <1>4, <1>5, <1>6

LEMMA WithoutReaderSound ==
    ASSUME NEW pipe \in Pipe, Sound(pipe), NEW p \in Pid
    PROVE  /\ WithoutReader(pipe, p) \in Pipe
           /\ WithoutReader(pipe, p).readers = pipe.readers \ {p}
           /\ WithoutReader(pipe, p).writers = pipe.writers
           /\ HasEnd(WithoutReader(pipe, p)) => Sound(WithoutReader(pipe, p))
<1> DEFINE q == [pipe EXCEPT !.readers = @ \ {p}]
<1>1. q \in Pipe /\ q.writers = pipe.writers /\ q.readers = pipe.readers \ {p}
      /\ q.readsPending = pipe.readsPending /\ q.writesPending = pipe.writesPending
  BY DEF Pipe
<1>2. WithoutReader(pipe, p) = Settle(q)
  BY DEF WithoutReader
<1> HIDE DEF q
<1> QED
  BY <1>1, <1>2, SettleSound DEF HasEnd

LEMMA WithoutWriterSound ==
    ASSUME NEW pipe \in Pipe, Sound(pipe), NEW p \in Pid
    PROVE  /\ WithoutWriter(pipe, p) \in Pipe
           /\ WithoutWriter(pipe, p).readers = pipe.readers
           /\ WithoutWriter(pipe, p).writers = pipe.writers \ {p}
           /\ HasEnd(WithoutWriter(pipe, p)) => Sound(WithoutWriter(pipe, p))
<1> DEFINE q == [pipe EXCEPT !.writers = @ \ {p}]
<1>1. q \in Pipe /\ q.readers = pipe.readers /\ q.writers = pipe.writers \ {p}
      /\ q.readsPending = pipe.readsPending /\ q.writesPending = pipe.writesPending
  BY DEF Pipe
<1>2. WithoutWriter(pipe, p) = Settle(q)
  BY DEF WithoutWriter
<1> HIDE DEF q
<1> QED
  BY <1>1, <1>2, SettleSound DEF HasEnd

LEMMA WithoutProcessSound ==
    ASSUME NEW pipe \in Pipe, Sound(pipe), NEW p \in Pid
    PROVE  /\ WithoutProcess(pipe, p) \in Pipe
           /\ HasEnd(WithoutProcess(pipe, p)) => Sound(WithoutProcess(pipe, p))
<1> DEFINE r == IF p \in pipe.readers THEN WithoutReader(pipe, p) ELSE pipe
<1>1. r \in Pipe /\ (HasEnd(r) => Sound(r))
  BY WithoutReaderSound
<1>2. WithoutProcess(pipe, p) = IF p \in r.writers THEN WithoutWriter(r, p) ELSE r
  BY DEF WithoutProcess
<1> HIDE DEF r
<1>3. CASE p \in r.writers
  <2>1. HasEnd(r)
    BY <1>3 DEF HasEnd
  <2> QED
    BY <1>1, <1>2, <1>3, <2>1, WithoutWriterSound
<1>4. CASE p \notin r.writers
  BY <1>1, <1>2, <1>4
<1> QED
  BY <1>3, <1>4

LEMMA OrphanSound ==
    ASSUME NEW pipe \in Pipe, NEW p \in Pid
    PROVE  /\ Orphan(pipe, p) \in Pipe
           /\ HasEnd(Orphan(pipe, p)) <=> HasEnd(pipe)
           /\ Sound(pipe) => Sound(Orphan(pipe, p))
<1> DEFINE q == pipe.readsPending
           moved(i) == IF q[i].thread # NoThread /\ Owner[q[i].thread] = p
                       THEN [q[i] EXCEPT !.thread = NoThread] ELSE q[i]
           f == [i \in DOMAIN q |-> moved(i)]
<1>1. q \in Seq(ReadRequest) /\ DOMAIN q = 1 .. Len(q) /\ Len(q) \in Nat
  BY DEF Pipe
<1>2. ASSUME NEW i \in DOMAIN q
      PROVE  moved(i) \in ReadRequest
  <2>1. q[i] \in ReadRequest
    BY <1>1, <1>2
  <2>2. ASSUME NEW r \in ReadRequest
        PROVE  [r EXCEPT !.thread = NoThread] \in ReadRequest
    BY DEF ReadRequest
  <2> QED
    BY <2>1, <2>2
<1>3. f \in Seq(ReadRequest) /\ (f = <<>> <=> q = <<>>)
  BY <1>1, <1>2
<1>4. Orphan(pipe, p) = [pipe EXCEPT !.readsPending = f]
  BY DEF Orphan
<1> HIDE DEF f
<1>5. /\ Orphan(pipe, p) \in Pipe
      /\ Orphan(pipe, p).readers = pipe.readers
      /\ Orphan(pipe, p).writers = pipe.writers
      /\ Orphan(pipe, p).readsPending = f
      /\ Orphan(pipe, p).writesPending = pipe.writesPending
  BY <1>3, <1>4 DEF Pipe
<1> QED
  BY <1>3, <1>5 DEF Sound, HasEnd

\* Deleting the pipes without an end leaves a table of sound pipes.
LEMMA PurgeSound ==
    ASSUME NEW D \in SUBSET PipeId, NEW pipes \in [D -> Pipe],
           \A id \in D : HasEnd(pipes[id]) => Sound(pipes[id])
    PROVE  /\ DOMAIN Purge(pipes) \subseteq D
           /\ Purge(pipes) \in [DOMAIN Purge(pipes) -> Pipe]
           /\ \A id \in DOMAIN Purge(pipes) : Sound(Purge(pipes)[id])
  BY DEF Purge, Open, HasEnd

-----------------------------------------------------------------------------
(* The inductive invariant *)

IInv == TypeOK /\ QueuesSound

LEMMA ThreadsType ==
    ASSUME NEW q \in Seq(ReadRequest)
    PROVE  Threads(q) \subseteq Thread
<1>1. ASSUME NEW i \in DOMAIN q
      PROVE  q[i].thread \in Thread \cup {NoThread}
  <2>1. q[i] \in ReadRequest
    BY <1>1
  <2> QED
    BY <2>1 DEF ReadRequest
<1> QED
  BY <1>1 DEF Threads

LEMMA ReleasedType ==
    ASSUME IInv, NEW new, DOMAIN new \subseteq Live
    PROVE  Released(new) \subseteq Thread
<1>1. ASSUME NEW id \in Live
      PROVE  Threads(anonymousPipes[id].readsPending) \subseteq Thread
  BY <1>1, ThreadsType DEF IInv, TypeOK, Pipe
<1> QED
  BY <1>1 DEF Released

LEMMA AnswerType ==
    ASSUME IInv, NEW T
    PROVE  Answer(T) \in [Thread -> Call]
<1>1. Idle \in Call
  BY DEF Call
<1>2. call \in [Thread -> Call]
  BY DEF IInv, TypeOK
<1> QED
  BY <1>1, <1>2 DEF Answer

LEMMA ReplyType ==
    ASSUME NEW n \in Int
    PROVE  Wrote(n) \in Reply /\ Got(n) \in Reply
  BY DEF Wrote, Got, Reply

LEMMA InitInv == Init => IInv
<1> SUFFICES ASSUME Init PROVE IInv
  OBVIOUS
<1>1. Live = {}
  BY DEF Init, Live
<1>2. /\ anonymousPipes \in [Live -> Pipe]
      /\ replies \in [DOMAIN replies -> Reply] /\ DOMAIN replies \subseteq Thread
  BY <1>1 DEF Init, Live
<1> QED
  BY <1>1, <1>2 DEF Init, IInv, TypeOK, QueuesSound, Call, Live, PipeId, Byte

LEMMA APipeStep ==
    ASSUME IInv, NEW t \in Thread, APipe(t)
    PROVE  IInv'
<1> USE DEF APipe
<1>1. /\ anonymousPipeId \in PipeId /\ Owner[t] \in Pid
      /\ NewPipe(Owner[t]) \in Pipe /\ Sound(NewPipe(Owner[t]))
  BY DEF IInv, TypeOK, PipeId, NewPipe, Pipe, Sound
<1>2. /\ Live' = Live \cup {anonymousPipeId}
      /\ \A id \in Live' : anonymousPipes'[id] = IF id = anonymousPipeId
                             THEN NewPipe(Owner[t]) ELSE anonymousPipes[id]
  BY DEF Live
<1>3. Live' \subseteq PipeId /\ anonymousPipes' \in [Live' -> Pipe]
  BY <1>1, <1>2 DEF IInv, TypeOK, Live
<1>4. fds' \in [Pid -> SUBSET End]
  BY <1>1 DEF IInv, TypeOK, End
<1>5. /\ replies' \in [DOMAIN replies' -> Reply]
      /\ DOMAIN replies' \subseteq Thread
  OBVIOUS
<1>6. QueuesSound'
  BY <1>1, <1>2 DEF IInv, QueuesSound, Sound
<1> QED
  BY <1>3, <1>4, <1>5, <1>6 DEF IInv, TypeOK

\* The loop of the write handler ends with the data or the pending reads used
\* up, so what is left is buffered only when no read is left waiting.
LEMMA WriteAcceptedStep ==
    ASSUME IInv, NEW t \in Thread, NEW id \in PipeId, NEW n \in Count,
           WriteAccepted(t, id, n)
    PROVE  IInv'
<1> DEFINE pipe == anonymousPipes[id]
           q    == pipe.readsPending
           w    == pipe.writesPending
           data == [i \in 1 .. n |-> written[id] + i]
<1>1. PICK m \in 0 .. Len(q) : \E cut \in Turns(q, n, m) : HandOut(t, id, n, m, cut)
  BY DEF WriteAccepted
<1>2. PICK cut \in Turns(q, n, m) : HandOut(t, id, n, m, cut)
  BY <1>1
<1> DEFINE served == Prefix(q, m)
           left   == Suffix(data, cut[m])
           kept   == left # <<>> /\ pipe.readers # {}
           rest   == Suffix(q, m)
           buf    == IF kept THEN Append(w, left) ELSE w
           new    == [pipe EXCEPT !.readsPending = rest, !.writesPending = buf]
<1>3. id \in Live /\ pipe \in Pipe /\ q \in Seq(ReadRequest) /\ w \in Seq(Seq(Byte))
      /\ Sound(pipe)
  BY DEF WriteAccepted, Registered, IInv, TypeOK, QueuesSound, Pipe
<1>4. n \in Nat /\ m \in Nat /\ m <= Len(q) /\ cut \in [0 .. m -> 0 .. n]
      /\ (cut[m] = n \/ m = Len(q)) /\ cut[m] \in 0 .. n
  BY <1>3 DEF Count, Turns
<1>5. data \in Seq(Byte) /\ Len(data) = n
  <2>1. written[id] \in Nat
    BY DEF IInv, TypeOK
  <2>2. data \in [1 .. n -> Byte]
    BY <1>4, <2>1 DEF Byte
  <2> QED
    BY <1>4, <2>2
<1> HIDE DEF data
<1>6. left \in Seq(Byte) /\ Len(left) = n - cut[m] /\ Prefix(data, cut[m]) \in Seq(Byte)
  BY <1>4, <1>5, SuffixType
<1>7. rest \in Seq(ReadRequest) /\ Len(rest) = Len(q) - m /\ served \in Seq(ReadRequest)
  BY ZenonT(40), <1>3, <1>4, SuffixType
<1>8. buf \in Seq(Seq(Byte))
  BY <1>3, <1>6
<1> HIDE DEF left, rest, buf, served
<1>9. new \in Pipe /\ new.readsPending = rest /\ new.writesPending = buf
      /\ new.readers = pipe.readers /\ new.writers = pipe.writers
  BY <1>3, <1>7, <1>8 DEF Pipe
<1>10. anonymousPipes' = [anonymousPipes EXCEPT ![id] = new]
  BY <1>2, <1>3 DEF HandOut, IInv, TypeOK, data, left, rest, buf, Pipe
<1>11. Sound(new)
  <2>1. left # <<>> => rest = <<>>
    BY SMTT(30), <1>4, <1>6, <1>7
  <2>2. rest # <<>> => q # <<>>
    BY <1>3, <1>4, <1>7
  <2>3. buf # <<>> => (left # <<>> /\ pipe.readers # {}) \/ w # <<>>
    BY DEF buf
  <2>4. rest # <<>> => buf = w
    BY <2>1 DEF buf
  <2> QED
    BY <1>3, <1>9, <2>1, <2>2, <2>3, <2>4 DEF Sound
<1> HIDE DEF new
<1>12. Live' = Live /\ anonymousPipes' \in [Live' -> Pipe] /\ QueuesSound'
  BY <1>3, <1>9, <1>10, <1>11 DEF IInv, TypeOK, QueuesSound, Live, Sound
<1>13. call' \in [Thread -> Call]
  BY <1>2, AnswerType DEF HandOut
<1>14. received' \in [PipeId -> Seq(Byte)]
  <2>1. received' = [received EXCEPT ![id] = @ \o Prefix(data, cut[m])]
    BY <1>2 DEF HandOut, data
  <2> QED
    BY <1>6, <2>1 DEF IInv, TypeOK
<1>15. written' \in [PipeId -> Nat]
  <2>1. \E k \in {n, cut[m]} : written' = [written EXCEPT ![id] = @ + k]
    BY <1>2 DEF HandOut
  <2> QED
    BY <1>4, <2>1 DEF IInv, TypeOK
<1>16. DOMAIN replies' \subseteq Thread /\ replies' \in [DOMAIN replies' -> Reply]
  <2> DEFINE T == Threads(served) \cup {t}
             which(u) == CHOOSE i \in 1 .. m : served[i].thread = u
  <2>1. \E v \in {n, EPIPE} : replies' = [u \in T |-> IF u = t THEN Wrote(v)
                             ELSE Got(cut[which(u)] - cut[which(u) - 1])]
    <3> DEFINE v == IF left = <<>> \/ kept THEN n ELSE EPIPE
    <3>1. replies' = [u \in T |-> IF u = t THEN Wrote(v)
                        ELSE Got(cut[which(u)] - cut[which(u) - 1])]
      BY <1>2, Zenon DEF HandOut, served, left, data
    <3>2. v \in {n, EPIPE}
      OBVIOUS
    <3> HIDE DEF v, which, T
    <3> QED
      BY <3>1, <3>2
  <2>2. ASSUME NEW u \in T, u # t
        PROVE  Got(cut[which(u)] - cut[which(u) - 1]) \in Reply
    <3>1. \E i \in 1 .. m : served[i].thread = u
      BY <1>3, <1>4, <2>2, SuffixType DEF Threads, served
    <3>2. which(u) \in 1 .. m
      BY <3>1
    <3> QED
      BY <1>4, <3>2, ReplyType
  <2>3. T \subseteq Thread
    BY <1>7, ThreadsType
  <2>4. \A v \in {n, EPIPE} : Wrote(v) \in Reply
    BY <1>4, ReplyType DEF EPIPE
  <2> HIDE DEF T, which
  <2> QED
    BY <2>1, <2>2, <2>3, <2>4
<1> QED
  BY <1>12, <1>13, <1>14, <1>15, <1>16 DEF WriteAccepted, IInv, TypeOK

LEMMA WriteRefusedStep ==
    ASSUME IInv, NEW t \in Thread, NEW id \in PipeId, WriteRefused(t, id)
    PROVE  IInv'
<1>1. DOMAIN replies' \subseteq Thread /\ replies' \in [DOMAIN replies' -> Reply]
  BY ReplyType DEF WriteRefused, EPIPE
<1> QED
  BY <1>1 DEF WriteRefused, IInv, TypeOK, QueuesSound, Live

LEMMA ReadBufferedStep ==
    ASSUME IInv, NEW t \in Thread, NEW id \in PipeId, NEW n \in Count,
           ReadBuffered(t, id, n)
    PROVE  IInv'
<1> DEFINE pipe == anonymousPipes[id]
           w    == pipe.writesPending
           item == Head(w)
           k    == Min2(n, Len(item))
           part == Prefix(item, k)
           left == Suffix(item, n)
           rest == IF Len(item) > n THEN <<left>> \o Tail(w) ELSE Tail(w)
           new  == [pipe EXCEPT !.writesPending = rest]
<1>1. /\ id \in Live /\ pipe \in Pipe /\ w \in Seq(Seq(Byte)) /\ w # <<>>
      /\ Sound(pipe)
  BY DEF ReadBuffered, Registered, IInv, TypeOK, QueuesSound, Pipe
<1>2. item \in Seq(Byte) /\ Tail(w) \in Seq(Seq(Byte))
  BY <1>1
<1>3. n \in Nat /\ k \in 0 .. Len(item) /\ Len(item) \in Nat
  BY <1>2 DEF Count, Min2
<1> HIDE DEF item, k
<1>4. part \in Seq(Byte) /\ Len(part) \in Nat
  BY <1>2, <1>3, SuffixType
<1>5. rest \in Seq(Seq(Byte))
  <2>1. CASE Len(item) > n
    <3>1. n \in 0 .. Len(item)
      BY <1>3, <2>1
    <3>2. left \in Seq(Byte)
      BY <1>2, <3>1, SuffixType
    <3> QED
      BY <1>2, <3>2, <2>1
  <2>2. CASE ~(Len(item) > n)
    BY <1>2, <2>2
  <2> QED
    BY <2>1, <2>2
<1> HIDE DEF rest, part
<1>6. /\ new \in Pipe /\ new.readsPending = pipe.readsPending
      /\ new.readers = pipe.readers /\ new.writers = pipe.writers
  BY <1>1, <1>5 DEF Pipe
<1>7. Sound(new)
  BY <1>1, <1>6 DEF Sound
<1>8. anonymousPipes' = [anonymousPipes EXCEPT ![id] = new]
  BY <1>1 DEF ReadBuffered, Rest, IInv, TypeOK, rest, item
<1> HIDE DEF new
<1>9. Live' = Live /\ anonymousPipes' \in [Live' -> Pipe] /\ QueuesSound'
  BY <1>1, <1>6, <1>7, <1>8 DEF IInv, TypeOK, QueuesSound, Live
<1>10. received' \in [PipeId -> Seq(Byte)]
  <2>1. received' = [received EXCEPT ![id] = @ \o part]
    BY DEF ReadBuffered, part, item, k
  <2> QED
    BY <1>4, <2>1 DEF IInv, TypeOK
<1>11. DOMAIN replies' \subseteq Thread /\ replies' \in [DOMAIN replies' -> Reply]
  <2>1. replies' = [u \in {t} |-> Got(Len(part))]
    BY DEF ReadBuffered, part, item, k
  <2> QED
    BY <1>4, <2>1, ReplyType
<1> QED
  BY <1>9, <1>10, <1>11 DEF ReadBuffered, IInv, TypeOK

LEMMA ReadBlocksStep ==
    ASSUME IInv, NEW t \in Thread, NEW id \in PipeId, NEW n \in Count,
           ReadBlocks(t, id, n)
    PROVE  IInv'
<1> DEFINE pipe == anonymousPipes[id]
           more == Append(pipe.readsPending, [thread |-> t, count |-> n])
           new  == [pipe EXCEPT !.readsPending = more]
<1>1. /\ id \in Live /\ pipe \in Pipe /\ pipe.readsPending \in Seq(ReadRequest)
      /\ pipe.writesPending = <<>> /\ pipe.writers # {}
  BY DEF ReadBlocks, Registered, IInv, TypeOK, Pipe
<1>2. more \in Seq(ReadRequest)
  BY <1>1 DEF ReadRequest
<1> HIDE DEF more
<1>3. /\ new \in Pipe /\ new.writesPending = pipe.writesPending
      /\ new.readers = pipe.readers /\ new.writers = pipe.writers
  BY <1>1, <1>2 DEF Pipe
<1>4. Sound(new)
  BY <1>1, <1>3 DEF Sound
<1>5. anonymousPipes' = [anonymousPipes EXCEPT ![id] = new]
  BY <1>1 DEF ReadBlocks, IInv, TypeOK, more
<1> HIDE DEF new
<1>6. Live' = Live /\ anonymousPipes' \in [Live' -> Pipe] /\ QueuesSound'
  BY <1>1, <1>3, <1>4, <1>5 DEF IInv, TypeOK, QueuesSound, Live
<1>7. call' \in [Thread -> Call]
  <2>1. Reading(id) \in Call
    BY DEF Call
  <2>2. call \in [Thread -> Call] /\ call' = [call EXCEPT ![t] = Reading(id)]
    BY DEF ReadBlocks, IInv, TypeOK
  <2> HIDE DEF IInv
  <2> QED
    BY ONLY <2>1, <2>2
<1>8. DOMAIN replies' \subseteq Thread /\ replies' \in [DOMAIN replies' -> Reply]
  BY DEF ReadBlocks
<1> QED
  BY <1>6, <1>7, <1>8 DEF ReadBlocks, IInv, TypeOK

LEMMA ReadNothingStep ==
    ASSUME IInv, NEW t \in Thread, NEW id \in PipeId, ReadNothing(t, id)
    PROVE  IInv'
<1>1. PICK v \in {-EAGAIN, 0} : replies' = [u \in {t} |-> Got(v)]
  BY DEF ReadNothing
<1>2. DOMAIN replies' \subseteq Thread /\ replies' \in [DOMAIN replies' -> Reply]
  BY <1>1, ReplyType DEF EAGAIN
<1> QED
  BY <1>2 DEF ReadNothing, IInv, TypeOK, QueuesSound, Live

LEMMA CloseStep ==
    ASSUME IInv, NEW t \in Thread, NEW id \in PipeId, NEW w \in BOOLEAN, Close(t, id, w)
    PROVE  IInv'
<1> DEFINE closed(p) == IF p # id THEN anonymousPipes[p]
                        ELSE IF w THEN WithoutWriter(anonymousPipes[p], Owner[t])
                                  ELSE WithoutReader(anonymousPipes[p], Owner[t])
           table == [p \in Live |-> closed(p)]
           after == Purge(table)
<1>1. Live \in SUBSET PipeId /\ Owner[t] \in Pid
  BY DEF IInv, TypeOK
<1>2. ASSUME NEW p \in Live
      PROVE  closed(p) \in Pipe /\ (HasEnd(closed(p)) => Sound(closed(p)))
  <2>1. anonymousPipes[p] \in Pipe /\ Sound(anonymousPipes[p])
    BY DEF IInv, TypeOK, QueuesSound
  <2> QED
    BY <1>1, <2>1, WithoutReaderSound, WithoutWriterSound
<1> HIDE DEF closed
<1>3. /\ table \in [Live -> Pipe]
      /\ \A p \in Live : HasEnd(table[p]) => Sound(table[p])
  BY <1>2
<1> HIDE DEF table
<1>4. /\ DOMAIN after \subseteq Live
      /\ after \in [DOMAIN after -> Pipe]
      /\ \A p \in DOMAIN after : Sound(after[p])
  BY <1>1, <1>3, PurgeSound
<1>5. anonymousPipes' = after /\ call' = Answer(Released(after))
      /\ replies' = [u \in Released(after) |-> Got(0)]
  BY DEF Close, table, closed
<1> HIDE DEF after
<1>6. Live' \subseteq PipeId /\ anonymousPipes' \in [Live' -> Pipe] /\ QueuesSound'
  BY <1>1, <1>4, <1>5 DEF Live, QueuesSound
<1>7. call' \in [Thread -> Call]
  BY <1>5, AnswerType
<1>8. DOMAIN replies' \subseteq Thread /\ replies' \in [DOMAIN replies' -> Reply]
  BY <1>4, <1>5, ReleasedType, ReplyType
<1>9. fds' \in [Pid -> SUBSET End]
  BY DEF Close, IInv, TypeOK
<1> QED
  BY <1>6, <1>7, <1>8, <1>9 DEF Close, IInv, TypeOK

LEMMA SpawnRequestStep ==
    ASSUME IInv, NEW t \in Thread, NEW c \in Pid, NEW ends \in SUBSET End,
           SpawnRequest(t, c, ends)
    PROVE  IInv'
<1>1. Spawning(c, ends) \in Call
  BY DEF Call
<1>2. call' \in [Thread -> Call]
  BY <1>1 DEF SpawnRequest, IInv, TypeOK
<1>3. DOMAIN replies' \subseteq Thread /\ replies' \in [DOMAIN replies' -> Reply]
  BY DEF SpawnRequest
<1> QED
  BY <1>2, <1>3 DEF SpawnRequest, IInv, TypeOK, QueuesSound, Live

\* A spawn that loses its caller has a child and ends.
LEMMA AdriftType ==
    ASSUME IInv, NEW c \in Pid, NEW T \in SUBSET Thread
    PROVE  Adrift(c, T) \subseteq Pid \X SUBSET End
<1> SUFFICES ASSUME NEW u \in Thread, call[u].op = "spawn"
             PROVE  call[u].child \in Pid /\ call[u].ends \in SUBSET End
  BY DEF Adrift, Replaced
<1>1. call[u] \in Call
  BY DEF IInv, TypeOK
<1> QED
  BY <1>1 DEF Call, Idle, Reading, Spawning

LEMMA JoinStep ==
    ASSUME IInv, NEW child \in Pid, NEW ends \in SUBSET End, NEW T \in SUBSET Thread,
           Join(child, ends, T), cutOff' \subseteq Pid \X SUBSET End
    PROVE  IInv'
<1> DEFINE joined(id) == [anonymousPipes[id] EXCEPT
                !.readers = IF <<id, FALSE>> \in ends THEN @ \cup {child} ELSE @,
                !.writers = IF <<id, TRUE>> \in ends THEN @ \cup {child} ELSE @]
           next(id) == IF Running(child) THEN Orphan(joined(id), child)
                                         ELSE joined(id)
<1>2. ASSUME NEW id \in Live
      PROVE  next(id) \in Pipe /\ Sound(next(id))
  <2>1. anonymousPipes[id] \in Pipe /\ Sound(anonymousPipes[id])
    BY DEF IInv, TypeOK, QueuesSound
  <2>2. /\ joined(id) \in Pipe
        /\ joined(id).readsPending = anonymousPipes[id].readsPending
        /\ joined(id).writesPending = anonymousPipes[id].writesPending
        /\ anonymousPipes[id].readers \subseteq joined(id).readers
        /\ anonymousPipes[id].writers \subseteq joined(id).writers
    BY <2>1 DEF Pipe
  <2>3. Sound(joined(id))
    BY <2>1, <2>2 DEF Sound
  <2> HIDE DEF joined
  <2> QED
    BY <2>2, <2>3, OrphanSound
<1>3. /\ anonymousPipes' = [id \in Live |-> next(id)]
      /\ proc' = [proc EXCEPT ![child] = "running"]
      /\ fds' = [fds EXCEPT ![child] = ends]
      /\ \E R : call' = Answer(R)
      /\ replies' = << >>
      /\ UNCHANGED <<anonymousPipeId, written, received>>
  BY DEF Join
<1> HIDE DEF next
<1>4. Live' = Live /\ anonymousPipes' \in [Live' -> Pipe] /\ QueuesSound'
  BY <1>2, <1>3 DEF Live, QueuesSound
<1>5. call' \in [Thread -> Call]
  BY <1>3, AnswerType
<1>6. DOMAIN replies' \subseteq Thread /\ replies' \in [DOMAIN replies' -> Reply]
  BY <1>3
<1> QED
  BY <1>3, <1>4, <1>5, <1>6 DEF IInv, TypeOK

LEMMA AddProcessPipesStep ==
    ASSUME IInv, NEW t \in Thread, AddProcessPipes(t)
    PROVE  IInv'
<1>1. call[t] \in Call /\ call[t].op = "spawn"
  BY DEF AddProcessPipes, IInv, TypeOK
<1>2. PICK c, ends : c = call[t].child /\ ends = call[t].ends
  OBVIOUS
<1>3. c \in Pid /\ ends \in SUBSET End
  BY <1>1, <1>2 DEF Call, Idle, Reading, Spawning
<1>4. Join(c, ends, {t}) /\ cutOff' = cutOff \cup Adrift(c, {t})
  BY <1>2, Zenon DEF AddProcessPipes
<1>5. cutOff' \subseteq Pid \X SUBSET End
  BY <1>3, <1>4, AdriftType DEF IInv, TypeOK
<1> QED
  BY <1>3, <1>4, <1>5, JoinStep

LEMMA AddCutOffStep ==
    ASSUME IInv, NEW s \in cutOff, AddCutOff(s)
    PROVE  IInv'
<1>1. PICK c \in Pid, ends \in SUBSET End : s = <<c, ends>>
  BY DEF IInv, TypeOK
<1>2. s[1] = c /\ s[2] = ends
  BY <1>1
<1>3. Join(c, ends, {}) /\ cutOff' = (cutOff \ {s}) \cup Adrift(c, {})
  BY <1>2, Zenon DEF AddCutOff
<1>4. {} \in SUBSET Thread
  OBVIOUS
<1>5. cutOff' \subseteq Pid \X SUBSET End
  BY <1>3, <1>4, AdriftType DEF IInv, TypeOK
<1> QED
  BY <1>3, <1>4, <1>5, JoinStep

LEMMA DeleteProcessStep ==
    ASSUME IInv, NEW p \in Pid, DeleteProcess(p)
    PROVE  IInv'
<1> DEFINE closed(id) == Orphan(WithoutProcess(anonymousPipes[id], p), p)
           table == [id \in Live |-> closed(id)]
           after == Purge(table)
           eof   == {t \in Released(after) : Owner[t] # p}
<1>1. Live \in SUBSET PipeId
  BY DEF IInv, TypeOK
<1>2. ASSUME NEW id \in Live
      PROVE  closed(id) \in Pipe /\ (HasEnd(closed(id)) => Sound(closed(id)))
  <2>1. anonymousPipes[id] \in Pipe /\ Sound(anonymousPipes[id])
    BY DEF IInv, TypeOK, QueuesSound
  <2>2. /\ WithoutProcess(anonymousPipes[id], p) \in Pipe
        /\ HasEnd(WithoutProcess(anonymousPipes[id], p))
             => Sound(WithoutProcess(anonymousPipes[id], p))
    BY <2>1, WithoutProcessSound
  <2> QED
    BY <2>2, OrphanSound
<1> HIDE DEF closed
<1>3. /\ table \in [Live -> Pipe]
      /\ \A id \in Live : HasEnd(table[id]) => Sound(table[id])
  BY <1>2
<1> HIDE DEF table
<1>4. /\ DOMAIN after \subseteq Live
      /\ after \in [DOMAIN after -> Pipe]
      /\ \A id \in DOMAIN after : Sound(after[id])
  BY <1>1, <1>3, PurgeSound
<1>5. /\ anonymousPipes' = after
      /\ call' = Answer(eof \cup {t \in Thread : Owner[t] = p})
      /\ replies' = [u \in eof |-> Got(0)]
  BY DEF DeleteProcess, table, closed
<1> HIDE DEF after
<1>6. Live' \subseteq PipeId /\ anonymousPipes' \in [Live' -> Pipe] /\ QueuesSound'
  BY <1>1, <1>4, <1>5 DEF Live, QueuesSound
<1>7. call' \in [Thread -> Call]
  BY <1>5, AnswerType
<1>8. DOMAIN replies' \subseteq Thread /\ replies' \in [DOMAIN replies' -> Reply]
  <2>1. eof \subseteq Thread
    BY <1>4, ReleasedType
  <2> HIDE DEF eof
  <2> QED
    BY <1>5, <2>1, ReplyType
<1>9. fds' \in [Pid -> SUBSET End] /\ proc' \in [Pid -> {"unborn", "running", "gone"}]
  BY DEF DeleteProcess, IInv, TypeOK
<1> QED
  BY <1>6, <1>7, <1>8, <1>9 DEF DeleteProcess, IInv, TypeOK

LEMMA NextInv == IInv /\ [Next]_vars => IInv'
<1> SUFFICES ASSUME IInv, [Next]_vars PROVE IInv'
  OBVIOUS
<1>1. CASE UNCHANGED vars
  BY <1>1 DEF vars, IInv, TypeOK, QueuesSound, Live, Sound
<1>2. CASE Next
  BY <1>2, APipeStep, WriteAcceptedStep, WriteRefusedStep, ReadBufferedStep,
     ReadBlocksStep, ReadNothingStep, CloseStep, SpawnRequestStep,
     AddProcessPipesStep, AddCutOffStep, DeleteProcessStep DEF Next, Write, Read
<1> QED
  BY <1>1, <1>2

-----------------------------------------------------------------------------
(* Theorems *)

\* The queues of the pipes stay sound whatever the clients do: one inductive
\* invariant, preserved by every handler.
THEOREM Invariance == Spec => []IInv
  BY InitInv, NextInv, PTL DEF Spec

\* Every variable keeps its type.
THEOREM TypeCorrect == Spec => []TypeOK
<1>1. IInv => TypeOK
  BY DEF IInv
<1> QED
  BY <1>1, Invariance, PTL

\* No read waits while data is buffered, for any number of readers, writers
\* and threads (handleMessageAPipeWrite, handleMessageAPipeRead).
THEOREM NoLostData == Spec => []NoReadWaitsOnData
<1>1. IInv => NoReadWaitsOnData
  BY DEF IInv, QueuesSound, Sound, NoReadWaitsOnData
<1> QED
  BY <1>1, Invariance, PTL

\* Data is only ever kept for a pipe that has a reader (closeAPipe).
THEOREM NoDataForNobody == Spec => []BufferHasReader
<1>1. IInv => BufferHasReader
  BY DEF IInv, QueuesSound, Sound, BufferHasReader
<1> QED
  BY <1>1, Invariance, PTL

\* No read waits on a pipe that has run out of writers (closeAPipe,
\* deleteProcess): a pipeline cannot hang on a writer that is gone.
THEOREM NoReadWaitsForNobody == Spec => []PendingReadHasWriter
<1>1. IInv => PendingReadHasWriter
  BY DEF IInv, QueuesSound, Sound, PendingReadHasWriter
<1> QED
  BY <1>1, Invariance, PTL

-----------------------------------------------------------------------------
(* Who has which end and who waits for what *)

\* A blocked read is made by a running process that has the read end open, that
\* the pipe knows, and whose request is in the queue.
BlockedReads ==
    \A t \in Thread, id \in PipeId : call[t] = Reading(id) =>
        /\ Running(Owner[t])
        /\ <<id, FALSE>> \in fds[Owner[t]]
        /\ Registered(Owner[t], id, FALSE)
        /\ t \in Threads(anonymousPipes[id].readsPending)

\* The requests in queue q of pipe id are made by threads that wait for that
\* pipe, one request each.
Queued(q, id) ==
    \A i \in DOMAIN q : q[i].thread # NoThread =>
        /\ call[q[i].thread] = Reading(id)
        /\ \A j \in DOMAIN q : q[j].thread = q[i].thread => j = i

QueuedReads == \A id \in Live : Queued(anonymousPipes[id].readsPending, id)

\* A child that is being spawned is not born yet and has one parent, unless a
\* process replaces its own image.
Spawns ==
    \A t \in Thread : call[t].op = "spawn" =>
        /\ Running(Owner[t])
        /\ \/ proc[call[t].child] = "unborn"
           \/ call[t].child = Owner[t] /\ Owner[t] \in Execs
        /\ \A u \in Thread :
              call[u].op = "spawn" /\ call[u].child = call[t].child =>
                  u = t \/ call[t].child = Owner[t]
        /\ \A e \in call[t].ends : e[1] < anonymousPipeId

\* The next pipe id has never been used, and only running processes have ends.
Fresh ==
    /\ \A id \in Live : id < anonymousPipeId
    /\ \A p \in Pid : \A e \in fds[p] : e[1] < anonymousPipeId
    /\ \A p \in Pid : ~Running(p) => fds[p] = {}

\* The server knows every end of a live pipe that a process has open.
KnownEnds ==
    \A p \in Pid, id \in Live, w \in BOOLEAN :
        <<id, w>> \in fds[p] => Registered(p, id, w)

\* No write is kept after its last byte is read.
NoEmptyWrites ==
    \A id \in Live : \A i \in DOMAIN anonymousPipes[id].writesPending :
        anonymousPipes[id].writesPending[i] # <<>>

\* A spawn without a caller has a child of its own, or replaces a process.
Cuts ==
    \A s \in cutOff :
        /\ proc[s[1]] = "unborn" \/ s[1] \in Execs
        /\ proc[s[1]] = "unborn" =>
              /\ \A u \in Thread : call[u].op = "spawn" => call[u].child # s[1]
              /\ \A r \in cutOff : r[1] = s[1] => r = s
        /\ \A e \in s[2] : e[1] < anonymousPipeId

Ends  == Spawns /\ Cuts /\ Fresh /\ KnownEnds /\ NoGhostEnd
Reads == BlockedReads /\ QueuedReads

FullInv == IInv /\ Ends /\ Reads /\ NoEmptyWrites

\* Queue q2 holds the requests of q, those of the threads in G without sender.
Kept(q, q2, G) ==
    /\ DOMAIN q2 = DOMAIN q
    /\ \A i \in DOMAIN q :
         q2[i].thread = IF q[i].thread \in G THEN NoThread ELSE q[i].thread

-----------------------------------------------------------------------------
(* What closing does to one pipe *)

LEMMA CallForms ==
    ASSUME IInv, NEW t \in Thread
    PROVE  \/ call[t] = Idle
           \/ \E id \in PipeId : call[t] = Reading(id)
           \/ \E c \in Pid, ends \in SUBSET End : call[t] = Spawning(c, ends)
<1>1. call[t] \in Call
  BY DEF IInv, TypeOK
<1>2. \A x \in Call :
         \/ x = Idle
         \/ \E id \in PipeId : x = Reading(id)
         \/ \E c \in Pid, ends \in SUBSET End : x = Spawning(c, ends)
  BY SMT DEF Call
<1> QED
  BY <1>1, <1>2

LEMMA CallsDiffer ==
    /\ Idle.op = "none"
    /\ \A id : Reading(id).op = "read" /\ Reading(id).pipe = id
    /\ \A c, ends : /\ Spawning(c, ends).op = "spawn"
                    /\ Spawning(c, ends).child = c
                    /\ Spawning(c, ends).ends = ends
  BY DEF Idle, Reading, Spawning

\* The queue q2 is what closing leaves of q: all of it, or nothing when the
\* pipe has no writer left.
LEMMA SettleQueue ==
    ASSUME NEW pipe \in Pipe
    PROVE  /\ Settle(pipe).readers = pipe.readers
           /\ Settle(pipe).writers = pipe.writers
           /\ \/ Settle(pipe).readsPending = pipe.readsPending
              \/ Settle(pipe).readsPending = <<>> /\ pipe.writers = {}
           /\ \/ Settle(pipe).writesPending = pipe.writesPending
              \/ Settle(pipe).writesPending = <<>> /\ pipe.readers = {}
  BY DEF Settle, Pipe

LEMMA WithoutReaderQueue ==
    ASSUME NEW pipe \in Pipe, NEW p \in Pid
    PROVE  LET n == WithoutReader(pipe, p)
           IN  /\ n.readers = pipe.readers \ {p}
               /\ n.writers = pipe.writers
               /\ \/ n.readsPending = pipe.readsPending
                  \/ n.readsPending = <<>> /\ n.writers = {}
               /\ \/ n.writesPending = pipe.writesPending
                  \/ n.writesPending = <<>> /\ n.readers = {}
<1> DEFINE q == [pipe EXCEPT !.readers = @ \ {p}]
<1>1. q \in Pipe /\ q.writers = pipe.writers /\ q.readers = pipe.readers \ {p}
      /\ q.readsPending = pipe.readsPending /\ q.writesPending = pipe.writesPending
  BY DEF Pipe
<1>2. WithoutReader(pipe, p) = Settle(q)
  BY DEF WithoutReader
<1> HIDE DEF q
<1> QED
  BY <1>1, <1>2, SettleQueue

LEMMA WithoutWriterQueue ==
    ASSUME NEW pipe \in Pipe, NEW p \in Pid
    PROVE  LET n == WithoutWriter(pipe, p)
           IN  /\ n.readers = pipe.readers
               /\ n.writers = pipe.writers \ {p}
               /\ \/ n.readsPending = pipe.readsPending
                  \/ n.readsPending = <<>> /\ n.writers = {}
               /\ \/ n.writesPending = pipe.writesPending
                  \/ n.writesPending = <<>> /\ n.readers = {}
<1> DEFINE q == [pipe EXCEPT !.writers = @ \ {p}]
<1>1. q \in Pipe /\ q.readers = pipe.readers /\ q.writers = pipe.writers \ {p}
      /\ q.readsPending = pipe.readsPending /\ q.writesPending = pipe.writesPending
  BY DEF Pipe
<1>2. WithoutWriter(pipe, p) = Settle(q)
  BY DEF WithoutWriter
<1> HIDE DEF q
<1> QED
  BY <1>1, <1>2, SettleQueue

LEMMA WithoutProcessQueue ==
    ASSUME NEW pipe \in Pipe, Sound(pipe), NEW p \in Pid
    PROVE  LET n == WithoutProcess(pipe, p)
           IN  /\ n.readers = pipe.readers \ {p}
               /\ n.writers = pipe.writers \ {p}
               /\ \/ n.readsPending = pipe.readsPending
                  \/ n.readsPending = <<>> /\ n.writers = {}
               /\ \/ n.writesPending = pipe.writesPending
                  \/ n.writesPending = <<>> /\ n.readers = {}
<1> DEFINE r == IF p \in pipe.readers THEN WithoutReader(pipe, p) ELSE pipe
<1>1. r \in Pipe
  BY WithoutReaderSound
<1>2. /\ r.readers = pipe.readers \ {p}
      /\ r.writers = pipe.writers
      /\ \/ r.readsPending = pipe.readsPending
         \/ r.readsPending = <<>> /\ r.writers = {}
      /\ \/ r.writesPending = pipe.writesPending
         \/ r.writesPending = <<>> /\ r.readers = {}
  BY WithoutReaderQueue
<1>3. WithoutProcess(pipe, p) = IF p \in r.writers THEN WithoutWriter(r, p) ELSE r
  BY DEF WithoutProcess
<1> HIDE DEF r
<1>4. CASE p \in r.writers
  <2> DEFINE n == WithoutWriter(r, p)
  <2>1. /\ n.readers = r.readers
        /\ n.writers = r.writers \ {p}
        /\ \/ n.readsPending = r.readsPending
           \/ n.readsPending = <<>> /\ n.writers = {}
        /\ \/ n.writesPending = r.writesPending
           \/ n.writesPending = <<>> /\ n.readers = {}
    BY <1>1, WithoutWriterQueue
  <2> HIDE DEF n
  <2>2. WithoutProcess(pipe, p) = n
    BY <1>3, <1>4 DEF n
  <2> QED
    BY <1>2, <1>4, <2>1, <2>2
<1>5. CASE p \notin r.writers
  BY <1>2, <1>3, <1>5
<1> QED
  BY <1>4, <1>5

LEMMA OrphanQueue ==
    ASSUME NEW pipe \in Pipe, NEW p \in Pid
    PROVE  LET n == Orphan(pipe, p)
           IN  /\ n.readers = pipe.readers
               /\ n.writers = pipe.writers
               /\ n.writesPending = pipe.writesPending
               /\ Kept(pipe.readsPending, n.readsPending,
                       {t \in Thread : Owner[t] = p})
<1> DEFINE q == pipe.readsPending
           moved(i) == IF q[i].thread # NoThread /\ Owner[q[i].thread] = p
                       THEN [q[i] EXCEPT !.thread = NoThread] ELSE q[i]
           f == [i \in DOMAIN q |-> moved(i)]
           G == {t \in Thread : Owner[t] = p}
<1>1. q \in Seq(ReadRequest)
  BY DEF Pipe
<1>2. ASSUME NEW i \in DOMAIN q
      PROVE  moved(i).thread = IF q[i].thread \in G THEN NoThread ELSE q[i].thread
  <2>1. q[i] \in ReadRequest
    BY <1>1, <1>2
  <2>2. q[i].thread \in Thread \cup {NoThread}
    BY <2>1 DEF ReadRequest
  <2>3. ASSUME NEW r \in ReadRequest
        PROVE  [r EXCEPT !.thread = NoThread].thread = NoThread
    BY DEF ReadRequest
  <2>4. [q[i] EXCEPT !.thread = NoThread].thread = NoThread
    BY <2>1, <2>3
  <2> QED
    BY <2>2, <2>4
<1>3. Orphan(pipe, p) = [pipe EXCEPT !.readsPending = f]
  BY DEF Orphan
<1> HIDE DEF moved
<1>4. Kept(q, f, G)
  BY <1>2 DEF Kept
<1> HIDE DEF f, G
<1>5. LET n == Orphan(pipe, p)
      IN  /\ n.readers = pipe.readers /\ n.writers = pipe.writers
          /\ n.writesPending = pipe.writesPending /\ n.readsPending = f
  BY <1>3 DEF Pipe
<1> QED
  BY <1>4, <1>5 DEF G

LEMMA NothingIn ==
    ASSUME NEW S, NEW s \in Seq(S)
    PROVE  (DOMAIN s = DOMAIN <<>>) <=> s = <<>>
  OBVIOUS

\* Deleting pipes keeps the others as they are.
LEMMA PurgeKeeps ==
    ASSUME NEW D, NEW pipes, DOMAIN pipes = D
    PROVE  /\ DOMAIN Purge(pipes) = {id \in D : HasEnd(pipes[id])}
           /\ \A id \in DOMAIN Purge(pipes) : Purge(pipes)[id] = pipes[id]
  BY DEF Purge, Open, HasEnd

-----------------------------------------------------------------------------
(* Steps in which reads are answered *)

\* Pipes are deleted, queues are emptied with an answer, the requests of the
\* threads in G lose their sender: the others keep waiting in the queue.
LEMMA ReadsStep ==
    ASSUME FullInv, NEW G \in SUBSET Thread, NEW new,
           anonymousPipes' = new, DOMAIN new \subseteq Live,
           call' = Answer(Released(new) \cup G),
           \A id \in DOMAIN new :
              \/ Kept(anonymousPipes[id].readsPending, new[id].readsPending, G)
              \/ new[id].readsPending = <<>>,
           \A u \in Thread \ G, id \in PipeId : call[u] = Reading(id) =>
              /\ Running(Owner[u])'
              /\ <<id, FALSE>> \in fds'[Owner[u]]
              /\ id \in DOMAIN new
              /\ Owner[u] \in new[id].readers
    PROVE  Reads'
<1> DEFINE T == Released(new) \cup G
           q(id) == anonymousPipes[id].readsPending
           q2(id) == new[id].readsPending
<1>1. \A u \in Thread : call'[u] = IF u \in T THEN Idle ELSE call[u]
  BY Zenon DEF Answer
<1>2. \A id : Reading(id) # Idle
  BY CallsDiffer
<1>3. BlockedReads'
  <2> SUFFICES ASSUME NEW u \in Thread, NEW id \in PipeId, call'[u] = Reading(id)
               PROVE  /\ Running(Owner[u])'
                      /\ <<id, FALSE>> \in fds'[Owner[u]]
                      /\ Registered(Owner[u], id, FALSE)'
                      /\ u \in Threads(q2(id))
    BY Zenon DEF BlockedReads
  <2>1. u \notin T /\ call[u] = Reading(id)
    BY <1>1, <1>2
  <2>2. id \in DOMAIN new /\ id \in Live /\ u \in Threads(q(id))
    BY <2>1 DEF FullInv, Reads, BlockedReads
  <2>3. u \in Threads(q2(id))
    BY <2>1, <2>2 DEF Released
  <2>4. Registered(Owner[u], id, FALSE)'
    BY <2>1, <2>2 DEF Registered, Live
  <2> QED
    BY <2>1, <2>3, <2>4
<1>4. QueuedReads'
  <2> SUFFICES ASSUME NEW id \in DOMAIN new, NEW i \in DOMAIN q2(id),
                      q2(id)[i].thread # NoThread
               PROVE  /\ call'[q2(id)[i].thread] = Reading(id)
                      /\ \A j \in DOMAIN q2(id) :
                            q2(id)[j].thread = q2(id)[i].thread => j = i
    BY Zenon DEF QueuedReads, Queued, Live
  <2>1. Kept(q(id), q2(id), G)
    <3>1. DOMAIN <<>> = {}
      OBVIOUS
    <3> QED
      BY <3>1
  <2>2. /\ DOMAIN q2(id) = DOMAIN q(id)
        /\ \A j \in DOMAIN q(id) : q2(id)[j].thread =
              IF q(id)[j].thread \in G THEN NoThread ELSE q(id)[j].thread
    BY <2>1, Zenon DEF Kept
  <2> DEFINE u == q2(id)[i].thread
  <2>3. id \in Live /\ q(id)[i].thread = u /\ u \notin G
    BY <2>2
  <2>4. /\ call[u] = Reading(id)
        /\ \A j \in DOMAIN q(id) : q(id)[j].thread = u => j = i
    BY <2>2, <2>3 DEF FullInv, Reads, QueuedReads, Queued
  <2>5. u \in Thread
    <3>1. q(id) \in Seq(ReadRequest)
      BY <2>3 DEF FullInv, IInv, TypeOK, Pipe
    <3>2. q(id)[i] \in ReadRequest
      BY <2>2, <3>1
    <3> QED
      BY <2>3, <3>2 DEF ReadRequest
  <2>6. u \in Threads(q2(id))
    BY DEF Threads
  <2>7. u \notin Released(new)
    <3> SUFFICES ASSUME NEW d \in DOMAIN new, u \in Threads(q(d)), d # id
                 PROVE  FALSE
      BY <2>6 DEF Released
    <3>1. PICK k \in DOMAIN q(d) : q(d)[k].thread = u
      BY DEF Threads
    <3>2. call[u] = Reading(d)
      BY <3>1 DEF FullInv, Reads, QueuedReads, Queued
    <3>3. Reading(d).pipe = d /\ Reading(id).pipe = id
      BY Zenon, CallsDiffer
    <3> QED
      BY <2>4, <3>2, <3>3
  <2>8. call'[u] = Reading(id)
    BY <1>1, <2>3, <2>4, <2>5, <2>7
  <2>9. \A j \in DOMAIN q2(id) : q2(id)[j].thread = u => j = i
    BY <2>2, <2>3, <2>4
  <2> QED
    BY <2>8, <2>9
<1> QED
  BY <1>3, <1>4 DEF Reads

\* What is left of the queue when the first m requests are served.
LEMMA SuffixQueue ==
    ASSUME NEW q \in Seq(ReadRequest), NEW m \in 0 .. Len(q)
    PROVE  /\ \A i \in DOMAIN Suffix(q, m) :
                 m + i \in DOMAIN q /\ Suffix(q, m)[i] = q[m + i] /\ i \in Nat
           /\ \A k \in DOMAIN q :
                 \/ k \in DOMAIN Prefix(q, m) /\ Prefix(q, m)[k] = q[k]
                 \/ k - m \in DOMAIN Suffix(q, m) /\ Suffix(q, m)[k - m] = q[k]
           /\ \A k \in DOMAIN Prefix(q, m) :
                 k \in DOMAIN q /\ k \in 1 .. m /\ Prefix(q, m)[k] = q[k]
<1>1. PICK p : p = Prefix(q, m)
  OBVIOUS
<1>2. PICK r : r = Suffix(q, m)
  OBVIOUS
<1>3. /\ DOMAIN q = 1 .. Len(q) /\ DOMAIN p = 1 .. m /\ DOMAIN r = 1 .. Len(q) - m
      /\ m \in Nat /\ Len(q) \in Nat /\ m <= Len(q)
  BY <1>1, <1>2 DEF Suffix, Prefix
<1>4. /\ \A i \in 1 .. m : p[i] = q[i]
      /\ \A i \in 1 .. Len(q) - m : r[i] = q[m + i]
  BY <1>1, <1>2 DEF Suffix, Prefix
<1>5. \A i \in DOMAIN r : m + i \in DOMAIN q /\ r[i] = q[m + i] /\ i \in Nat
  BY <1>3, <1>4
<1>6. \A k \in DOMAIN p : k \in DOMAIN q /\ k \in 1 .. m /\ p[k] = q[k]
  BY <1>3, <1>4
<1>7. ASSUME NEW k \in DOMAIN q
      PROVE  \/ k \in DOMAIN p /\ p[k] = q[k]
             \/ k - m \in DOMAIN r /\ r[k - m] = q[k]
  <2>1. CASE k <= m
    BY <1>3, <1>4, <2>1
  <2>2. CASE k > m
    <3>1. k - m \in 1 .. Len(q) - m /\ m + (k - m) = k
      BY <1>3, <2>2
    <3> QED
      BY <1>3, <1>4, <3>1
  <2> QED
    BY <1>3, <2>1, <2>2
<1> QED
  BY <1>1, <1>2, <1>5, <1>6, <1>7

\* A step of the write handler on the queue of one pipe: the first m requests
\* are answered.
LEMMA ServeStep ==
    ASSUME FullInv, NEW id \in Live, NEW new, Live' = Live,
           NEW m \in 0 .. Len(anonymousPipes[id].readsPending),
           \A d \in Live : anonymousPipes'[d] = IF d = id THEN new ELSE anonymousPipes[d],
           new.readsPending = Suffix(anonymousPipes[id].readsPending, m),
           new.readers = anonymousPipes[id].readers,
           call' = Answer(Threads(Prefix(anonymousPipes[id].readsPending, m))),
           UNCHANGED <<proc, fds>>
    PROVE  Reads'
<1> DEFINE q == anonymousPipes[id].readsPending
           S == Threads(Prefix(q, m))
           q2 == Suffix(q, m)
<1>0. q \in Seq(ReadRequest) /\ m \in 0 .. Len(q)
  BY DEF FullInv, IInv, TypeOK, Pipe
<1>1. \A u \in Thread : call'[u] = IF u \in S THEN Idle ELSE call[u]
  BY Zenon DEF Answer
<1>2. \A d : Reading(d) # Idle
  BY CallsDiffer
<1>3. /\ \A i \in DOMAIN q2 : m + i \in DOMAIN q /\ q2[i] = q[m + i] /\ i \in Nat
      /\ \A k \in DOMAIN q :
            \/ k \in DOMAIN Prefix(q, m) /\ Prefix(q, m)[k] = q[k]
            \/ k - m \in DOMAIN q2 /\ q2[k - m] = q[k]
      /\ \A k \in DOMAIN Prefix(q, m) :
            k \in DOMAIN q /\ k \in 1 .. m /\ Prefix(q, m)[k] = q[k]
  <2> HIDE DEF q
  <2> QED
    BY <1>0, SuffixQueue
<1>4. m \in Nat
  BY <1>0
<1>5. anonymousPipes'[id].readsPending = q2
      /\ anonymousPipes'[id].readers = anonymousPipes[id].readers
  BY Zenon
<1> HIDE DEF S, q2
<1>6. BlockedReads'
  <2> SUFFICES ASSUME NEW u \in Thread, NEW d \in PipeId, call'[u] = Reading(d)
               PROVE  /\ Running(Owner[u])'
                      /\ <<d, FALSE>> \in fds'[Owner[u]]
                      /\ Registered(Owner[u], d, FALSE)'
                      /\ u \in Threads(anonymousPipes'[d].readsPending)
    BY Zenon DEF BlockedReads
  <2>1. u \notin S /\ call[u] = Reading(d)
    BY <1>1, <1>2
  <2>2. /\ Running(Owner[u]) /\ <<d, FALSE>> \in fds[Owner[u]]
        /\ Registered(Owner[u], d, FALSE)
        /\ u \in Threads(anonymousPipes[d].readsPending)
    BY <2>1 DEF FullInv, Reads, BlockedReads
  <2>3. Running(Owner[u])' /\ <<d, FALSE>> \in fds'[Owner[u]]
    BY <2>2 DEF Running
  <2>4. d \in Live /\ anonymousPipes'[d].readers = anonymousPipes[d].readers
    BY <1>5, <2>2 DEF Registered
  <2>5. Registered(Owner[u], d, FALSE)'
    BY <2>2, <2>4 DEF Registered
  <2>6. u \in Threads(anonymousPipes'[d].readsPending)
    <3>1. CASE d # id
      BY <2>2, <2>4, <3>1
    <3>2. CASE d = id
      <4>1. PICK k \in DOMAIN q : q[k].thread = u /\ u # NoThread
        BY <2>2, <3>2 DEF Threads
      <4>2. k \notin DOMAIN Prefix(q, m)
        BY <1>3, <2>1, <4>1 DEF S, Threads
      <4>3. k - m \in DOMAIN q2 /\ q2[k - m] = q[k]
        BY <1>3, <4>2
      <4>4. u \in Threads(q2)
        BY <4>1, <4>3 DEF Threads
      <4> QED
        BY <1>5, <3>2, <4>4
    <3> QED
      BY <3>1, <3>2
  <2> QED
    BY <2>3, <2>5, <2>6
<1>7. QueuedReads'
  <2> SUFFICES ASSUME NEW d \in Live PROVE Queued(anonymousPipes[d].readsPending, d)'
    BY DEF QueuedReads
  <2>1. \A u \in S : call[u] = Reading(id)
    BY <1>3 DEF FullInv, Reads, QueuedReads, Queued, S, Threads
  <2>2. \A e : e # id => Reading(e) # Reading(id)
    BY DEF Reading
  <2>3. ASSUME NEW i \in DOMAIN anonymousPipes[d].readsPending
        PROVE  anonymousPipes[d].readsPending[i].thread \in Thread \cup {NoThread}
    <3>1. anonymousPipes[d].readsPending \in Seq(ReadRequest)
      BY DEF FullInv, IInv, TypeOK, Pipe
    <3>2. anonymousPipes[d].readsPending[i] \in ReadRequest
      BY <2>3, <3>1
    <3> QED
      BY <3>2 DEF ReadRequest
  <2>4. CASE d # id
    <3> DEFINE r == anonymousPipes[d].readsPending
    <3>1. anonymousPipes'[d].readsPending = r
      BY <2>4
    <3>2. ASSUME NEW i \in DOMAIN r, r[i].thread # NoThread
          PROVE  /\ call'[r[i].thread] = Reading(d)
                 /\ \A j \in DOMAIN r : r[j].thread = r[i].thread => j = i
      <4>1. call[r[i].thread] = Reading(d)
            /\ \A j \in DOMAIN r : r[j].thread = r[i].thread => j = i
        BY <3>2 DEF FullInv, Reads, QueuedReads, Queued
      <4>2. r[i].thread \notin S
        BY <2>1, <2>2, <2>4, <4>1
      <4> QED
        BY <1>1, <2>3, <3>2, <4>1, <4>2
    <3> HIDE DEF r
    <3> QED
      BY <3>1, <3>2 DEF Queued
  <2>5. CASE d = id
    <3>1. ASSUME NEW i \in DOMAIN q2, q2[i].thread # NoThread
          PROVE  /\ call'[q2[i].thread] = Reading(d)
                 /\ \A j \in DOMAIN q2 : q2[j].thread = q2[i].thread => j = i
      <4>1. m + i \in DOMAIN q /\ q2[i] = q[m + i] /\ i \in Nat
        BY <1>3, <3>1
      <4>2. call[q2[i].thread] = Reading(d)
            /\ \A j \in DOMAIN q : q[j].thread = q2[i].thread => j = m + i
        BY <2>5, <3>1, <4>1 DEF FullInv, Reads, QueuedReads, Queued
      <4>3. q2[i].thread \notin S
        <5> SUFFICES ASSUME NEW k \in DOMAIN Prefix(q, m),
                            Prefix(q, m)[k].thread = q2[i].thread
                     PROVE  FALSE
          BY DEF S, Threads
        <5>1. k \in DOMAIN q /\ k \in 1 .. m /\ Prefix(q, m)[k] = q[k]
          BY <1>3
        <5>2. k = m + i
          BY <4>2, <5>1
        <5>3. i >= 1
          BY <1>0, <3>1 DEF q2, Suffix
        <5> QED
          BY <1>4, <4>1, <5>1, <5>2, <5>3
      <4>4. q2[i].thread \in Thread
        BY <2>3, <2>5, <3>1, <4>1
      <4>5. ASSUME NEW j \in DOMAIN q2, q2[j].thread = q2[i].thread
            PROVE  j = i
        <5>1. m + j \in DOMAIN q /\ q2[j] = q[m + j] /\ j \in Nat
          BY <1>3, <4>5
        <5>2. m + j = m + i
          BY <4>2, <4>5, <5>1
        <5> QED
          BY <1>4, <4>1, <5>1, <5>2
      <4>6. call'[q2[i].thread] = Reading(d)
        BY <1>1, <4>2, <4>3, <4>4
      <4> QED
        BY <4>5, <4>6
    <3> QED
      BY <1>5, <2>5, <3>1 DEF Queued
  <2> QED
    BY <2>4, <2>5
<1> QED
  BY <1>6, <1>7 DEF Reads

\* A step that leaves the queues and the readers alone, in which only idle
\* threads change their call and none starts to read.
LEMMA QueuesKept ==
    ASSUME FullInv, Live \subseteq Live',
           \A d \in Live : /\ anonymousPipes'[d].readsPending = anonymousPipes[d].readsPending
                           /\ anonymousPipes'[d].readers = anonymousPipes[d].readers,
           \A d \in Live' \ Live : anonymousPipes'[d].readsPending = <<>>,
           \A u \in Thread : \A d \in PipeId :
              (call'[u] = Reading(d)) <=> (call[u] = Reading(d)),
           \A p \in Pid : Running(p) => Running(p)' /\ fds[p] \subseteq fds'[p]
    PROVE  Reads'
<1>1. BlockedReads'
  <2> SUFFICES ASSUME NEW u \in Thread, NEW d \in PipeId, call'[u] = Reading(d)
               PROVE  /\ Running(Owner[u])'
                      /\ <<d, FALSE>> \in fds'[Owner[u]]
                      /\ Registered(Owner[u], d, FALSE)'
                      /\ u \in Threads(anonymousPipes'[d].readsPending)
    BY Zenon DEF BlockedReads
  <2>1. /\ Running(Owner[u]) /\ <<d, FALSE>> \in fds[Owner[u]]
        /\ Registered(Owner[u], d, FALSE)
        /\ u \in Threads(anonymousPipes[d].readsPending)
    BY DEF FullInv, Reads, BlockedReads
  <2>2. d \in Live
    BY <2>1 DEF Registered
  <2>3. Registered(Owner[u], d, FALSE)'
    BY <2>1, <2>2 DEF Registered
  <2>4. Owner[u] \in Pid
    OBVIOUS
  <2> QED
    BY <2>1, <2>2, <2>3, <2>4
<1>2. QueuedReads'
  <2> SUFFICES ASSUME NEW d \in Live' PROVE Queued(anonymousPipes[d].readsPending, d)'
    BY DEF QueuedReads
  <2>1. CASE d \in Live
    <3> DEFINE r == anonymousPipes[d].readsPending
    <3>1. r \in Seq(ReadRequest) /\ d \in PipeId
      BY <2>1 DEF FullInv, IInv, TypeOK, Pipe
    <3>2. ASSUME NEW i \in DOMAIN r, r[i].thread # NoThread
          PROVE  /\ call'[r[i].thread] = Reading(d)
                 /\ \A j \in DOMAIN r : r[j].thread = r[i].thread => j = i
      <4>1. call[r[i].thread] = Reading(d)
            /\ \A j \in DOMAIN r : r[j].thread = r[i].thread => j = i
        BY <2>1, <3>2 DEF FullInv, Reads, QueuedReads, Queued
      <4>2. r[i] \in ReadRequest
        BY <3>1, <3>2
      <4>3. r[i].thread \in Thread
        BY <3>2, <4>2 DEF ReadRequest
      <4> QED
        BY <3>1, <4>1, <4>3
    <3>3. anonymousPipes'[d].readsPending = r
      BY <2>1
    <3> HIDE DEF r
    <3> QED
      BY <3>2, <3>3 DEF Queued
  <2>2. CASE d \notin Live
    <3>1. anonymousPipes'[d].readsPending = <<>>
      BY <2>2
    <3>2. DOMAIN <<>> = {}
      OBVIOUS
    <3> QED
      BY <3>1, <3>2 DEF Queued
  <2> QED
    BY <2>1, <2>2
<1> QED
  BY <1>1, <1>2 DEF Reads

-----------------------------------------------------------------------------
(* What each handler does to the queues *)

\* The first m requests are served, new is the pipe afterwards.
WriteDoes(id, m, cut, left, new) ==
    /\ id \in Live /\ Live' = Live
    /\ \A d \in Live : anonymousPipes'[d] = IF d = id THEN new
                                          ELSE anonymousPipes[d]
    /\ new.readsPending = Suffix(anonymousPipes[id].readsPending, m)
    /\ new.readers = anonymousPipes[id].readers
    /\ new.writers = anonymousPipes[id].writers
    /\ \/ new.writesPending = anonymousPipes[id].writesPending
       \/ /\ left # <<>>
          /\ new.writesPending = Append(anonymousPipes[id].writesPending, left)
    /\ call' = Answer(Threads(Prefix(anonymousPipes[id].readsPending, m)))
    /\ \A u \in DOMAIN replies' :
         \/ \E v : replies'[u] = Wrote(v)
         \/ \E i \in 1 .. m : replies'[u] = Got(cut[i] - cut[i - 1])

\* One buffered write gives k bytes.
ReadDoes(t, id, k, new) ==
    /\ id \in Live /\ Live' = Live
    /\ \A d \in Live : anonymousPipes'[d] = IF d = id THEN new
                                          ELSE anonymousPipes[d]
    /\ new.readsPending = anonymousPipes[id].readsPending
    /\ new.readers = anonymousPipes[id].readers
    /\ new.writers = anonymousPipes[id].writers
    /\ \A i \in DOMAIN new.writesPending : new.writesPending[i] # <<>>
    /\ replies' = [u \in {t} |-> Got(k)]

\* One end is closed, new is the table of pipes afterwards.
CloseDoes(t, id, w, new) ==
    /\ anonymousPipes' = new /\ Live' = DOMAIN new /\ DOMAIN new \subseteq Live
    /\ \A d \in DOMAIN new :
         /\ new[d].readers = IF d = id /\ ~w
               THEN anonymousPipes[d].readers \ {Owner[t]}
               ELSE anonymousPipes[d].readers
         /\ new[d].writers = IF d = id /\ w
               THEN anonymousPipes[d].writers \ {Owner[t]}
               ELSE anonymousPipes[d].writers
         /\ \/ new[d].readsPending = anonymousPipes[d].readsPending
            \/ new[d].readsPending = <<>> /\ new[d].writers = {}
         /\ \/ new[d].writesPending = anonymousPipes[d].writesPending
            \/ new[d].writesPending = <<>> /\ new[d].readers = {}
    /\ \A d \in Live : \A p \in anonymousPipes[d].readers :
          (d = id /\ ~w /\ p = Owner[t]) \/ d \in DOMAIN new
    /\ call' = Answer(Released(new))
    /\ replies' = [u \in Released(new) |-> Got(0)]

\* Every end of process p is closed.
DeleteDoes(p, new) ==
    /\ anonymousPipes' = new /\ Live' = DOMAIN new /\ DOMAIN new \subseteq Live
    /\ \A d \in DOMAIN new :
         /\ new[d].readers = anonymousPipes[d].readers \ {p}
         /\ new[d].writers = anonymousPipes[d].writers \ {p}
         /\ \/ Kept(anonymousPipes[d].readsPending, new[d].readsPending,
                    {u \in Thread : Owner[u] = p})
            \/ new[d].readsPending = <<>> /\ new[d].writers = {}
         /\ \/ new[d].writesPending = anonymousPipes[d].writesPending
            \/ new[d].writesPending = <<>> /\ new[d].readers = {}
    /\ \A d \in Live : \A r \in anonymousPipes[d].readers :
          r = p \/ d \in DOMAIN new
    /\ call' = Answer(Released(new) \cup {u \in Thread : Owner[u] = p})
    /\ replies' = [u \in {u \in Released(new) : Owner[u] # p} |-> Got(0)]

\* The image c joins the pipes of its ends, the threads in G go on or are gone.
JoinDoes(c, ends, G, new) ==
    /\ anonymousPipes' = new /\ Live' = Live /\ DOMAIN new = Live
    /\ \A d \in Live :
         /\ new[d].readers = IF <<d, FALSE>> \in ends
               THEN anonymousPipes[d].readers \cup {c}
               ELSE anonymousPipes[d].readers
         /\ new[d].writers = IF <<d, TRUE>> \in ends
               THEN anonymousPipes[d].writers \cup {c}
               ELSE anonymousPipes[d].writers
         /\ Kept(anonymousPipes[d].readsPending, new[d].readsPending, G)
         /\ new[d].writesPending = anonymousPipes[d].writesPending
    /\ proc' = [proc EXCEPT ![c] = "running"]
    /\ fds' = [fds EXCEPT ![c] = ends]
    /\ call' = Answer(G)

LEMMA WriteEffect ==
    ASSUME FullInv, NEW t \in Thread, NEW id \in PipeId, NEW n \in Count,
           WriteAccepted(t, id, n)
    PROVE  \E m \in 0 .. Len(anonymousPipes[id].readsPending) :
           \E cut \in Turns(anonymousPipes[id].readsPending, n, m) :
           \E left \in Seq(Byte) : \E new : WriteDoes(id, m, cut, left, new)
<1> DEFINE pipe == anonymousPipes[id]
           q    == pipe.readsPending
           w    == pipe.writesPending
           data == [i \in 1 .. n |-> written[id] + i]
<1>1. PICK m \in 0 .. Len(q) : \E cut \in Turns(q, n, m) : HandOut(t, id, n, m, cut)
  BY DEF WriteAccepted
<1>2. PICK cut \in Turns(q, n, m) : HandOut(t, id, n, m, cut)
  BY <1>1
<1> DEFINE served == Prefix(q, m)
           left   == Suffix(data, cut[m])
           kept   == left # <<>> /\ pipe.readers # {}
           rest   == Suffix(q, m)
           buf    == IF kept THEN Append(w, left) ELSE w
           new    == [pipe EXCEPT !.readsPending = rest, !.writesPending = buf]
<1>3. id \in Live /\ pipe \in Pipe /\ q \in Seq(ReadRequest)
  BY DEF WriteAccepted, Registered, FullInv, IInv, TypeOK, Pipe
<1>4. n \in Nat /\ m \in Nat /\ cut[m] \in 0 .. n
  BY <1>3 DEF Count, Turns
<1>5. left \in Seq(Byte)
  <2>1. written[id] \in Nat
    BY DEF FullInv, IInv, TypeOK
  <2>2. data \in [1 .. n -> Byte]
    BY <1>4, <2>1 DEF Byte
  <2>3. data \in Seq(Byte) /\ Len(data) = n
    BY <1>4, <2>2
  <2> HIDE DEF data
  <2> QED
    BY <1>4, <2>3, SuffixType
<1> HIDE DEF data, left, rest, buf, served
<1>6. /\ new.readsPending = rest /\ new.writesPending = buf
      /\ new.readers = pipe.readers /\ new.writers = pipe.writers
  BY <1>3 DEF Pipe
<1>7. anonymousPipes' = [anonymousPipes EXCEPT ![id] = new]
  BY <1>2, <1>3 DEF HandOut, FullInv, IInv, TypeOK, data, left, rest, buf, Pipe
<1>8. \/ new.writesPending = w
      \/ left # <<>> /\ new.writesPending = Append(w, left)
  BY <1>6 DEF buf
<1> HIDE DEF new
<1>9. Live' = Live /\ \A d \in Live : anonymousPipes'[d] = IF d = id THEN new
                                                   ELSE anonymousPipes[d]
  BY <1>3, <1>7 DEF Live, FullInv, IInv, TypeOK
<1>10. call' = Answer(Threads(served))
  BY <1>2 DEF HandOut, served
<1>11. \A u \in DOMAIN replies' :
          \/ \E v : replies'[u] = Wrote(v)
          \/ \E i \in 1 .. m : replies'[u] = Got(cut[i] - cut[i - 1])
  <2> DEFINE T == Threads(served) \cup {t}
             which(u) == CHOOSE i \in 1 .. m : served[i].thread = u
  <2>1. \E v : replies' = [u \in T |-> IF u = t THEN Wrote(v)
                             ELSE Got(cut[which(u)] - cut[which(u) - 1])]
    <3> DEFINE v == IF left = <<>> \/ kept THEN n ELSE EPIPE
    <3>1. replies' = [u \in T |-> IF u = t THEN Wrote(v)
                        ELSE Got(cut[which(u)] - cut[which(u) - 1])]
      BY <1>2, Zenon DEF HandOut, served, left, data
    <3> HIDE DEF v, which, T
    <3> QED
      BY <3>1
  <2>2. ASSUME NEW u \in T, u # t
        PROVE  which(u) \in 1 .. m
    <3>1. \E i \in 1 .. m : served[i].thread = u
      BY <1>3, <1>4, <2>2, SuffixType DEF Threads, served
    <3> QED
      BY <3>1
  <2> HIDE DEF T, which
  <2> QED
    BY <2>1, <2>2
<1>12. new.readsPending = Suffix(q, m) /\ new.readers = pipe.readers
       /\ new.writers = pipe.writers
  <2>1. rest = Suffix(q, m)
    BY DEF rest
  <2> QED
    BY <1>6, <2>1 DEF new
<1>13. call' = Answer(Threads(Prefix(q, m)))
  BY <1>10 DEF served
<1> HIDE DEF pipe, q, w
<1>14. /\ id \in Live /\ Live' = Live
       /\ \A d \in Live : anonymousPipes'[d] = IF d = id THEN new
                                                   ELSE anonymousPipes[d]
       /\ new.readsPending = Suffix(q, m)
       /\ new.readers = pipe.readers
       /\ new.writers = pipe.writers
       /\ new.writesPending = w \/ (left # <<>> /\ new.writesPending = Append(w, left))
       /\ call' = Answer(Threads(Prefix(q, m)))
       /\ \A u \in DOMAIN replies' :
            \/ \E v : replies'[u] = Wrote(v)
            \/ \E i \in 1 .. m : replies'[u] = Got(cut[i] - cut[i - 1])
  BY <1>3, <1>8, <1>9, <1>11, <1>12, <1>13
<1>15. WriteDoes(id, m, cut, left, new)
  BY <1>14, Zenon DEF WriteDoes, pipe, q, w
<1> QED
  BY <1>5, <1>15, Zenon DEF pipe, q, w

LEMMA ReadEffect ==
    ASSUME FullInv, NEW t \in Thread, NEW id \in PipeId, NEW n \in Count,
           ReadBuffered(t, id, n)
    PROVE  \E k \in Nat \ {0} : \E new : ReadDoes(t, id, k, new)
<1> DEFINE pipe == anonymousPipes[id]
           w    == pipe.writesPending
           item == Head(w)
           k    == Min2(n, Len(item))
           part == Prefix(item, k)
           left == Suffix(item, n)
           rest == IF Len(item) > n THEN <<left>> \o Tail(w) ELSE Tail(w)
           new  == [pipe EXCEPT !.writesPending = rest]
<1>1. id \in Live /\ pipe \in Pipe /\ w \in Seq(Seq(Byte)) /\ w # <<>>
  BY DEF ReadBuffered, Registered, FullInv, IInv, TypeOK, Pipe
<1>2. \A i \in DOMAIN w : w[i] # <<>>
  BY <1>1 DEF FullInv, NoEmptyWrites
<1>3. item \in Seq(Byte) /\ Tail(w) \in Seq(Seq(Byte)) /\ item # <<>>
  BY <1>1, <1>2
<1>4. \A i \in DOMAIN Tail(w) : Tail(w)[i] # <<>>
  BY <1>1, <1>2
<1>5. n \in Nat \ {0} /\ k \in 0 .. Len(item) /\ k \in Nat \ {0}
  BY <1>3 DEF Count, Min2
<1>6. replies' = [u \in {t} |-> Got(Len(part))]
  BY DEF ReadBuffered
<1>7. anonymousPipes' = [anonymousPipes EXCEPT ![id] = new]
  BY <1>1 DEF ReadBuffered, Rest, FullInv, IInv, TypeOK
<1> HIDE DEF item, k
<1>8. Len(part) = k
  BY <1>3, <1>5, SuffixType
<1>9. \A i \in DOMAIN rest : rest[i] # <<>>
  <2>1. CASE Len(item) > n
    <3>1. n \in 0 .. Len(item) /\ Len(item) \in Nat
      BY <1>3, <1>5, <2>1
    <3>2. left \in Seq(Byte) /\ Len(left) = Len(item) - n
      BY <1>3, <3>1, SuffixType
    <3>3. left # <<>>
      BY <1>5, <2>1, <3>1, <3>2
    <3>4. rest = <<left>> \o Tail(w)
      BY <2>1
    <3> HIDE DEF left, rest, w
    <3> QED
      BY <1>3, <1>4, <3>2, <3>3, <3>4
  <2>2. CASE ~(Len(item) > n)
    BY <1>4, <2>2
  <2> QED
    BY <2>1, <2>2
<1> HIDE DEF rest, part
<1>10. /\ new.writesPending = rest /\ new.readsPending = pipe.readsPending
       /\ new.readers = pipe.readers /\ new.writers = pipe.writers
  BY <1>1 DEF Pipe
<1> HIDE DEF new
<1>11. Live' = Live /\ \A d \in Live : anonymousPipes'[d] = IF d = id THEN new
                                                   ELSE anonymousPipes[d]
  BY <1>1, <1>7 DEF Live, FullInv, IInv, TypeOK
<1>12. replies' = [u \in {t} |-> Got(k)]
  BY <1>6, <1>8
<1> QED
  BY <1>1, <1>5, <1>9, <1>10, <1>11, <1>12 DEF ReadDoes

LEMMA CloseEffect ==
    ASSUME FullInv, NEW t \in Thread, NEW id \in PipeId, NEW w \in BOOLEAN,
           Close(t, id, w)
    PROVE  \E new : CloseDoes(t, id, w, new)
<1> DEFINE closed(p) == IF p # id THEN anonymousPipes[p]
                        ELSE IF w THEN WithoutWriter(anonymousPipes[p], Owner[t])
                                  ELSE WithoutReader(anonymousPipes[p], Owner[t])
           table == [p \in Live |-> closed(p)]
           new == Purge(table)
           Same(d, n) ==
                  /\ n.readers = IF d = id /\ ~w
                        THEN anonymousPipes[d].readers \ {Owner[t]}
                        ELSE anonymousPipes[d].readers
                  /\ n.writers = IF d = id /\ w
                        THEN anonymousPipes[d].writers \ {Owner[t]}
                        ELSE anonymousPipes[d].writers
                  /\ \/ n.readsPending = anonymousPipes[d].readsPending
                     \/ n.readsPending = <<>> /\ n.writers = {}
                  /\ \/ n.writesPending = anonymousPipes[d].writesPending
                     \/ n.writesPending = <<>> /\ n.readers = {}
<1>1. ASSUME NEW d \in Live PROVE Same(d, closed(d))
  <2>1. anonymousPipes[d] \in Pipe /\ Owner[t] \in Pid
    BY DEF FullInv, IInv, TypeOK
  <2>2. CASE d # id
    BY <2>2
  <2>3. CASE d = id /\ w
    BY <2>1, <2>3, WithoutWriterQueue
  <2>4. CASE d = id /\ ~w
    BY <2>1, <2>4, WithoutReaderQueue
  <2> QED
    BY <2>2, <2>3, <2>4
<1>2. anonymousPipes' = new /\ call' = Answer(Released(new))
      /\ replies' = [u \in Released(new) |-> Got(0)]
  BY DEF Close
<1> HIDE DEF closed
<1>3. DOMAIN table = Live /\ \A d \in Live : table[d] = closed(d)
  OBVIOUS
<1> HIDE DEF table
<1>4. /\ DOMAIN new = {d \in Live : HasEnd(closed(d))}
      /\ \A d \in DOMAIN new : new[d] = closed(d)
  <2>1. /\ DOMAIN Purge(table) = {d \in Live : HasEnd(table[d])}
        /\ \A d \in DOMAIN Purge(table) : Purge(table)[d] = table[d]
    BY <1>3, PurgeKeeps
  <2>2. {d \in Live : HasEnd(table[d])} = {d \in Live : HasEnd(closed(d))}
    BY <1>3
  <2>3. DOMAIN new \subseteq Live
    BY <2>1
  <2> QED
    BY <1>3, <2>1, <2>2, <2>3
<1> HIDE DEF new
<1>5. \A d \in DOMAIN new : Same(d, new[d])
  BY <1>1, <1>4
<1>6. \A d \in Live : \A p \in anonymousPipes[d].readers :
         (d = id /\ ~w /\ p = Owner[t]) \/ d \in DOMAIN new
  <2> SUFFICES ASSUME NEW d \in Live, NEW p \in anonymousPipes[d].readers,
                      ~(d = id /\ ~w /\ p = Owner[t])
               PROVE  d \in DOMAIN new
    OBVIOUS
  <2>1. p \in closed(d).readers
    BY <1>1
  <2> QED
    BY <1>4, <2>1 DEF HasEnd
<1>7. Live' = DOMAIN new /\ DOMAIN new \subseteq Live
  BY <1>2, <1>4 DEF Live
<1> QED
  BY <1>2, <1>5, <1>6, <1>7 DEF CloseDoes

LEMMA DeleteEffect ==
    ASSUME FullInv, NEW p \in Pid, DeleteProcess(p)
    PROVE  \E new : DeleteDoes(p, new)
<1> DEFINE shut(d) == WithoutProcess(anonymousPipes[d], p)
           closed(d) == Orphan(shut(d), p)
           table == [d \in Live |-> closed(d)]
           new == Purge(table)
           G == {u \in Thread : Owner[u] = p}
           Same(d, n) ==
                  /\ n.readers = anonymousPipes[d].readers \ {p}
                  /\ n.writers = anonymousPipes[d].writers \ {p}
                  /\ \/ Kept(anonymousPipes[d].readsPending, n.readsPending, G)
                     \/ n.readsPending = <<>> /\ n.writers = {}
                  /\ \/ n.writesPending = anonymousPipes[d].writesPending
                     \/ n.writesPending = <<>> /\ n.readers = {}
<1>1. ASSUME NEW d \in Live PROVE Same(d, closed(d))
  <2>1. anonymousPipes[d] \in Pipe /\ Sound(anonymousPipes[d])
    BY DEF FullInv, IInv, TypeOK, QueuesSound
  <2>2. shut(d) \in Pipe
    BY <2>1, WithoutProcessSound
  <2>3. /\ shut(d).readers = anonymousPipes[d].readers \ {p}
        /\ shut(d).writers = anonymousPipes[d].writers \ {p}
        /\ \/ shut(d).readsPending = anonymousPipes[d].readsPending
           \/ shut(d).readsPending = <<>> /\ shut(d).writers = {}
        /\ \/ shut(d).writesPending = anonymousPipes[d].writesPending
           \/ shut(d).writesPending = <<>> /\ shut(d).readers = {}
    BY <2>1, WithoutProcessQueue
  <2> HIDE DEF shut
  <2>4. /\ closed(d).readers = shut(d).readers
        /\ closed(d).writers = shut(d).writers
        /\ closed(d).writesPending = shut(d).writesPending
        /\ Kept(shut(d).readsPending, closed(d).readsPending, G)
    BY <2>2, OrphanQueue
  <2>5. closed(d) \in Pipe
    BY <2>2, OrphanSound
  <2>6. shut(d).readsPending = <<>> => closed(d).readsPending = <<>>
    <3>1. closed(d).readsPending \in Seq(ReadRequest)
      BY <2>5 DEF Pipe
    <3>2. DOMAIN closed(d).readsPending = DOMAIN shut(d).readsPending
      BY <2>4 DEF Kept
    <3> HIDE DEF closed
    <3> QED
      BY <3>1, <3>2, NothingIn
  <2> HIDE DEF closed, G
  <2> QED
    BY <2>3, <2>4, <2>6
<1>2. /\ anonymousPipes' = new
      /\ call' = Answer({u \in Released(new) : Owner[u] # p} \cup G)
      /\ replies' = [u \in {u \in Released(new) : Owner[u] # p} |-> Got(0)]
  BY DEF DeleteProcess
<1> HIDE DEF closed
<1>3. DOMAIN table = Live /\ \A d \in Live : table[d] = closed(d)
  OBVIOUS
<1> HIDE DEF table
<1>4. /\ DOMAIN new = {d \in Live : HasEnd(closed(d))}
      /\ \A d \in DOMAIN new : new[d] = closed(d)
  <2>1. /\ DOMAIN Purge(table) = {d \in Live : HasEnd(table[d])}
        /\ \A d \in DOMAIN Purge(table) : Purge(table)[d] = table[d]
    BY <1>3, PurgeKeeps
  <2>2. {d \in Live : HasEnd(table[d])} = {d \in Live : HasEnd(closed(d))}
    BY <1>3
  <2>3. DOMAIN new \subseteq Live
    BY <2>1
  <2> QED
    BY <1>3, <2>1, <2>2, <2>3
<1> HIDE DEF new
<1>5. \A d \in DOMAIN new : Same(d, new[d])
  BY <1>1, <1>4
<1>6. \A d \in Live : \A r \in anonymousPipes[d].readers :
         r = p \/ d \in DOMAIN new
  <2> SUFFICES ASSUME NEW d \in Live, NEW r \in anonymousPipes[d].readers, r # p
               PROVE  d \in DOMAIN new
    OBVIOUS
  <2>1. r \in closed(d).readers
    <3>1. closed(d).readers = anonymousPipes[d].readers \ {p}
      BY <1>1
    <3> QED
      BY <3>1
  <2> QED
    BY <1>4, <2>1 DEF HasEnd
<1>7. Live' = DOMAIN new /\ DOMAIN new \subseteq Live
  BY <1>2, <1>4 DEF Live
<1>8. Released(new) \subseteq Thread
  BY <1>7, ReleasedType DEF FullInv
<1>9. {u \in Released(new) : Owner[u] # p} \cup G = Released(new) \cup G
  BY <1>8
<1> QED
  BY <1>2, <1>5, <1>6, <1>7, <1>9 DEF DeleteDoes

LEMMA JoinEffect ==
    ASSUME FullInv, NEW c \in Pid, NEW ends \in SUBSET End, NEW T \in SUBSET Thread,
           \A u \in T : call[u].op = "spawn", Join(c, ends, T)
    PROVE  \E new : JoinDoes(c, ends, T \cup Replaced(c), new)
<1> DEFINE joined(id) == [anonymousPipes[id] EXCEPT
                !.readers = IF <<id, FALSE>> \in ends THEN @ \cup {c} ELSE @,
                !.writers = IF <<id, TRUE>> \in ends THEN @ \cup {c} ELSE @]
           next(id) == IF Running(c) THEN Orphan(joined(id), c) ELSE joined(id)
           G == T \cup Replaced(c)
           new == [id \in Live |-> next(id)]
<1>2. ASSUME NEW d \in Live
      PROVE  /\ next(d).readers = IF <<d, FALSE>> \in ends
                   THEN anonymousPipes[d].readers \cup {c}
                   ELSE anonymousPipes[d].readers
             /\ next(d).writers = IF <<d, TRUE>> \in ends
                   THEN anonymousPipes[d].writers \cup {c}
                   ELSE anonymousPipes[d].writers
             /\ Kept(anonymousPipes[d].readsPending, next(d).readsPending, G)
             /\ next(d).writesPending = anonymousPipes[d].writesPending
  <2>1. anonymousPipes[d] \in Pipe /\ d \in PipeId
    BY DEF FullInv, IInv, TypeOK
  <2>2. /\ joined(d) \in Pipe
        /\ joined(d).readsPending = anonymousPipes[d].readsPending
        /\ joined(d).writesPending = anonymousPipes[d].writesPending
        /\ joined(d).readers = IF <<d, FALSE>> \in ends
                   THEN anonymousPipes[d].readers \cup {c}
                   ELSE anonymousPipes[d].readers
        /\ joined(d).writers = IF <<d, TRUE>> \in ends
                   THEN anonymousPipes[d].writers \cup {c}
                   ELSE anonymousPipes[d].writers
    BY <2>1 DEF Pipe
  <2>3. \A i \in DOMAIN anonymousPipes[d].readsPending :
           anonymousPipes[d].readsPending[i].thread \notin T
    <3> SUFFICES ASSUME NEW i \in DOMAIN anonymousPipes[d].readsPending,
                        NEW u \in T, anonymousPipes[d].readsPending[i].thread = u
                 PROVE  FALSE
      OBVIOUS
    <3>1. call[u] = Reading(d)
      BY DEF FullInv, Reads, QueuedReads, Queued
    <3> QED
      BY <3>1, CallsDiffer
  <2> HIDE DEF joined
  <2>4. CASE Running(c)
    <3>1. next(d) = Orphan(joined(d), c) /\ G = T \cup {u \in Thread : Owner[u] = c}
      BY <2>4 DEF Replaced
    <3>2. LET n == Orphan(joined(d), c)
          IN  /\ n.readers = joined(d).readers
              /\ n.writers = joined(d).writers
              /\ n.writesPending = joined(d).writesPending
              /\ Kept(joined(d).readsPending, n.readsPending, {u \in Thread : Owner[u] = c})
      BY <2>2, OrphanQueue
    <3> HIDE DEF G, next
    <3>3. Kept(anonymousPipes[d].readsPending, next(d).readsPending,
               {u \in Thread : Owner[u] = c})
      BY <2>2, <3>1, <3>2
    <3>4. Kept(anonymousPipes[d].readsPending, next(d).readsPending, G)
      BY <2>3, <3>1, <3>3 DEF Kept
    <3> QED
      BY <2>2, <3>1, <3>2, <3>4
  <2>5. CASE ~Running(c)
    <3>1. next(d) = joined(d) /\ G = T
      BY <2>5 DEF Replaced
    <3> HIDE DEF G, next
    <3> QED
      BY <2>2, <2>3, <3>1 DEF Kept
  <2> QED
    BY <2>4, <2>5
<1>3. /\ anonymousPipes' = new
      /\ proc' = [proc EXCEPT ![c] = "running"]
      /\ fds' = [fds EXCEPT ![c] = ends]
      /\ call' = Answer(G)
  BY DEF Join
<1> HIDE DEF next
<1>5. Live' = Live /\ DOMAIN new = Live /\ \A d \in Live : new[d] = next(d)
  BY <1>3 DEF Live
<1> HIDE DEF new
<1>7. \A d \in Live :
         /\ new[d].readers = IF <<d, FALSE>> \in ends
              THEN anonymousPipes[d].readers \cup {c}
              ELSE anonymousPipes[d].readers
         /\ new[d].writers = IF <<d, TRUE>> \in ends
              THEN anonymousPipes[d].writers \cup {c}
              ELSE anonymousPipes[d].writers
         /\ Kept(anonymousPipes[d].readsPending, new[d].readsPending, G)
         /\ new[d].writesPending = anonymousPipes[d].writesPending
  BY <1>2, <1>5
<1>8. JoinDoes(c, ends, G, new)
  <2> HIDE DEF G
  <2> QED
    BY <1>3, <1>5, <1>7 DEF JoinDoes
<1> QED
  BY <1>8, Zenon

-----------------------------------------------------------------------------
(* The full invariant is preserved *)

\* Without a new spawn of a child of theirs, the spawns without caller stay as they
\* are, whoever else ends and whatever pipes are made.
LEMMA CutsKept ==
    ASSUME FullInv, cutOff' = cutOff, anonymousPipeId' \in {anonymousPipeId, anonymousPipeId + 1},
           \A p \in Pid : proc'[p] = "unborn" <=> proc[p] = "unborn",
           \A u \in Thread : call'[u].op = "spawn" =>
               \/ call'[u] = call[u]
               \/ \A s \in cutOff : proc[s[1]] = "unborn" => call'[u].child # s[1]
    PROVE  Cuts'
<1> SUFFICES ASSUME NEW s \in cutOff
             PROVE  /\ proc'[s[1]] = "unborn" \/ s[1] \in Execs
                    /\ proc'[s[1]] = "unborn" =>
                         /\ \A u \in Thread : call'[u].op = "spawn" => call'[u].child # s[1]
                         /\ \A r \in cutOff : r[1] = s[1] => r = s
                    /\ \A e \in s[2] : e[1] < anonymousPipeId'
  BY DEF Cuts
<1>1. /\ proc[s[1]] = "unborn" \/ s[1] \in Execs
      /\ proc[s[1]] = "unborn" =>
           /\ \A u \in Thread : call[u].op = "spawn" => call[u].child # s[1]
           /\ \A r \in cutOff : r[1] = s[1] => r = s
      /\ \A e \in s[2] : e[1] < anonymousPipeId
  BY DEF FullInv, Ends, Cuts
<1>2. s[1] \in Pid /\ s[2] \in SUBSET End /\ anonymousPipeId \in Nat
  BY DEF FullInv, IInv, TypeOK
<1>3. ASSUME NEW e \in s[2] PROVE e[1] < anonymousPipeId'
  <2>1. e[1] \in Nat /\ e[1] < anonymousPipeId
    BY <1>1, <1>2 DEF End, PipeId
  <2> QED
    BY <1>2, <2>1
<1> QED
  BY <1>1, <1>2, <1>3

\* A step that opens and closes nothing: calls end or become reads.
LEMMA EndsKept ==
    ASSUME FullInv, Live' = Live,
           \A d \in Live : /\ anonymousPipes'[d].readers = anonymousPipes[d].readers
                           /\ anonymousPipes'[d].writers = anonymousPipes[d].writers,
           UNCHANGED <<proc, fds, anonymousPipeId, cutOff>>,
           \A u \in Thread : call'[u].op = "spawn" => call'[u] = call[u]
    PROVE  Ends'
<1>0. Cuts'
  BY CutsKept
<1> USE DEF FullInv, Ends
<1>1. Spawns'
  <2> SUFFICES ASSUME NEW u \in Thread, call'[u].op = "spawn"
               PROVE  /\ Running(Owner[u])'
                      /\ \/ proc'[call'[u].child] = "unborn"
                         \/ call'[u].child = Owner[u] /\ Owner[u] \in Execs
                      /\ \A v \in Thread :
                            call'[v].op = "spawn" /\ call'[v].child = call'[u].child =>
                                v = u \/ call'[u].child = Owner[u]
                      /\ \A e \in call'[u].ends : e[1] < anonymousPipeId'
    BY DEF Spawns
  <2> QED
    BY DEF Spawns, Running
<1>2. Fresh'
  BY DEF Fresh, Running
<1>3. KnownEnds'
  BY DEF KnownEnds, Registered
<1>4. NoGhostEnd'
  BY DEF NoGhostEnd, Registered
<1> QED
  BY <1>0, <1>1, <1>2, <1>3, <1>4

\* Writes that stay, go, or are taken whole from the front leave no empty one.
LEMMA WritesKept ==
    ASSUME FullInv, Live' \subseteq Live,
           \A d \in Live' : \/ anonymousPipes'[d].writesPending = anonymousPipes[d].writesPending
                           \/ anonymousPipes'[d].writesPending = <<>>
    PROVE  NoEmptyWrites'
<1> SUFFICES ASSUME NEW d \in Live', NEW i \in DOMAIN anonymousPipes'[d].writesPending
             PROVE  anonymousPipes'[d].writesPending[i] # <<>>
  BY DEF NoEmptyWrites
<1>1. DOMAIN <<>> = {}
  OBVIOUS
<1>2. anonymousPipes'[d].writesPending = anonymousPipes[d].writesPending
  BY <1>1
<1> QED
  BY <1>2 DEF FullInv, NoEmptyWrites

LEMMA FullInit == Init => FullInv
<1> SUFFICES ASSUME Init PROVE FullInv
  OBVIOUS
<1>1. Live = {}
  BY DEF Init, Live
<1>2. \A t \in Thread : call[t] = Idle
  BY DEF Init
<1>3. Idle.op # "spawn" /\ \A id : Reading(id) # Idle
  BY CallsDiffer
<1>4. Spawns /\ Cuts
  BY <1>2, <1>3 DEF Spawns, Cuts, Init
<1>5. Fresh
  BY <1>1 DEF Init, Fresh
<1>6. KnownEnds /\ NoGhostEnd
  BY <1>1 DEF KnownEnds, NoGhostEnd, Registered
<1>7. Reads
  BY <1>1, <1>2, <1>3 DEF Reads, BlockedReads, QueuedReads
<1>8. NoEmptyWrites
  BY <1>1 DEF NoEmptyWrites
<1> QED
  BY <1>4, <1>5, <1>6, <1>7, <1>8, InitInv DEF FullInv, Ends

LEMMA APipeFull ==
    ASSUME FullInv, NEW t \in Thread, APipe(t)
    PROVE  Ends' /\ Reads' /\ NoEmptyWrites'
<1> DEFINE id == anonymousPipeId
<1>1. /\ id \notin Live /\ id \in PipeId /\ id \in Nat /\ Live \subseteq PipeId
      /\ Owner[t] \in Pid /\ Running(Owner[t])
      /\ \A p \in Pid, w \in BOOLEAN : <<id, w>> \notin fds[p]
  <2>1. id \in Nat /\ id \in PipeId
    BY DEF APipe, FullInv, IInv, TypeOK, PipeId
  <2>2. id \notin Live
    BY <2>1 DEF FullInv, Ends, Fresh
  <2>3. \A p \in Pid, w \in BOOLEAN : <<id, w>> \notin fds[p]
    BY <2>1 DEF FullInv, Ends, Fresh
  <2> QED
    BY <2>1, <2>2, <2>3 DEF FullInv, IInv, TypeOK, APipe, Ready
<1>2. /\ Live' = Live \cup {id}
      /\ \A d \in Live : anonymousPipes'[d] = anonymousPipes[d]
      /\ anonymousPipes'[id] = NewPipe(Owner[t])
      /\ anonymousPipeId' = id + 1
      /\ fds' = [fds EXCEPT ![Owner[t]] = @ \cup ({id} \X BOOLEAN)]
      /\ UNCHANGED <<proc, call>>
  BY <1>1 DEF APipe, Live
<1>3. /\ NewPipe(Owner[t]).readers = {Owner[t]} /\ NewPipe(Owner[t]).writers = {Owner[t]}
      /\ NewPipe(Owner[t]).readsPending = <<>> /\ NewPipe(Owner[t]).writesPending = <<>>
  BY DEF NewPipe
<1>4. \A p \in Pid : fds'[p] = IF p = Owner[t] THEN fds[p] \cup ({id} \X BOOLEAN) ELSE fds[p]
  BY <1>2 DEF FullInv, IInv, TypeOK
<1> HIDE DEF id
<1>5. Reads'
  BY <1>1, <1>2, <1>3, <1>4, QueuesKept DEF Running
<1>6. NoEmptyWrites'
  <2>1. DOMAIN <<>> = {}
    OBVIOUS
  <2> QED
    BY <1>2, <1>3, <2>1 DEF FullInv, NoEmptyWrites
<1>0. Cuts'
  BY CutsKept DEF APipe
<1>7. Spawns'
  <2> SUFFICES ASSUME NEW u \in Thread, call[u].op = "spawn"
               PROVE  \A e \in call[u].ends : e[1] < id + 1
    BY <1>2 DEF FullInv, Ends, Spawns, Running
  <2>1. PICK c \in Pid, ends \in SUBSET End : call[u] = Spawning(c, ends)
    BY CallForms, CallsDiffer DEF FullInv
  <2>2. \A e \in ends : e[1] < id /\ e[1] \in Nat
    BY <2>1, CallsDiffer DEF FullInv, Ends, Spawns, id, End, PipeId
  <2> QED
    BY <1>1, <2>1, <2>2, CallsDiffer
<1>8. Fresh'
  <2>1. \A d \in Live' : d < id + 1
    BY <1>1, <1>2 DEF FullInv, Ends, Fresh, id, PipeId
  <2>2. ASSUME NEW p \in Pid, NEW e \in fds'[p]
        PROVE  e[1] < id + 1
    <3>1. CASE e \in fds[p]
      <4>1. e[1] < id /\ e[1] \in Nat
        BY <3>1 DEF FullInv, Ends, Fresh, IInv, TypeOK, End, PipeId, id
      <4> QED
        BY <1>1, <4>1
    <3>2. CASE e \in {id} \X BOOLEAN
      BY <1>1, <3>2
    <3> QED
      BY <1>4, <3>1, <3>2
  <2>3. \A p \in Pid : ~Running(p)' => fds'[p] = {}
    BY <1>1, <1>2, <1>4 DEF FullInv, Ends, Fresh, Running
  <2> QED
    BY <1>2, <2>1, <2>2, <2>3 DEF Fresh
<1>9. KnownEnds'
  <2> SUFFICES ASSUME NEW p \in Pid, NEW d \in Live', NEW w \in BOOLEAN, <<d, w>> \in fds'[p]
               PROVE  Registered(p, d, w)'
    BY DEF KnownEnds
  <2>1. CASE d = id
    BY <1>1, <1>2, <1>3, <1>4, <2>1 DEF Registered
  <2>2. CASE d # id
    <3>1. d \in Live /\ <<d, w>> \in fds[p]
      BY <1>2, <1>4, <2>2
    <3>2. Registered(p, d, w)
      BY <3>1 DEF FullInv, Ends, KnownEnds
    <3> QED
      BY <1>2, <3>1, <3>2 DEF Registered
  <2> QED
    BY <2>1, <2>2
<1>10. NoGhostEnd'
  <2> SUFFICES ASSUME NEW p \in Pid \ Execs, NEW d \in PipeId, NEW w \in BOOLEAN,
                      Registered(p, d, w)'
               PROVE  <<d, w>> \in fds'[p]
    BY DEF NoGhostEnd
  <2>1. CASE d = id
    <3>1. p = Owner[t]
      BY <1>2, <1>3, <2>1 DEF Registered
    <3> QED
      BY <1>4, <2>1, <3>1
  <2>2. CASE d # id
    <3>1. Registered(p, d, w)
      BY <1>2, <2>2 DEF Registered
    <3>2. <<d, w>> \in fds[p]
      BY <3>1 DEF FullInv, Ends, NoGhostEnd
    <3> QED
      BY <1>4, <3>2
  <2> QED
    BY <2>1, <2>2
<1> QED
  BY <1>0, <1>5, <1>6, <1>7, <1>8, <1>9, <1>10 DEF Ends

LEMMA WriteFull ==
    ASSUME FullInv, NEW t \in Thread, NEW id \in PipeId, NEW n \in Count,
           WriteAccepted(t, id, n)
    PROVE  Ends' /\ Reads' /\ NoEmptyWrites'
<1> DEFINE q == anonymousPipes[id].readsPending
           w == anonymousPipes[id].writesPending
<1>0. PICK m \in 0 .. Len(q) : \E cut \in Turns(q, n, m) : \E left \in Seq(Byte) :
         \E new : WriteDoes(id, m, cut, left, new)
  <2> HIDE DEF q
  <2> QED
    BY WriteEffect, Zenon DEF q
<1>a. PICK cut : \E left \in Seq(Byte) : \E new : WriteDoes(id, m, cut, left, new)
  BY <1>0, Zenon
<1>b. PICK left \in Seq(Byte) : \E new : WriteDoes(id, m, cut, left, new)
  BY <1>a, Zenon
<1>c. PICK new : WriteDoes(id, m, cut, left, new)
  BY <1>b, Zenon
<1>1. /\ id \in Live /\ Live' = Live
      /\ \A d \in Live : anonymousPipes'[d] = IF d = id THEN new
                                                   ELSE anonymousPipes[d]
      /\ new.readsPending = Suffix(q, m)
      /\ new.readers = anonymousPipes[id].readers
      /\ new.writers = anonymousPipes[id].writers
      /\ \/ new.writesPending = w
         \/ left # <<>> /\ new.writesPending = Append(w, left)
      /\ call' = Answer(Threads(Prefix(q, m)))
  BY <1>c, Zenon DEF WriteDoes
<1>2. UNCHANGED <<proc, fds, anonymousPipeId, cutOff>>
  BY DEF WriteAccepted
<1>3. Reads'
  BY <1>1, <1>2, ServeStep
<1>4. \A u \in Thread : call'[u].op = "spawn" => call'[u] = call[u]
  <2>1. Idle.op # "spawn"
    BY CallsDiffer
  <2> QED
    BY <1>1, <2>1 DEF Answer
<1>5. Ends'
  BY <1>1, <1>2, <1>4, EndsKept
<1>6. NoEmptyWrites'
  <2>1. w \in Seq(Seq(Byte)) /\ \A i \in DOMAIN w : w[i] # <<>>
    BY <1>1 DEF FullInv, IInv, TypeOK, Pipe, NoEmptyWrites
  <2> HIDE DEF w
  <2>2. \A i \in DOMAIN new.writesPending : new.writesPending[i] # <<>>
    <3>1. CASE new.writesPending = w
      BY <2>1, <3>1
    <3>2. CASE left # <<>> /\ new.writesPending = Append(w, left)
      <4>1. \A i \in DOMAIN Append(w, left) : Append(w, left)[i] # <<>>
        BY <2>1, <3>2
      <4> QED
        BY <3>2, <4>1
    <3> QED
      BY <1>1, <3>1, <3>2
  <2> QED
    BY <1>1, <2>2 DEF FullInv, NoEmptyWrites
<1> QED
  BY <1>3, <1>5, <1>6

LEMMA ReadFull ==
    ASSUME FullInv, NEW t \in Thread, NEW id \in PipeId, NEW n \in Count,
           ReadBuffered(t, id, n)
    PROVE  Ends' /\ Reads' /\ NoEmptyWrites'
<1>0. PICK k, new : ReadDoes(t, id, k, new)
  BY ReadEffect, Zenon
<1>1. /\ id \in Live /\ Live' = Live
      /\ \A d \in Live : anonymousPipes'[d] = IF d = id THEN new
                                                   ELSE anonymousPipes[d]
      /\ new.readsPending = anonymousPipes[id].readsPending
      /\ new.readers = anonymousPipes[id].readers
      /\ new.writers = anonymousPipes[id].writers
      /\ \A i \in DOMAIN new.writesPending : new.writesPending[i] # <<>>
  BY <1>0, Zenon DEF ReadDoes
<1>2. UNCHANGED <<proc, fds, anonymousPipeId, call, cutOff>>
  BY DEF ReadBuffered
<1>3. Reads'
  BY <1>1, <1>2, QueuesKept DEF Running
<1>4. Ends'
  BY <1>1, <1>2, EndsKept
<1>5. NoEmptyWrites'
  BY <1>1 DEF FullInv, NoEmptyWrites
<1> QED
  BY <1>3, <1>4, <1>5

\* Nothing changes but the replies.
LEMMA RefusedFull ==
    ASSUME FullInv, UNCHANGED <<anonymousPipes, anonymousPipeId, proc, fds, call, cutOff>>
    PROVE  Ends' /\ Reads' /\ NoEmptyWrites'
<1>1. Live' = Live
  BY DEF Live
<1>2. Reads'
  BY <1>1, QueuesKept DEF Running
<1>3. Ends'
  BY <1>1, EndsKept
<1>4. NoEmptyWrites'
  BY <1>1, WritesKept
<1> QED
  BY <1>2, <1>3, <1>4

LEMMA ReadBlocksFull ==
    ASSUME FullInv, NEW t \in Thread, NEW id \in PipeId, NEW n \in Count,
           ReadBlocks(t, id, n)
    PROVE  Ends' /\ Reads' /\ NoEmptyWrites'
<1> DEFINE pipe == anonymousPipes[id]
           q == pipe.readsPending
           request == [thread |-> t, count |-> n]
           q2 == Append(q, request)
           new == [pipe EXCEPT !.readsPending = q2]
<1>1. /\ id \in Live /\ pipe \in Pipe /\ q \in Seq(ReadRequest) /\ request \in ReadRequest
      /\ request.thread = t
  BY DEF ReadBlocks, Registered, FullInv, IInv, TypeOK, Pipe, ReadRequest
<1>2. anonymousPipes' = [anonymousPipes EXCEPT ![id] = new]
  BY <1>1 DEF ReadBlocks, FullInv, IInv, TypeOK
<1> HIDE DEF request, q2
<1>3. /\ new.readsPending = q2 /\ new.readers = pipe.readers
      /\ new.writers = pipe.writers /\ new.writesPending = pipe.writesPending
  BY <1>1 DEF Pipe
<1> HIDE DEF new
<1>4. /\ Live' = Live
      /\ \A d \in Live : anonymousPipes'[d] = IF d = id THEN new ELSE anonymousPipes[d]
  BY <1>1, <1>2 DEF Live, FullInv, IInv, TypeOK
<1>5. /\ call' = [call EXCEPT ![t] = Reading(id)] /\ call \in [Thread -> Call]
      /\ call[t] = Idle /\ Running(Owner[t])
      /\ <<id, FALSE>> \in fds[Owner[t]] /\ Registered(Owner[t], id, FALSE)
      /\ UNCHANGED <<proc, fds, anonymousPipeId, cutOff>>
  BY DEF ReadBlocks, Ready, FullInv, IInv, TypeOK
<1>6. \A u \in Thread : call'[u] = IF u = t THEN Reading(id) ELSE call[u]
  BY <1>5
<1>7. Reading(id).op # "spawn" /\ \A d : Reading(d) # Idle
  BY CallsDiffer
<1>8. Ends'
  BY <1>3, <1>4, <1>5, <1>6, <1>7, EndsKept
<1>9. NoEmptyWrites'
  BY <1>3, <1>4, WritesKept
<1>10. /\ \A i \in DOMAIN q : i \in DOMAIN q2 /\ q2[i] = q[i]
       /\ \A i \in DOMAIN q2 :
            \/ i \in DOMAIN q /\ q2[i] = q[i]
            \/ i = Len(q) + 1 /\ q2[i] = request
       /\ Len(q) + 1 \in DOMAIN q2 /\ q2[Len(q) + 1] = request
  <2> HIDE DEF q
  <2> QED
    BY <1>1 DEF q2
<1>11. \A d \in Live : \A i \in DOMAIN anonymousPipes[d].readsPending :
          anonymousPipes[d].readsPending[i].thread # t
  BY <1>1, <1>5, <1>7 DEF FullInv, Reads, QueuedReads, Queued, PipeServerAssumption
<1>12. t # NoThread
  OBVIOUS
<1>13. BlockedReads'
  <2> SUFFICES ASSUME NEW u \in Thread, NEW d \in PipeId, call'[u] = Reading(d)
               PROVE  /\ Running(Owner[u])'
                      /\ <<d, FALSE>> \in fds'[Owner[u]]
                      /\ Registered(Owner[u], d, FALSE)'
                      /\ u \in Threads(anonymousPipes'[d].readsPending)
    BY Zenon DEF BlockedReads
  <2>1. CASE u = t
    <3>1. d = id
      <4>1. Reading(d).pipe = d /\ Reading(id).pipe = id
        BY Zenon, CallsDiffer
      <4> QED
        BY <1>6, <2>1, <4>1
    <3>2. t \in Threads(q2)
      BY <1>1, <1>10, <1>12 DEF Threads
    <3>3. Registered(Owner[t], id, FALSE)'
      BY <1>1, <1>3, <1>4, <1>5 DEF Registered
    <3> QED
      BY <1>1, <1>3, <1>4, <1>5, <2>1, <3>1, <3>2, <3>3 DEF Running
  <2>2. CASE u # t
    <3>1. /\ Running(Owner[u]) /\ <<d, FALSE>> \in fds[Owner[u]]
          /\ Registered(Owner[u], d, FALSE)
          /\ u \in Threads(anonymousPipes[d].readsPending)
      BY <1>6, <2>2 DEF FullInv, Reads, BlockedReads
    <3>2. d \in Live /\ anonymousPipes'[d].readers = anonymousPipes[d].readers
      BY <1>3, <1>4, <3>1 DEF Registered
    <3>3. Registered(Owner[u], d, FALSE)'
      BY <1>4, <3>1, <3>2 DEF Registered
    <3>4. u \in Threads(anonymousPipes'[d].readsPending)
      <4>1. CASE d # id
        BY <1>4, <3>1, <3>2, <4>1
      <4>2. CASE d = id
        <5>1. u \in Threads(q2)
          BY <1>10, <3>1, <4>2 DEF Threads
        <5> QED
          BY <1>3, <1>4, <3>2, <4>2, <5>1
      <4> QED
        BY <4>1, <4>2
    <3> QED
      BY <1>5, <3>1, <3>3, <3>4 DEF Running
  <2> QED
    BY <2>1, <2>2
<1>14. QueuedReads'
  <2> SUFFICES ASSUME NEW d \in Live PROVE Queued(anonymousPipes[d].readsPending, d)'
    BY <1>4 DEF QueuedReads
  <2> DEFINE r == anonymousPipes[d].readsPending
  <2>1. ASSUME NEW i \in DOMAIN r, r[i].thread # NoThread
        PROVE  /\ call'[r[i].thread] = Reading(d)
               /\ \A j \in DOMAIN r : r[j].thread = r[i].thread => j = i
    <3>1. call[r[i].thread] = Reading(d)
          /\ \A j \in DOMAIN r : r[j].thread = r[i].thread => j = i
      BY <2>1 DEF FullInv, Reads, QueuedReads, Queued
    <3>2. r \in Seq(ReadRequest)
      BY DEF FullInv, IInv, TypeOK, Pipe
    <3>3. r[i] \in ReadRequest
      BY <2>1, <3>2
    <3>4. r[i].thread \in Thread
      BY <2>1, <3>3 DEF ReadRequest
    <3> QED
      BY <1>6, <1>11, <3>1, <3>4
  <2>2. CASE d # id
    <3>1. anonymousPipes'[d].readsPending = r
      BY <1>4, <2>2
    <3> HIDE DEF r
    <3> QED
      BY <2>1, <3>1 DEF Queued
  <2>3. CASE d = id
    <3>1. r = q
      BY <2>3
    <3>2. \A i \in DOMAIN q : q[i].thread # t
      BY <1>1, <1>11
    <3>3. ASSUME NEW i \in DOMAIN q2, q2[i].thread # NoThread
          PROVE  /\ call'[q2[i].thread] = Reading(d)
                 /\ \A j \in DOMAIN q2 : q2[j].thread = q2[i].thread => j = i
      <4> HIDE DEF q, r
      <4>1. CASE i \in DOMAIN q /\ q2[i] = q[i]
        BY <1>1, <1>10, <2>1, <3>1, <3>2, <3>3, <4>1
      <4>2. CASE i = Len(q) + 1 /\ q2[i] = request
        BY <1>1, <1>6, <1>10, <2>3, <3>2, <4>2
      <4> QED
        BY <1>10, <4>1, <4>2
    <3>4. anonymousPipes'[d].readsPending = q2
      BY <1>3, <1>4, <2>3
    <3> QED
      BY <3>3, <3>4 DEF Queued
  <2> QED
    BY <2>2, <2>3
<1> QED
  BY <1>8, <1>9, <1>13, <1>14 DEF Reads

LEMMA CloseFull ==
    ASSUME FullInv, NEW t \in Thread, NEW id \in PipeId, NEW w \in BOOLEAN,
           Close(t, id, w)
    PROVE  Ends' /\ Reads' /\ NoEmptyWrites'
<1>0. PICK new : CloseDoes(t, id, w, new)
  BY CloseEffect, Zenon
<1>1. /\ anonymousPipes' = new /\ Live' = DOMAIN new /\ DOMAIN new \subseteq Live
      /\ \A d \in DOMAIN new :
           /\ new[d].readers = IF d = id /\ ~w
                 THEN anonymousPipes[d].readers \ {Owner[t]}
                 ELSE anonymousPipes[d].readers
           /\ new[d].writers = IF d = id /\ w
                 THEN anonymousPipes[d].writers \ {Owner[t]}
                 ELSE anonymousPipes[d].writers
           /\ \/ new[d].readsPending = anonymousPipes[d].readsPending
              \/ new[d].readsPending = <<>>
           /\ \/ new[d].writesPending = anonymousPipes[d].writesPending
              \/ new[d].writesPending = <<>>
      /\ \A d \in Live : \A p \in anonymousPipes[d].readers :
            (d = id /\ ~w /\ p = Owner[t]) \/ d \in DOMAIN new
      /\ call' = Answer(Released(new))
  BY <1>0, Zenon DEF CloseDoes
<1>2. /\ fds' = [fds EXCEPT ![Owner[t]] = @ \ {<<id, w>>}] /\ fds \in [Pid -> SUBSET End]
      /\ UNCHANGED <<proc, anonymousPipeId, cutOff>>
      /\ w \/ \A u \in Thread : Owner[u] = Owner[t] => call[u] # Reading(id)
  BY DEF Close, FullInv, IInv, TypeOK
<1>3. \A p \in Pid : fds'[p] = IF p = Owner[t] THEN fds[p] \ {<<id, w>>} ELSE fds[p]
  BY <1>2
<1>4. \A u \in Thread : call'[u] = IF u \in Released(new) THEN Idle ELSE call[u]
  BY <1>1, Zenon DEF Answer
<1>5. Idle.op # "spawn"
  BY CallsDiffer
<1>6. NoEmptyWrites'
  BY <1>1, WritesKept
<1>7. Reads'
  <2>1. {} \in SUBSET Thread /\ call' = Answer(Released(new) \cup {})
    <3>1. Released(new) = Released(new) \cup {}
      OBVIOUS
    <3> QED
      BY <1>1, <3>1
  <2>2. ASSUME NEW d \in DOMAIN new
        PROVE  \/ Kept(anonymousPipes[d].readsPending, new[d].readsPending, {})
               \/ new[d].readsPending = <<>>
    BY <1>1 DEF Kept
  <2>3. ASSUME NEW u \in Thread \ {}, NEW d \in PipeId, call[u] = Reading(d)
        PROVE  /\ Running(Owner[u])'
               /\ <<d, FALSE>> \in fds'[Owner[u]]
               /\ d \in DOMAIN new
               /\ Owner[u] \in new[d].readers
    <3>1. /\ Running(Owner[u]) /\ <<d, FALSE>> \in fds[Owner[u]]
          /\ d \in Live /\ Owner[u] \in anonymousPipes[d].readers
          /\ Owner[u] \in Pid
      BY <2>3 DEF FullInv, Reads, BlockedReads, Registered
    <3>2. ~(d = id /\ ~w /\ Owner[u] = Owner[t])
      BY <1>2, <2>3
    <3>3. d \in DOMAIN new
      BY <1>1, <3>1, <3>2
    <3>4. Owner[u] \in new[d].readers
      BY <1>1, <3>1, <3>2, <3>3
    <3>5. <<d, FALSE>> \in fds'[Owner[u]]
      BY <1>3, <3>1, <3>2
    <3> QED
      BY <1>2, <3>1, <3>3, <3>4, <3>5 DEF Running
  <2> QED
    BY <1>1, <2>1, <2>2, <2>3, ReadsStep, ZenonT(60)
<1>8. Spawns'
  <2> SUFFICES ASSUME NEW u \in Thread, call'[u].op = "spawn"
               PROVE  /\ Running(Owner[u])'
                      /\ \/ proc'[call'[u].child] = "unborn"
                         \/ call'[u].child = Owner[u] /\ Owner[u] \in Execs
                      /\ \A v \in Thread :
                            call'[v].op = "spawn" /\ call'[v].child = call'[u].child =>
                                v = u \/ call'[u].child = Owner[u]
                      /\ \A e \in call'[u].ends : e[1] < anonymousPipeId'
    BY DEF Spawns
  <2> QED
    BY <1>2, <1>4, <1>5 DEF FullInv, Ends, Spawns, Running
<1>12. Cuts'
  BY <1>2, <1>4, <1>5, CutsKept
<1>9. Fresh'
  BY <1>1, <1>2, <1>3 DEF FullInv, Ends, Fresh, Running
<1>10. KnownEnds'
  <2> SUFFICES ASSUME NEW p \in Pid, NEW d \in Live', NEW x \in BOOLEAN, <<d, x>> \in fds'[p]
               PROVE  Registered(p, d, x)'
    BY DEF KnownEnds
  <2>1. <<d, x>> \in fds[p] /\ ~(p = Owner[t] /\ d = id /\ x = w)
    BY <1>3
  <2>2. Registered(p, d, x)
    BY <1>1, <2>1 DEF FullInv, Ends, KnownEnds
  <2> QED
    BY <1>1, <2>1, <2>2 DEF Registered
<1>11. NoGhostEnd'
  <2> SUFFICES ASSUME NEW p \in Pid \ Execs, NEW d \in PipeId, NEW x \in BOOLEAN,
                      Registered(p, d, x)'
               PROVE  <<d, x>> \in fds'[p]
    BY DEF NoGhostEnd
  <2>1. d \in DOMAIN new /\ d \in Live
    BY <1>1 DEF Registered
  <2>2. Registered(p, d, x) /\ ~(p = Owner[t] /\ d = id /\ x = w)
    BY <1>1, <2>1 DEF Registered
  <2>3. <<d, x>> \in fds[p]
    BY <2>2 DEF FullInv, Ends, NoGhostEnd
  <2> QED
    BY <1>3, <2>2, <2>3
<1> QED
  BY <1>6, <1>7, <1>8, <1>9, <1>10, <1>11, <1>12 DEF Ends

LEMMA SpawnRequestFull ==
    ASSUME FullInv, NEW t \in Thread, NEW c \in Pid, NEW ends \in SUBSET End,
           SpawnRequest(t, c, ends)
    PROVE  Ends' /\ Reads' /\ NoEmptyWrites'
<1>1. /\ call' = [call EXCEPT ![t] = Spawning(c, ends)] /\ call \in [Thread -> Call]
      /\ call[t] = Idle /\ Running(Owner[t]) /\ ends \subseteq fds[Owner[t]]
      /\ UNCHANGED <<anonymousPipes, anonymousPipeId, proc, fds, cutOff>>
      /\ Live' = Live
      /\ \/ /\ proc[c] = "unborn"
            /\ \A u \in Thread : call[u].op = "spawn" => call[u].child # c
            /\ \A s \in cutOff : s[1] # c
         \/ Owner[t] \in Execs /\ c = Owner[t]
  BY DEF SpawnRequest, Ready, FullInv, IInv, TypeOK, Live
<1>2. \A u \in Thread : call'[u] = IF u = t THEN Spawning(c, ends) ELSE call[u]
  BY <1>1
<1>3. /\ Spawning(c, ends).op = "spawn" /\ Spawning(c, ends).child = c
      /\ Spawning(c, ends).ends = ends
  BY CallsDiffer
<1>4. \A d : Reading(d) # Idle /\ Reading(d) # Spawning(c, ends)
  BY CallsDiffer
<1>5. Reads'
  BY <1>1, <1>2, <1>4, QueuesKept DEF Running
<1>6. NoEmptyWrites'
  BY <1>1, WritesKept
<1>7. Fresh' /\ KnownEnds' /\ NoGhostEnd'
  BY <1>1 DEF FullInv, Ends, Fresh, KnownEnds, NoGhostEnd, Registered, Running
<1>8. Spawns'
  <2> SUFFICES ASSUME NEW u \in Thread, call'[u].op = "spawn"
               PROVE  /\ Running(Owner[u])
                      /\ \/ proc[call'[u].child] = "unborn"
                         \/ call'[u].child = Owner[u] /\ Owner[u] \in Execs
                      /\ \A v \in Thread :
                            call'[v].op = "spawn" /\ call'[v].child = call'[u].child =>
                                v = u \/ call'[u].child = Owner[u]
                      /\ \A e \in call'[u].ends : e[1] < anonymousPipeId
    BY <1>1 DEF Spawns, Running
  <2>0. Running(Owner[u]) <=> proc[Owner[u]] = "running"
    BY DEF Running
  <2>1. CASE u = t
    <3>1. \A e \in ends : e[1] < anonymousPipeId
      BY <1>1 DEF FullInv, Ends, Fresh
    <3>2. \A v \in Thread : call'[v].op = "spawn" /\ call'[v].child = c =>
                                v = t \/ c = Owner[t]
      BY <1>1, <1>2
    <3> QED
      BY <1>1, <1>2, <1>3, <2>1, <3>1, <3>2
  <2>2. CASE u # t
    <3>1. call'[u] = call[u] /\ call[u].op = "spawn"
      BY <1>2, <2>2
    <3>2. /\ Running(Owner[u])
          /\ \/ proc[call[u].child] = "unborn"
             \/ call[u].child = Owner[u] /\ Owner[u] \in Execs
          /\ \A v \in Thread : call[v].op = "spawn" /\ call[v].child = call[u].child =>
                                v = u \/ call[u].child = Owner[u]
          /\ \A e \in call[u].ends : e[1] < anonymousPipeId
      BY <3>1 DEF FullInv, Ends, Spawns
    <3>3. call[u].child = c => call[u].child = Owner[u]
      BY <1>1, <3>1, <3>2 DEF Running
    <3> QED
      BY <1>2, <1>3, <3>1, <3>2, <3>3
  <2> QED
    BY <2>1, <2>2
<1>9. Cuts'
  <2>1. \A s \in cutOff : proc[s[1]] = "unborn" => c # s[1]
    BY <1>1 DEF Running
  <2> QED
    BY <1>1, <1>2, <1>3, <2>1, CutsKept
<1> QED
  BY <1>5, <1>6, <1>7, <1>8, <1>9 DEF Ends

LEMMA JoinFull ==
    ASSUME FullInv, NEW c \in Pid, NEW ends \in SUBSET End, NEW T \in SUBSET Thread,
           Join(c, ends, T),
           proc[c] = "unborn" \/ (Running(c) /\ c \in Execs),
           \A u \in T : call[u].op = "spawn",
           \A u \in Thread : call[u].op = "spawn" /\ call[u].child = c =>
                                 u \in T \/ Owner[u] = c,
           \A e \in ends : e[1] < anonymousPipeId,
           \A s \in cutOff' : \/ s \in cutOff /\ (s[1] = c => Running(c))
                              \/ s \in Adrift(c, T)
    PROVE  Ends' /\ Reads' /\ NoEmptyWrites'
<1>a. PICK G : G = T \cup Replaced(c)
  OBVIOUS
<1>b. PICK new : JoinDoes(c, ends, G, new)
  BY <1>a, JoinEffect
<1>0. /\ G \in SUBSET Thread
      /\ \A u \in G : u \in T \/ (Running(c) /\ Owner[u] = c)
      /\ \A u \in Thread : Running(c) /\ Owner[u] = c => u \in G
      /\ T \subseteq G
  BY <1>a DEF Replaced
<1>1. /\ anonymousPipes' = new /\ Live' = Live /\ DOMAIN new = Live
      /\ \A d \in Live :
           /\ new[d].readers = IF <<d, FALSE>> \in ends
                 THEN anonymousPipes[d].readers \cup {c}
                 ELSE anonymousPipes[d].readers
           /\ new[d].writers = IF <<d, TRUE>> \in ends
                 THEN anonymousPipes[d].writers \cup {c}
                 ELSE anonymousPipes[d].writers
           /\ Kept(anonymousPipes[d].readsPending, new[d].readsPending, G)
           /\ new[d].writesPending = anonymousPipes[d].writesPending
      /\ proc' = [proc EXCEPT ![c] = "running"]
      /\ fds' = [fds EXCEPT ![c] = ends]
      /\ call' = Answer(G)
  BY <1>b, Zenon DEF JoinDoes
<1>2. \A u \in Thread : call'[u] = IF u \in G THEN Idle ELSE call[u]
  BY <1>1, Zenon DEF Answer
<1>3. /\ \A p \in Pid : fds'[p] = IF p = c THEN ends ELSE fds[p]
      /\ \A p \in Pid : proc'[p] = IF p = c THEN "running" ELSE proc[p]
  BY <1>1 DEF FullInv, IInv, TypeOK
<1>4. anonymousPipeId' = anonymousPipeId
  BY DEF Join
<1>5. Idle.op # "spawn"
  BY CallsDiffer
\* A thread of the process that gets the image is among those in G.
<1>7. \A u \in Thread : call[u] # Idle /\ u \notin G /\ Running(Owner[u]) => Owner[u] # c
  BY <1>0
<1>8. NoEmptyWrites'
  BY <1>1, WritesKept
<1>9. Reads'
  <2>1. Released(new) \subseteq G
    <3> SUFFICES ASSUME NEW d \in Live, NEW u \in Threads(anonymousPipes[d].readsPending),
                        u \notin G
                 PROVE  u \in Threads(new[d].readsPending)
      BY <1>1 DEF Released
    <3>1. PICK i \in DOMAIN anonymousPipes[d].readsPending :
             anonymousPipes[d].readsPending[i].thread = u /\ u # NoThread
      BY DEF Threads
    <3>2. i \in DOMAIN new[d].readsPending /\ new[d].readsPending[i].thread = u
      BY <1>1, <3>1 DEF Kept
    <3> QED
      BY <3>1, <3>2 DEF Threads
  <2>2. call' = Answer(Released(new) \cup G)
    <3>1. Released(new) \cup G = G
      BY <2>1
    <3> QED
      BY <1>1, <3>1
  <2>3. ASSUME NEW d \in DOMAIN new
        PROVE  \/ Kept(anonymousPipes[d].readsPending, new[d].readsPending, G)
               \/ new[d].readsPending = <<>>
    BY <1>1
  <2>4. ASSUME NEW u \in Thread \ G, NEW d \in PipeId, call[u] = Reading(d)
        PROVE  /\ Running(Owner[u])'
               /\ <<d, FALSE>> \in fds'[Owner[u]]
               /\ d \in DOMAIN new
               /\ Owner[u] \in new[d].readers
    <3>1. /\ Running(Owner[u]) /\ <<d, FALSE>> \in fds[Owner[u]]
          /\ d \in Live /\ Owner[u] \in anonymousPipes[d].readers
          /\ Owner[u] \in Pid
      BY <2>4 DEF FullInv, Reads, BlockedReads, Registered
    <3>2. call[u] # Idle
      BY <2>4, CallsDiffer
    <3>3. Owner[u] # c
      BY <1>7, <3>1, <3>2
    <3> QED
      BY <1>1, <1>3, <3>1, <3>3 DEF Running
  <2>5. DOMAIN new \subseteq Live
    BY <1>1
  <2> QED
    BY <1>0, <1>1, <2>2, <2>3, <2>4, <2>5, ReadsStep, ZenonT(60)
<1>10. Spawns'
  <2> SUFFICES ASSUME NEW u \in Thread, call'[u].op = "spawn"
               PROVE  /\ Running(Owner[u])'
                      /\ \/ proc'[call'[u].child] = "unborn"
                         \/ call'[u].child = Owner[u] /\ Owner[u] \in Execs
                      /\ \A v \in Thread :
                            call'[v].op = "spawn" /\ call'[v].child = call'[u].child =>
                                v = u \/ call'[u].child = Owner[u]
                      /\ \A e \in call'[u].ends : e[1] < anonymousPipeId'
    BY DEF Spawns
  <2>1. u \notin G /\ call'[u] = call[u] /\ call[u].op = "spawn" /\ call[u] # Idle
    BY <1>2, <1>5
  <2>2. /\ Running(Owner[u])
        /\ \/ proc[call[u].child] = "unborn"
           \/ call[u].child = Owner[u] /\ Owner[u] \in Execs
        /\ \A v \in Thread : call[v].op = "spawn" /\ call[v].child = call[u].child =>
                                v = u \/ call[u].child = Owner[u]
        /\ \A e \in call[u].ends : e[1] < anonymousPipeId
    BY <2>1 DEF FullInv, Ends, Spawns
  <2>3. Owner[u] # c
    BY <1>7, <2>1, <2>2
  <2>4. call[u].child # c
    BY <1>0, <2>1, <2>2, <2>3
  <2>5. call[u].child \in Pid /\ Owner[u] \in Pid
    <3>1. PICK k \in Pid, e \in SUBSET End : call[u] = Spawning(k, e)
      BY <2>1, CallForms, CallsDiffer DEF FullInv
    <3> QED
      BY <3>1, CallsDiffer
  <2> QED
    BY <1>2, <1>3, <1>4, <1>5, <2>1, <2>2, <2>3, <2>4, <2>5 DEF Running
<1>11. Fresh'
  BY <1>1, <1>3, <1>4 DEF FullInv, Ends, Fresh, Running
<1>12. KnownEnds'
  <2> SUFFICES ASSUME NEW p \in Pid, NEW d \in Live, NEW x \in BOOLEAN, <<d, x>> \in fds'[p]
               PROVE  Registered(p, d, x)'
    BY <1>1 DEF KnownEnds
  <2>1. CASE p = c
    BY <1>1, <1>3, <2>1, ZenonT(40) DEF Registered
  <2>2. CASE p # c
    <3>1. Registered(p, d, x)
      BY <1>3, <2>2 DEF FullInv, Ends, KnownEnds
    <3> QED
      BY <1>1, <3>1 DEF Registered
  <2> QED
    BY <2>1, <2>2
<1>13. NoGhostEnd'
  <2> SUFFICES ASSUME NEW p \in Pid \ Execs, NEW d \in PipeId, NEW x \in BOOLEAN,
                      Registered(p, d, x)'
               PROVE  <<d, x>> \in fds'[p]
    BY DEF NoGhostEnd
  <2>1. d \in Live
    BY <1>1 DEF Registered
  <2>2. Registered(p, d, x) => <<d, x>> \in fds[p]
    BY DEF FullInv, Ends, NoGhostEnd
  <2>3. CASE p = c
    <3>1. fds[p] = {}
      BY <2>3 DEF FullInv, Ends, Fresh, Running
    <3>2. ~Registered(p, d, x)
      BY <2>2, <3>1
    <3>3. <<d, x>> \in ends
      BY <1>1, <2>1, <3>2 DEF Registered
    <3> QED
      BY <1>3, <2>3, <3>3
  <2>4. CASE p # c
    <3>0. /\ new[d].readers \subseteq anonymousPipes[d].readers \cup {c}
          /\ new[d].writers \subseteq anonymousPipes[d].writers \cup {c}
      BY <1>1, <2>1
    <3>1. Registered(p, d, x)
      <4>1. CASE x
        BY <1>1, <2>1, <2>4, <3>0, <4>1 DEF Registered
      <4>2. CASE ~x
        BY <1>1, <2>1, <2>4, <3>0, <4>2 DEF Registered
      <4> QED
        BY <4>1, <4>2
    <3> QED
      BY <1>3, <2>2, <2>4, <3>1
  <2> QED
    BY <2>3, <2>4
<1>14. Cuts'
  <2> SUFFICES ASSUME NEW s \in cutOff'
               PROVE  /\ proc'[s[1]] = "unborn" \/ s[1] \in Execs
                      /\ proc'[s[1]] = "unborn" =>
                           /\ \A u \in Thread : call'[u].op = "spawn" => call'[u].child # s[1]
                           /\ \A q \in cutOff' : q[1] = s[1] => q = s
                      /\ \A e \in s[2] : e[1] < anonymousPipeId'
    BY DEF Cuts
  <2>1. \A u \in Thread : call'[u].op = "spawn" => /\ call'[u] = call[u] /\ u \notin G
                                                   /\ call[u].op = "spawn"
    BY <1>2, <1>5
  <2>2. CASE s \in cutOff /\ (s[1] = c => Running(c))
    <3>1. s[1] \in Pid
      BY <2>2 DEF FullInv, IInv, TypeOK
    <3>2. /\ proc[s[1]] = "unborn" \/ s[1] \in Execs
          /\ proc[s[1]] = "unborn" =>
               /\ \A u \in Thread : call[u].op = "spawn" => call[u].child # s[1]
               /\ \A q \in cutOff : q[1] = s[1] => q = s
          /\ \A e \in s[2] : e[1] < anonymousPipeId
      BY <2>2 DEF FullInv, Ends, Cuts
    <3>3. proc'[s[1]] = "unborn" => proc[s[1]] = "unborn"
      BY <1>3, <3>1
    <3>4. proc'[s[1]] = "unborn" \/ s[1] \in Execs
      <4>1. CASE s[1] = c
        BY <2>2, <3>2, <4>1 DEF Running
      <4>2. CASE s[1] # c
        <5>1. proc'[s[1]] = proc[s[1]]
          BY <1>3, <3>1, <4>2
        <5> QED
          BY <3>2, <5>1
      <4> QED
        BY <4>1, <4>2
    <3>5. ASSUME proc[s[1]] = "unborn", NEW q \in cutOff', q[1] = s[1] PROVE q = s
      <4>1. CASE q \in cutOff
        BY <3>2, <3>5, <4>1
      <4>2. CASE q \in Adrift(c, T)
        <5>1. PICK u \in Thread : call[u].op = "spawn" /\ q = <<call[u].child, call[u].ends>>
          BY <4>2 DEF Adrift, Replaced
        <5> QED
          BY <3>2, <3>5, <5>1
      <4> QED
        BY <4>1, <4>2
    <3> QED
      BY <1>4, <2>1, <3>2, <3>3, <3>4, <3>5
  <2>3. CASE s \in Adrift(c, T)
    <3>1. PICK u \in Thread : /\ call[u].op = "spawn" /\ s = <<call[u].child, call[u].ends>>
                              /\ Running(c) /\ Owner[u] = c
      BY <2>3 DEF Adrift, Replaced
    <3>2. /\ proc[s[1]] = "unborn" \/ (s[1] = c /\ c \in Execs)
          /\ \A v \in Thread : call[v].op = "spawn" /\ call[v].child = s[1] => v = u \/ s[1] = c
          /\ \A e \in s[2] : e[1] < anonymousPipeId
      BY <3>1 DEF FullInv, Ends, Spawns
    <3>3. s[1] \in Pid /\ u \in G
      <4>1. PICK k \in Pid, e \in SUBSET End : call[u] = Spawning(k, e)
        BY <3>1, CallForms, CallsDiffer DEF FullInv
      <4> QED
        BY <1>0, <3>1, <4>1, CallsDiffer
    <3>4. proc'[s[1]] = "unborn" \/ s[1] \in Execs
      BY <1>3, <3>1, <3>2, <3>3 DEF Running
    <3>5. proc'[s[1]] = "unborn" => proc[s[1]] = "unborn" /\ s[1] # c
      BY <1>3, <3>3
    <3>6. ASSUME proc[s[1]] = "unborn", s[1] # c, NEW q \in cutOff', q[1] = s[1] PROVE q = s
      <4>1. q \notin cutOff
        <5> SUFFICES ASSUME q \in cutOff PROVE FALSE
          OBVIOUS
        <5>1. \A v \in Thread : call[v].op = "spawn" => call[v].child # s[1]
          BY <3>6 DEF FullInv, Ends, Cuts
        <5> QED
          BY <3>1, <5>1
      <4>2. PICK v \in Thread : call[v].op = "spawn" /\ q = <<call[v].child, call[v].ends>>
        BY <4>1 DEF Adrift, Replaced
      <4>3. call[v].child = s[1]
        BY <3>6, <4>2
      <4>4. v = u
        BY <3>2, <3>6, <4>2, <4>3
      <4> QED
        BY <3>1, <4>2, <4>4
    <3>7. ASSUME s[1] # c, NEW v \in Thread, call'[v].op = "spawn" PROVE call'[v].child # s[1]
      BY <2>1, <3>2, <3>3, <3>7
    <3> QED
      BY <1>4, <3>2, <3>4, <3>5, <3>6, <3>7
  <2> QED
    BY <2>2, <2>3
<1> QED
  BY <1>8, <1>9, <1>10, <1>11, <1>12, <1>13, <1>14 DEF Ends

LEMMA AddProcessPipesFull ==
    ASSUME FullInv, NEW t \in Thread, AddProcessPipes(t)
    PROVE  \E c \in Pid, ends \in SUBSET End, T \in SUBSET Thread :
              /\ Join(c, ends, T) /\ \A u \in T : call[u].op = "spawn"
              /\ Ends' /\ Reads' /\ NoEmptyWrites'
<1>1. PICK c \in Pid, ends \in SUBSET End : call[t] = Spawning(c, ends)
  BY CallForms, CallsDiffer DEF FullInv, AddProcessPipes
<1>2. call[t].child = c /\ call[t].ends = ends /\ call[t].op = "spawn"
  BY <1>1, CallsDiffer
<1>3. /\ Running(Owner[t]) /\ Join(c, ends, {t})
      /\ cutOff' = cutOff \cup Adrift(c, {t})
  BY <1>2 DEF AddProcessPipes
<1>4. /\ proc[c] = "unborn" \/ (c = Owner[t] /\ c \in Execs)
      /\ \A u \in Thread : call[u].op = "spawn" /\ call[u].child = c => u = t \/ c = Owner[t]
      /\ \A u \in Thread : call[u].op = "spawn" /\ call[u].child = c =>
            \/ proc[c] = "unborn" \/ c = Owner[u]
      /\ \A e \in ends : e[1] < anonymousPipeId
  BY <1>2 DEF FullInv, Ends, Spawns
<1>5. \A u \in Thread : call[u].op = "spawn" /\ call[u].child = c => u = t \/ Owner[u] = c
  BY <1>3, <1>4 DEF Running
<1>6. ASSUME NEW s \in cutOff, s[1] = c PROVE Running(c)
  <2>1. proc[c] # "unborn"
    BY <1>2, <1>6 DEF FullInv, Ends, Cuts
  <2> QED
    BY <1>3, <1>4, <2>1
<1>7. {t} \in SUBSET Thread /\ \A u \in {t} : call[u].op = "spawn"
  BY <1>2
<1>8. proc[c] = "unborn" \/ (Running(c) /\ c \in Execs)
  BY <1>3, <1>4
<1>9. Ends' /\ Reads' /\ NoEmptyWrites'
  BY <1>3, <1>4, <1>5, <1>6, <1>7, <1>8, JoinFull
<1> QED
  BY <1>3, <1>7, <1>9

LEMMA AddCutOffFull ==
    ASSUME FullInv, NEW s \in cutOff, AddCutOff(s)
    PROVE  \E c \in Pid, ends \in SUBSET End, T \in SUBSET Thread :
              /\ Join(c, ends, T) /\ \A u \in T : call[u].op = "spawn"
              /\ Ends' /\ Reads' /\ NoEmptyWrites'
<1>1. PICK c \in Pid, ends \in SUBSET End : s = <<c, ends>>
  BY DEF FullInv, IInv, TypeOK
<1>2. s[1] = c /\ s[2] = ends
  BY <1>1
<1>3. /\ proc[c] # "gone" /\ Join(c, ends, {})
      /\ cutOff' = (cutOff \ {s}) \cup Adrift(c, {})
  BY <1>2 DEF AddCutOff
<1>4. /\ proc[c] = "unborn" \/ c \in Execs
      /\ proc[c] = "unborn" =>
           /\ \A u \in Thread : call[u].op = "spawn" => call[u].child # c
           /\ \A q \in cutOff : q[1] = c => q = s
      /\ \A e \in ends : e[1] < anonymousPipeId
  BY <1>2 DEF FullInv, Ends, Cuts
<1>5. proc[c] = "unborn" \/ (Running(c) /\ c \in Execs)
  BY <1>3, <1>4 DEF FullInv, IInv, TypeOK, Running
<1>6. ASSUME NEW u \in Thread, call[u].op = "spawn", call[u].child = c PROVE Owner[u] = c
  <2>1. proc[c] # "unborn"
    BY <1>4, <1>6
  <2> QED
    BY <1>6, <2>1 DEF FullInv, Ends, Spawns
<1>7. ASSUME NEW q \in cutOff', q \notin Adrift(c, {}), q[1] = c PROVE Running(c)
  BY <1>3, <1>4, <1>5, <1>7
<1>8. {} \in SUBSET Thread /\ \A u \in {} : call[u].op = "spawn"
  OBVIOUS
<1>9. Ends' /\ Reads' /\ NoEmptyWrites'
  BY <1>3, <1>4, <1>5, <1>6, <1>7, <1>8, JoinFull
<1> QED
  BY <1>3, <1>8, <1>9


LEMMA DeleteFull ==
    ASSUME FullInv, NEW p \in Pid, DeleteProcess(p)
    PROVE  Ends' /\ Reads' /\ NoEmptyWrites'
<1> DEFINE G == {u \in Thread : Owner[u] = p}
<1>0. PICK new : DeleteDoes(p, new)
  BY DeleteEffect, Zenon
<1>1. /\ anonymousPipes' = new /\ Live' = DOMAIN new /\ DOMAIN new \subseteq Live
      /\ \A d \in DOMAIN new :
           /\ new[d].readers = anonymousPipes[d].readers \ {p}
           /\ new[d].writers = anonymousPipes[d].writers \ {p}
           /\ \/ Kept(anonymousPipes[d].readsPending, new[d].readsPending, G)
              \/ new[d].readsPending = <<>>
           /\ \/ new[d].writesPending = anonymousPipes[d].writesPending
              \/ new[d].writesPending = <<>>
      /\ \A d \in Live : \A r \in anonymousPipes[d].readers :
            r = p \/ d \in DOMAIN new
      /\ call' = Answer(Released(new) \cup G)
  BY <1>0, Zenon DEF DeleteDoes
<1>2. /\ \A r \in Pid : fds'[r] = IF r = p THEN {} ELSE fds[r]
      /\ \A r \in Pid : proc'[r] = IF r = p THEN "gone" ELSE proc[r]
      /\ proc[p] = "running" /\ anonymousPipeId' = anonymousPipeId /\ cutOff' = cutOff
  BY DEF DeleteProcess, Running, FullInv, IInv, TypeOK
<1>3. \A u \in Thread : call'[u] = IF u \in Released(new) \cup G THEN Idle ELSE call[u]
  BY <1>1, Zenon DEF Answer
<1>4. Idle.op # "spawn"
  BY CallsDiffer
<1>5. G \in SUBSET Thread /\ \A u \in Thread \ G : Owner[u] # p
  OBVIOUS
<1> HIDE DEF G
<1>6. NoEmptyWrites'
  BY <1>1, WritesKept
<1>7. Reads'
  <2>1. ASSUME NEW d \in DOMAIN new
        PROVE  \/ Kept(anonymousPipes[d].readsPending, new[d].readsPending, G)
               \/ new[d].readsPending = <<>>
    BY <1>1
  <2>2. ASSUME NEW u \in Thread \ G, NEW d \in PipeId, call[u] = Reading(d)
        PROVE  /\ Running(Owner[u])'
               /\ <<d, FALSE>> \in fds'[Owner[u]]
               /\ d \in DOMAIN new
               /\ Owner[u] \in new[d].readers
    <3>1. /\ Running(Owner[u]) /\ <<d, FALSE>> \in fds[Owner[u]]
          /\ d \in Live /\ Owner[u] \in anonymousPipes[d].readers
          /\ Owner[u] \in Pid /\ Owner[u] # p
      BY <1>5, <2>2 DEF FullInv, Reads, BlockedReads, Registered
    <3> QED
      BY <1>1, <1>2, <3>1 DEF Running
  <2> QED
    BY <1>1, <1>5, <2>1, <2>2, ReadsStep, ZenonT(60)
<1>8. Spawns'
  <2> SUFFICES ASSUME NEW u \in Thread, call'[u].op = "spawn"
               PROVE  /\ Running(Owner[u])'
                      /\ \/ proc'[call'[u].child] = "unborn"
                         \/ call'[u].child = Owner[u] /\ Owner[u] \in Execs
                      /\ \A v \in Thread :
                            call'[v].op = "spawn" /\ call'[v].child = call'[u].child =>
                                v = u \/ call'[u].child = Owner[u]
                      /\ \A e \in call'[u].ends : e[1] < anonymousPipeId'
    BY DEF Spawns
  <2>1. u \notin G /\ call'[u] = call[u] /\ call[u].op = "spawn" /\ Owner[u] # p
    BY <1>3, <1>4, <1>5
  <2>2. /\ Running(Owner[u])
        /\ \/ proc[call[u].child] = "unborn"
           \/ call[u].child = Owner[u] /\ Owner[u] \in Execs
        /\ \A v \in Thread : call[v].op = "spawn" /\ call[v].child = call[u].child =>
                                v = u \/ call[u].child = Owner[u]
        /\ \A e \in call[u].ends : e[1] < anonymousPipeId
    BY <2>1 DEF FullInv, Ends, Spawns
  <2>3. call[u].child \in Pid /\ Owner[u] \in Pid
    <3>1. PICK k \in Pid, e \in SUBSET End : call[u] = Spawning(k, e)
      BY <2>1, CallForms, CallsDiffer DEF FullInv
    <3> QED
      BY <3>1, CallsDiffer
  <2>4. call[u].child # p
    BY <1>2, <2>1, <2>2
  <2> QED
    BY <1>2, <1>3, <1>4, <2>1, <2>2, <2>3, <2>4 DEF Running
<1>12. Cuts'
  BY <1>2, <1>3, <1>4, CutsKept
<1>9. Fresh'
  BY <1>1, <1>2 DEF FullInv, Ends, Fresh, Running
<1>10. KnownEnds'
  BY <1>1, <1>2 DEF FullInv, Ends, KnownEnds, Registered
<1>11. NoGhostEnd'
  BY <1>1, <1>2 DEF FullInv, Ends, NoGhostEnd, Registered
<1> QED
  BY <1>6, <1>7, <1>8, <1>9, <1>10, <1>11, <1>12 DEF Ends

LEMMA FullNext == FullInv /\ [Next]_vars => FullInv'
<1> SUFFICES ASSUME FullInv, [Next]_vars PROVE FullInv'
  OBVIOUS
<1>1. IInv'
  BY NextInv DEF FullInv
<1>2. Ends' /\ Reads' /\ NoEmptyWrites'
  <2>1. CASE UNCHANGED vars
    BY <2>1, RefusedFull DEF vars
  <2>2. ASSUME NEW t \in Thread, APipe(t)
        PROVE  Ends' /\ Reads' /\ NoEmptyWrites'
    BY <2>2, APipeFull
  <2>3. ASSUME NEW t \in Thread, NEW id \in PipeId, NEW n \in Count, Write(t, id, n)
        PROVE  Ends' /\ Reads' /\ NoEmptyWrites'
    BY <2>3, WriteFull, RefusedFull DEF Write, WriteRefused
  <2>4. ASSUME NEW t \in Thread, NEW id \in PipeId, NEW n \in Count, Read(t, id, n)
        PROVE  Ends' /\ Reads' /\ NoEmptyWrites'
    BY <2>4, ReadFull, ReadBlocksFull, RefusedFull DEF Read, ReadNothing
  <2>5. ASSUME NEW t \in Thread, NEW id \in PipeId, NEW w \in BOOLEAN, Close(t, id, w)
        PROVE  Ends' /\ Reads' /\ NoEmptyWrites'
    BY <2>5, CloseFull
  <2>6. ASSUME NEW t \in Thread, NEW c \in Pid, NEW ends \in SUBSET End,
               SpawnRequest(t, c, ends)
        PROVE  Ends' /\ Reads' /\ NoEmptyWrites'
    BY <2>6, SpawnRequestFull
  <2>7. ASSUME NEW t \in Thread, AddProcessPipes(t)
        PROVE  Ends' /\ Reads' /\ NoEmptyWrites'
    BY <2>7, AddProcessPipesFull
  <2>9. ASSUME NEW s \in cutOff, AddCutOff(s)
        PROVE  Ends' /\ Reads' /\ NoEmptyWrites'
    BY <2>9, AddCutOffFull
  <2>8. ASSUME NEW p \in Pid, DeleteProcess(p)
        PROVE  Ends' /\ Reads' /\ NoEmptyWrites'
    BY <2>8, DeleteFull
  <2> QED
    BY <2>1, <2>2, <2>3, <2>4, <2>5, <2>6, <2>7, <2>8, <2>9 DEF Next
<1> QED
  BY <1>1, <1>2 DEF FullInv

-----------------------------------------------------------------------------
(* Which replies say end-of-file *)

Drained(t) ==
    \E id \in PipeId :
       /\ <<id, FALSE>> \in fds[Owner[t]]
       /\ \/ id \notin DOMAIN anonymousPipes'
          \/ /\ anonymousPipes'[id].writers = {}
             /\ anonymousPipes'[id].writesPending = <<>>

LEMMA RepliesDiffer ==
    /\ \A a, b : Got(a) = Got(b) => a = b
    /\ \A a, b : Got(a) # Wrote(b)
<1>1. ASSUME NEW a, NEW b, Got(a) = Got(b) PROVE a = b
  <2>1. Got(a).value = a /\ Got(b).value = b
    BY DEF Got
  <2> QED
    BY <1>1, <2>1
<1>2. ASSUME NEW a, NEW b PROVE Got(a) # Wrote(b)
  <2>1. Got(a).op = "read" /\ Wrote(b).op = "write"
    BY DEF Got, Wrote
  <2> QED
    BY <2>1
<1> QED
  BY <1>1, <1>2

\* A request that the write handler serves gets at least one byte.
LEMMA WriteEof ==
    ASSUME FullInv, NEW t \in Thread, NEW id \in PipeId, NEW n \in Count,
           WriteAccepted(t, id, n), NEW u \in DOMAIN replies'
    PROVE  replies'[u] # Got(0)
<1> DEFINE q == anonymousPipes[id].readsPending
<1>1. PICK m \in 0 .. Len(q) : \E cut \in Turns(q, n, m) : \E left \in Seq(Byte) :
         \E new : WriteDoes(id, m, cut, left, new)
  <2> HIDE DEF q
  <2> QED
    BY WriteEffect, Zenon DEF q
<1>2. PICK cut \in Turns(q, n, m) : \E left \in Seq(Byte) : \E new :
         WriteDoes(id, m, cut, left, new)
  BY <1>1, Zenon
<1>3. /\ id \in Live
      /\ \/ \E v : replies'[u] = Wrote(v)
         \/ \E i \in 1 .. m : replies'[u] = Got(cut[i] - cut[i - 1])
  BY <1>2, Zenon DEF WriteDoes
<1>4. q \in Seq(ReadRequest) /\ m \in 0 .. Len(q)
  BY <1>3 DEF FullInv, IInv, TypeOK, Pipe
<1> HIDE DEF q
<1>5. ASSUME NEW i \in 1 .. m
      PROVE  cut[i] - cut[i - 1] # 0
  <2>1. q[i] \in ReadRequest
    BY <1>4
  <2>2. q[i].count \in 1 .. MaxCount
    BY <2>1 DEF ReadRequest, Count
  <2>3. cut \in [0 .. m -> 0 .. n] /\ cut[i - 1] < n
        /\ cut[i] = Min2(n, cut[i - 1] + q[i].count)
    BY <1>2 DEF Turns
  <2>4. n \in Nat /\ m \in Nat
    BY <1>4 DEF Count
  <2>5. cut[i - 1] \in Nat
    BY <2>3, <2>4
  <2>6. ASSUME NEW a \in Nat, NEW k \in Nat \ {0}, a < n
        PROVE  Min2(n, a + k) - a # 0
    BY <2>4, <2>6 DEF Min2
  <2>7. q[i].count \in Nat \ {0}
    BY <2>2
  <2>8. Min2(n, cut[i - 1] + q[i].count) - cut[i - 1] # 0
    BY <2>3, <2>5, <2>6, <2>7
  <2> QED
    BY <2>3, <2>8
<1>6. CASE \E v : replies'[u] = Wrote(v)
  BY <1>6, RepliesDiffer
<1>7. CASE \E i \in 1 .. m : replies'[u] = Got(cut[i] - cut[i - 1])
  BY <1>5, <1>7, RepliesDiffer
<1> QED
  BY <1>3, <1>6, <1>7

LEMMA ReadEof ==
    ASSUME FullInv, NEW t \in Thread, NEW id \in PipeId, NEW n \in Count,
           ReadBuffered(t, id, n), NEW u \in DOMAIN replies'
    PROVE  replies'[u] # Got(0)
<1>1. PICK k \in Nat \ {0} : \E new : ReadDoes(t, id, k, new)
  BY ReadEffect, Zenon
<1>2. replies' = [v \in {t} |-> Got(k)]
  BY <1>1, Zenon DEF ReadDoes
<1> QED
  BY <1>2, RepliesDiffer

LEMMA NothingEof ==
    ASSUME FullInv, NEW t \in Thread, NEW id \in PipeId, ReadNothing(t, id),
           NEW u \in DOMAIN replies', replies'[u] = Got(0)
    PROVE  Drained(u)
<1>1. <<id, FALSE>> \in fds[Owner[t]] /\ anonymousPipes' = anonymousPipes
  BY DEF ReadNothing
<1>2. u = t
  <2>1. CASE Registered(Owner[t], id, FALSE)
    BY <2>1 DEF ReadNothing
  <2>2. CASE ~Registered(Owner[t], id, FALSE)
    <3>1. replies' = [v \in {t} |-> Got(0)]
      BY <2>2, Zenon DEF ReadNothing
    <3> QED
      BY <3>1
  <2> QED
    BY <2>1, <2>2
<1>3. CASE ~Registered(Owner[t], id, FALSE)
  <2>1. id \notin Live
    BY <1>1, <1>3 DEF FullInv, Ends, KnownEnds
  <2> QED
    BY <1>1, <1>2, <2>1 DEF Drained, Live
<1>4. CASE Registered(Owner[t], id, FALSE)
  <2>1. /\ anonymousPipes[id].writesPending = <<>>
        /\ replies' = [v \in {t} |-> IF anonymousPipes[id].writers # {}
                                     THEN Got(-EAGAIN) ELSE Got(0)]
    BY <1>4 DEF ReadNothing
  <2>2. Got(-EAGAIN) # Got(0)
    BY RepliesDiffer DEF EAGAIN
  <2>3. anonymousPipes[id].writers = {}
    BY <1>2, <2>1, <2>2
  <2> QED
    BY <1>1, <1>2, <2>1, <2>3 DEF Drained
<1> QED
  BY <1>3, <1>4

\* A pending read whose request is gone although its pipe stays was the last of
\* a pipe without writers and without data.
LEMMA ReleasedEof ==
    ASSUME FullInv, NEW G \in SUBSET Thread, NEW new, anonymousPipes' = new,
           DOMAIN new \subseteq Live,
           \A d \in DOMAIN new :
             /\ \/ Kept(anonymousPipes[d].readsPending, new[d].readsPending, G)
                \/ new[d].readsPending = <<>> /\ new[d].writers = {}
             /\ \/ new[d].writesPending = anonymousPipes[d].writesPending
                \/ new[d].writesPending = <<>>,
           NEW u \in Released(new), u \notin G
    PROVE  Drained(u)
<1>1. PICK d \in DOMAIN new : /\ u \in Threads(anonymousPipes[d].readsPending)
                             /\ u \notin Threads(new[d].readsPending)
  BY DEF Released
<1>2. PICK i \in DOMAIN anonymousPipes[d].readsPending :
         anonymousPipes[d].readsPending[i].thread = u /\ u # NoThread
  BY <1>1 DEF Threads
<1>3. ~Kept(anonymousPipes[d].readsPending, new[d].readsPending, G)
  BY <1>1, <1>2 DEF Kept, Threads
<1>4. new[d].writers = {}
  BY <1>3
<1>5. d \in Live /\ d \in PipeId
  BY DEF FullInv, IInv, TypeOK
<1>6. DOMAIN <<>> = {}
  OBVIOUS
<1>7. anonymousPipes[d].readsPending # <<>>
  BY <1>2, <1>6
<1>8. anonymousPipes[d].writesPending = <<>>
  BY <1>5, <1>7 DEF FullInv, IInv, QueuesSound, Sound
<1>9. new[d].writesPending = <<>>
  BY <1>8
<1>10. u \in Thread
  BY ReleasedType DEF FullInv
<1>11. call[u] = Reading(d)
  BY <1>2, <1>5 DEF FullInv, Reads, QueuedReads, Queued
<1>12. <<d, FALSE>> \in fds[Owner[u]]
  BY <1>5, <1>10, <1>11 DEF FullInv, Reads, BlockedReads
<1> QED
  BY <1>4, <1>5, <1>9, <1>12 DEF Drained

LEMMA EofStep ==
    ASSUME FullInv, Next, NEW u \in DOMAIN replies', replies'[u] = Got(0)
    PROVE  Drained(u)
<1>0. DOMAIN << >> = {}
  OBVIOUS
<1>1. ASSUME NEW t \in Thread, NEW id \in PipeId, NEW n \in Count, Write(t, id, n)
      PROVE  Drained(u)
  <2>1. CASE WriteAccepted(t, id, n)
    BY <2>1, WriteEof
  <2>2. CASE WriteRefused(t, id)
    BY <2>2, RepliesDiffer DEF WriteRefused
  <2> QED
    BY <1>1, <2>1, <2>2 DEF Write
<1>2. ASSUME NEW t \in Thread, NEW id \in PipeId, NEW n \in Count, Read(t, id, n)
      PROVE  Drained(u)
  <2>1. CASE ReadBuffered(t, id, n)
    BY <2>1, ReadEof
  <2>2. CASE ReadBlocks(t, id, n)
    BY <1>0, <2>2 DEF ReadBlocks
  <2>3. CASE ReadNothing(t, id)
    BY <2>3, NothingEof
  <2> QED
    BY <1>2, <2>1, <2>2, <2>3 DEF Read
<1>3. ASSUME NEW t \in Thread, NEW id \in PipeId, NEW w \in BOOLEAN, Close(t, id, w)
      PROVE  Drained(u)
  <2>1. PICK new : CloseDoes(t, id, w, new)
    BY <1>3, CloseEffect, Zenon
  <2>2. /\ anonymousPipes' = new /\ DOMAIN new \subseteq Live
        /\ \A d \in DOMAIN new :
             /\ \/ new[d].readsPending = anonymousPipes[d].readsPending
                \/ new[d].readsPending = <<>> /\ new[d].writers = {}
             /\ \/ new[d].writesPending = anonymousPipes[d].writesPending
                \/ new[d].writesPending = <<>>
        /\ replies' = [v \in Released(new) |-> Got(0)]
    BY <2>1, Zenon DEF CloseDoes
  <2>3. \A d \in DOMAIN new :
           new[d].readsPending = anonymousPipes[d].readsPending
             => Kept(anonymousPipes[d].readsPending, new[d].readsPending, {})
    BY DEF Kept
  <2>4. {} \in SUBSET Thread /\ u \notin {} /\ u \in Released(new)
    BY <2>2
  <2> QED
    BY <2>2, <2>3, <2>4, ReleasedEof
<1>4. ASSUME NEW p \in Pid, DeleteProcess(p)
      PROVE  Drained(u)
  <2> DEFINE G == {v \in Thread : Owner[v] = p}
  <2>1. PICK new : DeleteDoes(p, new)
    BY <1>4, DeleteEffect, Zenon
  <2>2. /\ anonymousPipes' = new /\ DOMAIN new \subseteq Live
        /\ \A d \in DOMAIN new :
             /\ \/ Kept(anonymousPipes[d].readsPending, new[d].readsPending, G)
                \/ new[d].readsPending = <<>> /\ new[d].writers = {}
             /\ \/ new[d].writesPending = anonymousPipes[d].writesPending
                \/ new[d].writesPending = <<>>
        /\ replies' = [v \in {v \in Released(new) : Owner[v] # p} |-> Got(0)]
    BY <2>1, Zenon DEF DeleteDoes
  <2>3. G \in SUBSET Thread /\ u \notin G /\ u \in Released(new)
    BY <2>2
  <2> HIDE DEF G
  <2> QED
    BY <2>2, <2>3, ReleasedEof
<1>5. ASSUME NEW t \in Thread, APipe(t)
      PROVE  Drained(u)
  BY <1>0, <1>5 DEF APipe
<1>6. ASSUME NEW t \in Thread, NEW c \in Pid, NEW ends \in SUBSET End,
             SpawnRequest(t, c, ends)
      PROVE  Drained(u)
  BY <1>0, <1>6 DEF SpawnRequest
<1>7. ASSUME NEW t \in Thread, AddProcessPipes(t)
      PROVE  Drained(u)
  BY <1>0, <1>7 DEF AddProcessPipes, Join
<1>8. ASSUME NEW s \in cutOff, AddCutOff(s)
      PROVE  Drained(u)
  BY <1>0, <1>8 DEF AddCutOff, Join
<1> QED
  BY <1>1, <1>2, <1>3, <1>4, <1>5, <1>6, <1>7, <1>8 DEF Next

-----------------------------------------------------------------------------
(* Theorems about the clients *)

\* What the server knows of the ends and of the waiting reads agrees with what
\* the processes have open and wait for: preserved by every handler.
THEOREM FullInvariance == Spec => []FullInv
  BY FullInit, FullNext, PTL DEF Spec

\* A thread blocked in read() belongs to a running process and its request is in
\* the queue of its pipe exactly once, whatever other threads and processes
\* close, spawn, exec and exit (handleMessageAPipeRead, deleteProcess).
THEOREM NoReplyIsLost == Spec => []BlockedReadIsQueued
<1>1. FullInv => BlockedReadIsQueued
  <2> SUFFICES ASSUME FullInv, NEW t \in Thread, NEW id \in PipeId, call[t] = Reading(id)
               PROVE  /\ Running(Owner[t])
                      /\ id \in Live
                      /\ \E i \in DOMAIN anonymousPipes[id].readsPending :
                            /\ anonymousPipes[id].readsPending[i].thread = t
                            /\ \A j \in DOMAIN anonymousPipes[id].readsPending :
                                  anonymousPipes[id].readsPending[j].thread = t => j = i
    BY DEF BlockedReadIsQueued
  <2>1. /\ Running(Owner[t]) /\ id \in Live
        /\ t \in Threads(anonymousPipes[id].readsPending)
    BY DEF FullInv, Reads, BlockedReads, Registered
  <2>2. PICK i \in DOMAIN anonymousPipes[id].readsPending :
           anonymousPipes[id].readsPending[i].thread = t /\ t # NoThread
    BY <2>1 DEF Threads
  <2>3. \A j \in DOMAIN anonymousPipes[id].readsPending :
           anonymousPipes[id].readsPending[j].thread = t => j = i
    BY <2>1, <2>2 DEF FullInv, Reads, QueuedReads, Queued
  <2> QED
    BY <2>1, <2>2, <2>3
<1> QED
  BY <1>1, FullInvariance, PTL

\* The server counts no reader and no writer that has not got the end open, for
\* processes that do not exec (addProcessPipes, closeAPipe).
THEOREM EndsAreReal == Spec => []NoGhostEnd
<1>1. FullInv => NoGhostEnd
  BY DEF FullInv, Ends
<1> QED
  BY <1>1, FullInvariance, PTL

\* End-of-file is told only to a process that has the read end of a pipe without
\* data and without writers, or of one that is gone.
THEOREM EofIsTrue == Spec => EofMeansDrained
<1>1. FullInv /\ [Next]_vars =>
         [\A t \in DOMAIN replies' : replies'[t] = Got(0) => Drained(t)]_vars
  BY EofStep
<1>2. Spec => [][\A t \in DOMAIN replies' : replies'[t] = Got(0) => Drained(t)]_vars
  BY <1>1, FullInvariance, PTL DEF Spec
<1> QED
  BY <1>2 DEF EofMeansDrained, Drained

-----------------------------------------------------------------------------
(* The bytes in the buffer of a pipe                                       *)
(*                                                                         *)
(* FlattenSeq puts the kept writes together with a recursive function: that*)
(* the function is there, and how it depends on the first and on the last  *)
(* write, are shown by looking at the first write for which it would fail. *)

Lower == {ss \in Nat \X Nat : ss[1] < ss[2]}

LEMMA Least ==
    ASSUME NEW T, T \subseteq Nat, T # {}
    PROVE  \E x \in T : \A y \in T : ~(y < x)
<1>1. IsWellFoundedOn(Lower, Nat)
  BY NatLessThanWellFounded, Zenon DEF OpToRel, Lower
<1>2. PICK x \in T : \A y \in T : ~(<<y, x>> \in Lower)
  BY <1>1, WFMin
<1>3. \A y \in T : ~(y < x)
  BY <1>2 DEF Lower
<1> QED
  BY <1>3

Cat(x, y) == x \o y

LEMMA CatIs ==
    ASSUME NEW S
    PROVE  /\ \A x, y \in Seq(S) : Cat(x, y) \in Seq(S)
           /\ \A x, y, z \in Seq(S) : Cat(Cat(x, y), z) = Cat(x, Cat(y, z))
           /\ \A x \in Seq(S) : Cat(<<>>, x) = x /\ Cat(x, <<>>) = x
<1>1. \A x, y, z \in Seq(S) : (x \o y) \o z = x \o (y \o z)
  BY ConcatAssociative
<1>2. \A x, y \in Seq(S) : x \o y \in Seq(S)
  OBVIOUS
<1>3. \A x \in Seq(S) : <<>> \o x = x /\ x \o <<>> = x
  OBVIOUS
<1>5. \A x, y \in Seq(S) : Cat(x, y) \in Seq(S)
  BY <1>2, Zenon DEF Cat
<1>6. \A x, y, z \in Seq(S) : Cat(Cat(x, y), z) = Cat(x, Cat(y, z))
  BY <1>1, Zenon DEF Cat
<1>7. \A x \in Seq(S) : Cat(<<>>, x) = x /\ Cat(x, <<>>) = x
  BY <1>3, Zenon DEF Cat
<1> QED
  BY <1>5, <1>6, <1>7

\* What the function gives for the first i writes of w.  Concatenation has a
\* name of its own: the solver takes it apart wherever it sees it.
Glue(w, f, i) == IF i = 1 THEN w[i] ELSE Cat(f[i - 1], w[i])

Glues(w, f, n) == f = [i \in 1 .. n |-> Glue(w, f, i)]

LEMMA GluesIs ==
    ASSUME NEW w, NEW f, NEW n, Glues(w, f, n), NEW i \in 1 .. n
    PROVE  f[i] = Glue(w, f, i)
  BY DEF Glues

LEMMA GlueExists ==
    ASSUME NEW w, NEW n \in Nat
    PROVE  \E f : Glues(w, f, n)
<1> DEFINE T == {k \in Nat : ~\E f : Glues(w, f, k)}
<1> SUFFICES ASSUME T # {} PROVE FALSE
  OBVIOUS
<1>1. T \subseteq Nat
  OBVIOUS
<1>2. PICK m \in T : \A k \in T : ~(k < m)
  <2> HIDE DEF T
  <2> QED
    BY <1>1, Least
<1>3. m # 0
  <2> DEFINE f == [i \in 1 .. 0 |-> 0]
  <2>1. Glues(w, f, 0)
    BY DEF Glues
  <2> QED
    BY <2>1
<1>4. m \in Nat /\ m - 1 \in Nat /\ m - 1 < m
  BY <1>3
<1>5. PICK g : Glues(w, g, m - 1)
  BY <1>2, <1>4
<1> DEFINE h == [i \in 1 .. m |-> IF i = m THEN Glue(w, g, m) ELSE g[i]]
<1>6. \A i \in 1 .. m - 1 : h[i] = g[i] /\ g[i] = Glue(w, g, i)
  <2>1. \A i \in 1 .. m - 1 : g[i] = Glue(w, g, i)
    BY <1>5, GluesIs
  <2>2. \A i \in 1 .. m - 1 : i \in 1 .. m /\ i # m
    BY <1>4
  <2> QED
    BY <2>1, <2>2
<1>7. h[m] = Glue(w, g, m)
  BY <1>3, <1>4
<1>8. h = [i \in 1 .. m |-> h[i]]
  OBVIOUS
<1> HIDE DEF h
<1>9. ASSUME NEW i \in 1 .. m
      PROVE  h[i] = Glue(w, h, i)
  <2>1. i = 1 \/ i - 1 \in 1 .. m - 1
    BY <1>4
  <2>2. Glue(w, g, i) = Glue(w, h, i)
    BY <1>6, <2>1 DEF Glue
  <2>3. i = m \/ i \in 1 .. m - 1
    BY <1>4
  <2> QED
    BY <1>6, <1>7, <2>2, <2>3
<1>10. h = [i \in 1 .. m |-> Glue(w, h, i)]
  BY <1>8, <1>9
<1> QED
  BY <1>10 DEF Glues

\* The function, as FlattenSeq chooses it.
Glued(w) == CHOOSE f : Glues(w, f, Len(w))

LEMMA FlattenIs ==
    ASSUME NEW S, NEW w \in Seq(S)
    PROVE  /\ w = <<>> => FlattenSeq(w) = <<>>
           /\ w # <<>> => FlattenSeq(w) = Glued(w)[Len(w)]
           /\ Glues(w, Glued(w), Len(w))
<1>1. Len(w) \in Nat /\ (Len(w) = 0 <=> w = <<>>)
  OBVIOUS
<1>2. Glues(w, Glued(w), Len(w))
  BY <1>1, GlueExists DEF Glued
<1>3. FlattenSeq(w) = IF Len(w) = 0 THEN w ELSE Glued(w)[Len(w)]
  BY Zenon DEF FlattenSeq, Glued, Glues, Glue, Cat
<1> QED
  BY <1>1, <1>2, <1>3

LEMMA GlueType ==
    ASSUME NEW S, NEW w \in Seq(Seq(S)), NEW f, Glues(w, f, Len(w))
    PROVE  \A i \in 1 .. Len(w) : f[i] \in Seq(S)
<1> DEFINE T == {i \in 1 .. Len(w) : f[i] \notin Seq(S)}
<1> SUFFICES ASSUME T # {} PROVE FALSE
  OBVIOUS
<1>1. T \subseteq Nat
  OBVIOUS
<1>2. PICK m \in T : \A k \in T : ~(k < m)
  <2> HIDE DEF T
  <2> QED
    BY <1>1, Least
<1>3. f[m] = Glue(w, f, m) /\ w[m] \in Seq(S) /\ m \in Nat
  BY GluesIs
<1>4. CASE m = 1
  BY <1>3, <1>4 DEF Glue
<1>5. CASE m # 1
  <2>1. m - 1 \in 1 .. Len(w) /\ m - 1 < m
    BY <1>3, <1>5
  <2>2. f[m - 1] \in Seq(S)
    BY <1>2, <2>1
  <2>3. Cat(f[m - 1], w[m]) \in Seq(S)
    BY <1>3, <2>2, CatIs
  <2> QED
    BY <1>3, <1>5, <2>3 DEF Glue
<1> QED
  BY <1>4, <1>5

LEMMA FlattenType ==
    ASSUME NEW S, NEW w \in Seq(Seq(S))
    PROVE  FlattenSeq(w) \in Seq(S)
<1>1. CASE w = <<>>
  <2>1. FlattenSeq(w) = <<>>
    BY <1>1, FlattenIs
  <2> QED
    BY <2>1
<1>2. CASE w # <<>>
  <2>1. FlattenSeq(w) = Glued(w)[Len(w)] /\ Glues(w, Glued(w), Len(w))
    BY <1>2, FlattenIs
  <2>2. Len(w) \in 1 .. Len(w)
    BY <1>2
  <2>3. \A i \in 1 .. Len(w) : Glued(w)[i] \in Seq(S)
    BY <2>1, GlueType
  <2> QED
    BY <2>1, <2>2, <2>3
<1> QED
  BY <1>1, <1>2

LEMMA GlueNext ==
    ASSUME NEW w, NEW f, NEW i, i # 1
    PROVE  Glue(w, f, i) = Cat(f[i - 1], w[i])
  BY Zenon DEF Glue

\* The first n writes alone decide what the function gives for them.
LEMMA GlueSame ==
    ASSUME NEW n \in Nat, NEW w, NEW f, Glues(w, f, n),
           NEW v, NEW g, Glues(v, g, n + 1),
           \A i \in 1 .. n : w[i] = v[i]
    PROVE  \A i \in 1 .. n : f[i] = g[i]
<1> DEFINE T == {i \in 1 .. n : f[i] # g[i]}
<1> SUFFICES ASSUME T # {} PROVE FALSE
  OBVIOUS
<1>1. T \subseteq Nat
  OBVIOUS
<1>2. PICK m \in T : \A i \in T : ~(i < m)
  <2> HIDE DEF T
  <2> QED
    BY <1>1, Least
<1>3. m \in 1 .. n /\ m \in 1 .. n + 1 /\ m \in Nat
  OBVIOUS
<1>4. f[m] = Glue(w, f, m) /\ g[m] = Glue(v, g, m) /\ w[m] = v[m]
  BY <1>3, GluesIs
<1>5. m # 1 => f[m - 1] = g[m - 1]
  BY <1>2, <1>3
<1> QED
  BY <1>4, <1>5 DEF Glue

\* One more write.
LEMMA GlueMore ==
    ASSUME NEW n \in Nat, n # 0, NEW w, NEW f, Glues(w, f, n),
           NEW v, NEW g, Glues(v, g, n + 1),
           \A i \in 1 .. n : w[i] = v[i]
    PROVE  g[n + 1] = Cat(f[n], v[n + 1])
<1>1. \A i \in 1 .. n : f[i] = g[i]
  BY GlueSame
<1>2. f[n] = g[n]
  BY <1>1
<1>3. g[n + 1] = Glue(v, g, n + 1)
  BY GluesIs
<1>4. Glue(v, g, n + 1) = Cat(g[n + 1 - 1], v[n + 1]) /\ n + 1 - 1 = n
  <2>1. n + 1 # 1 /\ n + 1 - 1 = n
    OBVIOUS
  <2> QED
    BY <2>1, GlueNext
<1> QED
  BY <1>2, <1>3, <1>4

LEMMA FlattenAppend ==
    ASSUME NEW S, NEW w \in Seq(Seq(S)), NEW x \in Seq(S)
    PROVE  FlattenSeq(Append(w, x)) = Cat(FlattenSeq(w), x)
<1>1. PICK n : n = Len(w)
  OBVIOUS
<1>2. PICK v : v = Append(w, x)
  OBVIOUS
<1>3. PICK f : f = Glued(w)
  OBVIOUS
<1>4. PICK g : g = Glued(v)
  OBVIOUS
<1>5. /\ v \in Seq(Seq(S)) /\ v # <<>> /\ Len(v) = n + 1 /\ v[n + 1] = x /\ n \in Nat
      /\ \A i \in 1 .. n : w[i] = v[i]
  BY <1>1, <1>2
<1>6. FlattenSeq(v) = g[n + 1] /\ Glues(v, g, n + 1)
  BY <1>4, <1>5, FlattenIs
<1>7. Glues(w, f, n) /\ (w # <<>> => FlattenSeq(w) = f[n]) /\ (w = <<>> => FlattenSeq(w) = <<>>)
  BY <1>1, <1>3, FlattenIs
<1>8. CASE n = 0
  <2>6. Len(w) = 0 => w = <<>>
    OBVIOUS
  <2>0. w = <<>> /\ n + 1 = 1 /\ 1 \in 1 .. 1
    BY ONLY <1>1, <1>8, <2>6
  <2>1. w = <<>> /\ v[1] = x /\ FlattenSeq(v) = g[1] /\ n + 1 = 1 /\ 1 \in 1 .. 1
    BY <1>5, <1>6, <2>0, Zenon
  <2>4. Glues(v, g, 1)
    BY <1>6, <2>1
  <2>5. g[1] = Glue(v, g, 1)
    BY <2>1, <2>4, GluesIs
  <2>2. g[1] = x
    BY <2>1, <2>5 DEF Glue
  <2>3. Cat(<<>>, x) = x
    BY CatIs
  <2> QED
    BY <1>2, <1>7, <2>1, <2>2, <2>3
<1>9. CASE n # 0
  <2>1. w # <<>>
    BY <1>1, <1>9
  <2>2. g[n + 1] = Cat(f[n], v[n + 1])
    <3>1. n \in Nat /\ n # 0 /\ Glues(w, f, n) /\ Glues(v, g, n + 1)
          /\ \A i \in 1 .. n : w[i] = v[i]
      BY <1>5, <1>6, <1>7, <1>9
    <3> QED
      BY ONLY <3>1, GlueMore
  <2> QED
    BY <1>2, <1>5, <1>6, <1>7, <2>1, <2>2
<1> QED
  BY <1>8, <1>9

\* One write in front: the step of the minimal counterexample.
LEMMA GlueFrontStep ==
    ASSUME NEW Q, \A x, y, z \in Q : Cat(Cat(x, y), z) = Cat(x, Cat(y, z)),
           NEW n \in Nat, NEW w, NEW f, Glues(w, f, n + 1),
           NEW v, NEW g, Glues(v, g, n), w[1] \in Q,
           \A i \in 1 .. n : v[i] = w[i + 1] /\ v[i] \in Q /\ g[i] \in Q,
           NEW m \in 1 .. n,
           \A i \in 1 .. n : i < m => f[i + 1] = Cat(w[1], g[i])
    PROVE  f[m + 1] = Cat(w[1], g[m])
<1>1. m + 1 \in 1 .. n + 1 /\ m + 1 # 1 /\ m + 1 - 1 = m /\ m \in Nat
      /\ 1 \in 1 .. n + 1
  OBVIOUS
<1>2. f[m + 1] = Glue(w, f, m + 1) /\ g[m] = Glue(v, g, m) /\ f[1] = Glue(w, f, 1)
  BY <1>1, GluesIs
<1>3. f[m + 1] = Cat(f[m], v[m])
  <2>1. Glue(w, f, m + 1) = Cat(f[m + 1 - 1], w[m + 1])
    <3>1. PICK j : j = m + 1
      OBVIOUS
    <3>2. j # 1
      BY <1>1, <3>1
    <3>3. Glue(w, f, j) = Cat(f[j - 1], w[j])
      BY ONLY <3>2, GlueNext
    <3> QED
      BY <3>1, <3>3
  <2> QED
    BY <1>1, <1>2, <2>1
<1>4. CASE m = 1
  <2>1. f[1] = w[1] /\ g[1] = v[1]
    BY <1>2, <1>4 DEF Glue
  <2> QED
    BY <1>3, <1>4, <2>1
<1>5. CASE m # 1
  <2>1. m - 1 \in 1 .. n /\ m - 1 < m /\ m - 1 + 1 = m
    BY <1>1, <1>5
  <2>2. f[m] = Cat(w[1], g[m - 1])
    BY <2>1
  <2>3. g[m] = Cat(g[m - 1], v[m])
    BY <1>2, <1>5, GlueNext
  <2>4. g[m - 1] \in Q /\ v[m] \in Q
    BY <2>1
  <2>5. Cat(Cat(w[1], g[m - 1]), v[m]) = Cat(w[1], Cat(g[m - 1], v[m]))
    BY <2>4
  <2> QED
    BY <1>3, <2>2, <2>3, <2>5
<1> QED
  BY <1>4, <1>5

InFront(Q, n, w, f, v, g) ==
    /\ n \in Nat /\ Glues(w, f, n + 1) /\ Glues(v, g, n) /\ w[1] \in Q
    /\ \A x, y, z \in Q : Cat(Cat(x, y), z) = Cat(x, Cat(y, z))
    /\ \A i \in 1 .. n : v[i] = w[i + 1] /\ v[i] \in Q /\ g[i] \in Q

LEMMA GlueFront ==
    ASSUME NEW Q, NEW n, NEW w, NEW f, NEW v, NEW g, InFront(Q, n, w, f, v, g)
    PROVE  \A i \in 1 .. n : f[i + 1] = Cat(w[1], g[i])
<1> USE DEF InFront
<1> DEFINE T == {i \in 1 .. n : f[i + 1] # Cat(w[1], g[i])}
<1> SUFFICES ASSUME T # {} PROVE FALSE
  OBVIOUS
<1>1. T \subseteq Nat
  <2>1. 1 .. n \subseteq Nat
    OBVIOUS
  <2> QED
    BY <2>1, Zenon
<1>2. PICK m \in T : \A i \in T : ~(i < m)
  <2> HIDE DEF T
  <2> QED
    BY <1>1, Least
<1>3. m \in 1 .. n /\ \A i \in 1 .. n : i < m => f[i + 1] = Cat(w[1], g[i])
  BY <1>2
<1> HIDE DEF T
<1>4. f[m + 1] = Cat(w[1], g[m])
  BY <1>3, GlueFrontStep
<1> QED
  BY <1>2, <1>4 DEF T

LEMMA FlattenHead ==
    ASSUME NEW S, NEW w \in Seq(Seq(S)), w # <<>>
    PROVE  FlattenSeq(w) = Cat(Head(w), FlattenSeq(Tail(w)))
<1>1. PICK n : n = Len(w) - 1
  OBVIOUS
<1>2. PICK v : v = Tail(w)
  OBVIOUS
<1>3. PICK f : f = Glued(w)
  OBVIOUS
<1>4. PICK g : g = Glued(v)
  OBVIOUS
<1>5. /\ v \in Seq(Seq(S)) /\ Len(v) = n /\ Len(w) = n + 1 /\ n \in Nat /\ Head(w) = w[1]
      /\ w[1] \in Seq(S) /\ \A i \in 1 .. n : v[i] = w[i + 1] /\ v[i] \in Seq(S)
  BY <1>1, <1>2
<1>6. FlattenSeq(w) = f[n + 1] /\ Glues(w, f, n + 1)
  BY <1>3, <1>5, FlattenIs
<1>7. /\ Glues(v, g, n)
      /\ v # <<>> => FlattenSeq(v) = g[n]
      /\ v = <<>> => FlattenSeq(v) = <<>>
  BY <1>4, <1>5, FlattenIs
<1>8. \A i \in 1 .. n : g[i] \in Seq(S)
  <2>1. \A i \in 1 .. Len(v) : g[i] \in Seq(S)
    BY <1>5, <1>7, GlueType
  <2> QED
    BY <1>5, <2>1
<1>9. \A i \in 1 .. n : f[i + 1] = Cat(w[1], g[i])
  <2>1. \A i \in 1 .. n : v[i] = w[i + 1] /\ v[i] \in Seq(S) /\ g[i] \in Seq(S)
    BY <1>5, <1>8
  <2>2. n \in Nat /\ w[1] \in Seq(S)
    BY <1>5
  <2>3. \A x, y, z \in Seq(S) : Cat(Cat(x, y), z) = Cat(x, Cat(y, z))
    BY CatIs
  <2>4. InFront(Seq(S), n, w, f, v, g)
    BY ONLY <1>6, <1>7, <2>1, <2>2, <2>3 DEF InFront
  <2> QED
    BY ONLY <2>4, GlueFront
<1>10. CASE n = 0
  <2>1. v = <<>> /\ f[1] = Glue(w, f, 1) /\ FlattenSeq(w) = f[1]
    BY <1>5, <1>6, <1>10, GluesIs
  <2>2. f[1] = w[1]
    BY <2>1 DEF Glue
  <2>3. Cat(w[1], <<>>) = w[1]
    BY <1>5, CatIs
  <2> QED
    BY <1>2, <1>5, <1>7, <2>1, <2>2, <2>3
<1>11. CASE n # 0
  <2>1. n \in 1 .. n /\ v # <<>>
    BY <1>5, <1>11
  <2>2. f[n + 1] = Cat(w[1], g[n])
    BY <1>9, <2>1
  <2> QED
    BY <1>2, <1>5, <1>6, <1>7, <2>1, <2>2
<1> QED
  BY <1>10, <1>11

LEMMA CutTwo ==
    ASSUME NEW S, NEW s \in Seq(S), NEW n \in 0 .. Len(s)
    PROVE  s = Prefix(s, n) \o Suffix(s, n)
<1>1. /\ 1 \in 1 .. Len(s) + 1 /\ n \in 1 - 1 .. Len(s) /\ Len(s) \in n .. Len(s)
  OBVIOUS
<1>2. SubSeq(s, 1, n) \o SubSeq(s, n + 1, Len(s)) = SubSeq(s, 1, Len(s))
  BY <1>1, ConcatAdjacentSubSeq
<1>3. SubSeq(s, 1, Len(s)) = s
  BY SubSeqFull
<1> QED
  BY <1>2, <1>3 DEF Prefix, Suffix

\* Taking bytes from the front.
LEMMA CutFront ==
    ASSUME NEW S, NEW s \in Seq(S), NEW u \in Seq(S)
    PROVE  /\ Len(Cat(s, u)) = Len(s) + Len(u)
           /\ SubSeq(Cat(s, u), 1, Len(s)) = s
           /\ SubSeq(Cat(s, u), Len(s) + 1, Len(Cat(s, u))) = u
  BY DEF Cat

LEMMA FlattenRest ==
    ASSUME NEW S, NEW w \in Seq(Seq(S)), w # <<>>, NEW n \in Nat
    PROVE  LET k == Min2(n, Len(Head(w)))
           IN  FlattenSeq(w) = Cat(Prefix(Head(w), k), FlattenSeq(Rest(w, n)))
<1> DEFINE h == Head(w)
           v == Tail(w)
           k == Min2(n, Len(h))
           F == FlattenSeq(v)
<1>1. h \in Seq(S) /\ v \in Seq(Seq(S)) /\ F \in Seq(S)
  <2>1. h \in Seq(S) /\ v \in Seq(Seq(S))
    OBVIOUS
  <2> HIDE DEF h, v
  <2> QED
    BY <2>1, FlattenType
<1>2. FlattenSeq(w) = Cat(h, F)
  BY FlattenHead
<1>3. CASE Len(h) > n
  <2>1. k = n /\ n \in 0 .. Len(h)
    BY <1>1, <1>3 DEF Min2
  <2>2. Prefix(h, n) \in Seq(S) /\ Suffix(h, n) \in Seq(S)
    BY <1>1, <2>1, SuffixType
  <2>3. h = Cat(Prefix(h, n), Suffix(h, n))
    <3> HIDE DEF h
    <3> QED
      BY <1>1, <2>1, CutTwo DEF Cat
  <2>4. Rest(w, n) = <<Suffix(h, n)>> \o v
    BY <1>3 DEF Rest
  <2>5. FlattenSeq(<<Suffix(h, n)>> \o v) = Cat(Suffix(h, n), F)
    <3> DEFINE x == Suffix(h, n)
               z == <<x>> \o v
    <3> HIDE DEF x, h, v
    <3>1. x \in Seq(S)
      BY <2>2 DEF x
    <3>2. z \in Seq(Seq(S)) /\ z # <<>> /\ Head(z) = x /\ Tail(z) = v
      BY <1>1, <3>1, SMTT(20)
    <3> HIDE DEF z
    <3>3. FlattenSeq(z) = Cat(x, FlattenSeq(v))
      BY <3>2, FlattenHead
    <3> QED
      BY <3>3 DEF x, z
  <2> HIDE DEF h, v, F
  <2>6. Cat(Cat(Prefix(h, n), Suffix(h, n)), F) = Cat(Prefix(h, n), Cat(Suffix(h, n), F))
    BY <1>1, <2>2, CatIs
  <2>7. FlattenSeq(w) = Cat(Prefix(h, n), FlattenSeq(Rest(w, n)))
    BY <1>2, <2>3, <2>4, <2>5, <2>6
  <2> QED
    BY <2>1, <2>7 DEF h
<1>4. CASE ~(Len(h) > n)
  <2>1. k = Len(h) /\ Prefix(h, Len(h)) = h
    BY <1>1, <1>4 DEF Min2, Prefix
  <2>2. Rest(w, n) = v
    BY <1>4 DEF Rest
  <2> HIDE DEF h, v, F
  <2> QED
    BY <1>2, <2>1, <2>2 DEF F, h
<1> QED
  BY <1>3, <1>4

-----------------------------------------------------------------------------
(* Every pipe is a byte stream                                             *)
(*                                                                         *)
(* A write hands c of its bytes to waiting reads, which there are only when*)
(* nothing is buffered, and puts the rest behind the buffered bytes; a read*)
(* takes bytes of the first write; every other step opens or closes ends.  *)

\* No kept write is longer than a pipe may accept.
SmallWrites ==
    \A id \in Live : \A i \in DOMAIN anonymousPipes[id].writesPending :
        Len(anonymousPipes[id].writesPending[i]) <= MaxBytes

StreamInv == FullInv /\ SmallWrites

\* The numbers of the n bytes after the first a.
Run(a, n) == [i \in 1 .. n |-> a + i]

\* Nothing but pipe id changes, and its ends stay.
OnlyBytes(id) ==
    /\ id \in Live /\ Live' = Live
    /\ \A d \in Live : d # id => anonymousPipes'[d] = anonymousPipes[d]
    /\ anonymousPipes'[id].readers = anonymousPipes[id].readers
    /\ anonymousPipes'[id].writers = anonymousPipes[id].writers

Buffers(id, n, c) ==
    /\ c < n /\ anonymousPipes[id].readers # {}
    /\ anonymousPipes'[id].writesPending =
          Append(anonymousPipes[id].writesPending, Suffix(Run(written[id], n), c))
    /\ written' = [written EXCEPT ![id] = @ + n]

Refused(id, n, c) ==
    /\ c = n \/ anonymousPipes[id].readers = {}
    /\ anonymousPipes'[id].writesPending = anonymousPipes[id].writesPending
    /\ written' = [written EXCEPT ![id] = @ + c]

\* A write of n bytes of which c go to waiting reads.
WriteMoves(id, n, c) ==
    /\ OnlyBytes(id)
    /\ received' = [received EXCEPT ![id] = @ \o Prefix(Run(written[id], n), c)]
    /\ Buffers(id, n, c) \/ Refused(id, n, c)

ReadMoves(id, n) ==
    /\ OnlyBytes(id)
    /\ anonymousPipes'[id].writesPending = Rest(anonymousPipes[id].writesPending, n)
    /\ LET item == Head(anonymousPipes[id].writesPending)
       IN  received' = [received EXCEPT ![id] = @ \o Prefix(item, Min2(n, Len(item)))]
    /\ written' = written

\* No byte moves.
Calm ==
    /\ UNCHANGED <<written, received>>
    /\ \A d \in Live' :
          IF d \in Live
          THEN \/ anonymousPipes'[d].writesPending = anonymousPipes[d].writesPending
               \/ anonymousPipes'[d].writesPending = <<>> /\ anonymousPipes'[d].readers = {}
          ELSE anonymousPipes'[d].writesPending = <<>>

LEMMA RunType ==
    ASSUME NEW a \in Nat, NEW n \in Nat
    PROVE  Run(a, n) \in Seq(Byte) /\ Len(Run(a, n)) = n
<1>1. Run(a, n) \in [1 .. n -> Byte]
  BY DEF Run, Byte
<1> HIDE DEF Run
<1> QED
  BY <1>1

LEMMA WriteMovesBytes ==
    ASSUME FullInv, NEW t \in Thread, NEW id \in PipeId, NEW n \in Count,
           WriteAccepted(t, id, n)
    PROVE  \E c \in 0 .. n : /\ c # 0 => anonymousPipes[id].writesPending = <<>>
                             /\ WriteMoves(id, n, c)
<1> DEFINE pipe == anonymousPipes[id]
           q    == pipe.readsPending
           w    == pipe.writesPending
           data == [i \in 1 .. n |-> written[id] + i]
<1>1. PICK m \in 0 .. Len(q) : \E cut \in Turns(q, n, m) : HandOut(t, id, n, m, cut)
  BY DEF WriteAccepted
<1>2. PICK cut \in Turns(q, n, m) : HandOut(t, id, n, m, cut)
  BY <1>1
<1> DEFINE c    == cut[m]
           left == Suffix(data, c)
           kept == left # <<>> /\ pipe.readers # {}
           new  == [pipe EXCEPT !.readsPending = Suffix(@, m),
                                !.writesPending = IF kept THEN Append(@, left) ELSE @]
<1>3. id \in Live /\ pipe \in Pipe /\ q \in Seq(ReadRequest) /\ written[id] \in Nat
  BY DEF WriteAccepted, Registered, FullInv, IInv, TypeOK, Pipe
<1>4. n \in Nat /\ m \in Nat /\ m <= Len(q) /\ c \in 0 .. n /\ cut[0] = 0
  BY <1>3 DEF Count, Turns
<1>5. data = Run(written[id], n)
  BY DEF Run
<1>6. c # 0 => w = <<>>
  <2>1. c # 0 => q # <<>>
    BY <1>3, <1>4
  <2> QED
    BY <1>3, <2>1 DEF FullInv, IInv, QueuesSound, Sound
<1>7. /\ anonymousPipes' = [anonymousPipes EXCEPT ![id] = new]
      /\ received' = [received EXCEPT ![id] = @ \o Prefix(data, c)]
      /\ written' = [written EXCEPT ![id] = @ + IF kept THEN n ELSE c]
  <2>1. anonymousPipes' = [anonymousPipes EXCEPT ![id].readsPending  = Suffix(@, m),
             ![id].writesPending = IF kept THEN Append(@, left) ELSE @]
    BY <1>2, Zenon DEF HandOut
  <2>2. /\ received' = [received EXCEPT ![id] = @ \o Prefix(data, c)]
        /\ written' = [written EXCEPT ![id] = @ + IF kept THEN n ELSE c]
    BY <1>2, Zenon DEF HandOut
  <2> HIDE DEF kept, left, data, c
  <2>3. anonymousPipes' = [anonymousPipes EXCEPT ![id] = new]
    BY <1>3, <2>1 DEF FullInv, IInv, TypeOK, Pipe
  <2> QED
    BY <2>2, <2>3
<1>8. left # <<>> <=> c < n
  <2> HIDE DEF data, c
  <2>3. Run(written[id], n) \in Seq(Byte) /\ Len(Run(written[id], n)) = n
    BY <1>3, <1>4, RunType
  <2>1. data \in Seq(Byte) /\ Len(data) = n
    BY <1>5, <2>3
  <2>2. left \in Seq(Byte) /\ Len(left) = n - c
    BY <1>4, <2>1, SuffixType
  <2> HIDE DEF left
  <2> QED
    BY <1>4, <2>2
<1> HIDE DEF data, left, kept, c
<1>9. /\ new.readers = pipe.readers /\ new.writers = pipe.writers
      /\ new.writesPending = IF kept THEN Append(w, left) ELSE w
  BY <1>3 DEF Pipe
<1> HIDE DEF new
<1>10. /\ Live' = Live /\ anonymousPipes'[id] = new
       /\ \A d \in Live : d # id => anonymousPipes'[d] = anonymousPipes[d]
  BY <1>3, <1>7 DEF Live, FullInv, IInv, TypeOK
<1>11. OnlyBytes(id)
  BY <1>3, <1>9, <1>10 DEF OnlyBytes
<1>12. CASE kept
  <2>1. c < n /\ pipe.readers # {} /\ left = Suffix(Run(written[id], n), c)
    BY <1>5, <1>8, <1>12 DEF kept, left
  <2>2. Buffers(id, n, c)
    BY <1>7, <1>9, <1>10, <1>12, <2>1 DEF Buffers
  <2>3. WriteMoves(id, n, c)
    BY <1>5, <1>7, <1>11, <2>2 DEF WriteMoves
  <2> QED
    BY <1>4, <1>6, <2>3
<1>13. CASE ~kept
  <2>1. c = n \/ pipe.readers = {}
    BY <1>4, <1>8, <1>13 DEF kept
  <2>2. Refused(id, n, c)
    BY <1>7, <1>9, <1>10, <1>13, <2>1 DEF Refused
  <2>3. WriteMoves(id, n, c)
    BY <1>5, <1>7, <1>11, <2>2 DEF WriteMoves
  <2> QED
    BY <1>4, <1>6, <2>3
<1> QED
  BY <1>12, <1>13

LEMMA ReadMovesBytes ==
    ASSUME FullInv, NEW t \in Thread, NEW id \in PipeId, NEW n \in Count,
           ReadBuffered(t, id, n)
    PROVE  ReadMoves(id, n)
<1> DEFINE pipe == anonymousPipes[id]
           new  == [pipe EXCEPT !.writesPending = Rest(pipe.writesPending, n)]
<1>1. id \in Live /\ pipe \in Pipe
  BY DEF ReadBuffered, Registered, FullInv, IInv, TypeOK
<1>2. anonymousPipes' = [anonymousPipes EXCEPT ![id] = new]
  BY <1>1 DEF ReadBuffered, FullInv, IInv, TypeOK
<1>3. /\ new.readers = pipe.readers /\ new.writers = pipe.writers
      /\ new.writesPending = Rest(pipe.writesPending, n)
  BY <1>1 DEF Pipe
<1> HIDE DEF new
<1>4. /\ Live' = Live /\ anonymousPipes'[id] = new
      /\ \A d \in Live : d # id => anonymousPipes'[d] = anonymousPipes[d]
  BY <1>1, <1>2 DEF Live, FullInv, IInv, TypeOK
<1>5. OnlyBytes(id)
  BY <1>1, <1>3, <1>4 DEF OnlyBytes
<1>6. /\ LET item == Head(pipe.writesPending)
         IN  received' = [received EXCEPT ![id] = @ \o Prefix(item, Min2(n, Len(item)))]
      /\ written' = written
  BY Zenon DEF ReadBuffered
<1>7. anonymousPipes'[id].writesPending = Rest(pipe.writesPending, n)
  BY <1>3, <1>4
<1> QED
  BY <1>5, <1>6, <1>7, Zenon DEF ReadMoves

\* No other step moves a byte.
LEMMA StepForms ==
    ASSUME FullInv, [Next]_vars
    PROVE  \/ Calm
           \/ \E t \in Thread, id \in PipeId, n \in Count : WriteAccepted(t, id, n)
           \/ \E t \in Thread, id \in PipeId, n \in Count : ReadBuffered(t, id, n)
<1>1. ASSUME UNCHANGED <<anonymousPipes, written, received>>
      PROVE  Calm
  BY <1>1 DEF Calm, Live
<1>2. ASSUME NEW t \in Thread, APipe(t)
      PROVE  Calm
  <2>1. /\ Live' = Live \cup {anonymousPipeId}
        /\ \A d \in Live' : anonymousPipes'[d] = IF d = anonymousPipeId
                               THEN NewPipe(Owner[t]) ELSE anonymousPipes[d]
    BY <1>2 DEF APipe, Live
  <2>2. anonymousPipeId \notin Live
    BY <1>2 DEF APipe, FullInv, Ends, Fresh, IInv, TypeOK
  <2>3. NewPipe(Owner[t]).writesPending = <<>>
    BY DEF NewPipe
  <2>4. UNCHANGED <<written, received>>
    BY <1>2 DEF APipe
  <2> QED
    BY <2>1, <2>2, <2>3, <2>4 DEF Calm
<1>3. ASSUME NEW t \in Thread, NEW id \in PipeId, NEW n \in Count, ReadBlocks(t, id, n)
      PROVE  Calm
  <2> DEFINE new == [anonymousPipes[id] EXCEPT !.readsPending =
                        Append(@, [thread |-> t, count |-> n])]
  <2>1. id \in Live /\ anonymousPipes[id] \in Pipe
    BY <1>3 DEF ReadBlocks, Registered, FullInv, IInv, TypeOK
  <2>2. anonymousPipes' = [anonymousPipes EXCEPT ![id] = new]
    BY <1>3, <2>1 DEF ReadBlocks, FullInv, IInv, TypeOK
  <2>3. new.writesPending = anonymousPipes[id].writesPending
    BY <2>1 DEF Pipe
  <2> HIDE DEF new
  <2>4. Live' = Live /\ \A d \in Live : anonymousPipes'[d] = IF d = id THEN new
                                                     ELSE anonymousPipes[d]
    BY <2>1, <2>2 DEF Live, FullInv, IInv, TypeOK
  <2>5. UNCHANGED <<written, received>>
    BY <1>3 DEF ReadBlocks
  <2> QED
    BY <2>3, <2>4, <2>5 DEF Calm
<1>4. ASSUME NEW new, Live' = DOMAIN new, DOMAIN new \subseteq Live, anonymousPipes' = new,
             \A d \in DOMAIN new :
                \/ new[d].writesPending = anonymousPipes[d].writesPending
                \/ new[d].writesPending = <<>> /\ new[d].readers = {},
             UNCHANGED <<written, received>>
      PROVE  Calm
  BY <1>4, Zenon DEF Calm
<1>5. ASSUME NEW t \in Thread, NEW id \in PipeId, NEW w \in BOOLEAN, Close(t, id, w)
      PROVE  Calm
  <2>1. PICK new : CloseDoes(t, id, w, new)
    BY <1>5, CloseEffect, Zenon
  <2>2. /\ anonymousPipes' = new /\ Live' = DOMAIN new /\ DOMAIN new \subseteq Live
        /\ \A d \in DOMAIN new :
             \/ new[d].writesPending = anonymousPipes[d].writesPending
             \/ new[d].writesPending = <<>> /\ new[d].readers = {}
    BY <2>1, Zenon DEF CloseDoes
  <2>3. UNCHANGED <<written, received>>
    BY <1>5 DEF Close
  <2> QED
    BY <1>4, <2>2, <2>3, Zenon
<1>6. ASSUME NEW p \in Pid, DeleteProcess(p)
      PROVE  Calm
  <2>1. PICK new : DeleteDoes(p, new)
    BY <1>6, DeleteEffect, Zenon
  <2>2. /\ anonymousPipes' = new /\ Live' = DOMAIN new /\ DOMAIN new \subseteq Live
        /\ \A d \in DOMAIN new :
             \/ new[d].writesPending = anonymousPipes[d].writesPending
             \/ new[d].writesPending = <<>> /\ new[d].readers = {}
    BY <2>1, Zenon DEF DeleteDoes
  <2>3. UNCHANGED <<written, received>>
    BY <1>6 DEF DeleteProcess
  <2> QED
    BY <1>4, <2>2, <2>3, Zenon
<1>7. ASSUME NEW c \in Pid, NEW ends \in SUBSET End, NEW T \in SUBSET Thread,
             Join(c, ends, T), \A u \in T : call[u].op = "spawn"
      PROVE  Calm
  <2>1. PICK G : G = T \cup Replaced(c)
    OBVIOUS
  <2>2. PICK new : JoinDoes(c, ends, G, new)
    BY <1>7, <2>1, JoinEffect
  <2>3. /\ anonymousPipes' = new /\ Live' = Live /\ DOMAIN new = Live
        /\ \A d \in Live : new[d].writesPending = anonymousPipes[d].writesPending
    BY <2>2, Zenon DEF JoinDoes
  <2>4. UNCHANGED <<written, received>>
    BY <1>7 DEF Join
  <2> QED
    BY <2>3, <2>4, Zenon DEF Calm
<1>12. ASSUME NEW t \in Thread, AddProcessPipes(t) PROVE Calm
  BY <1>7, <1>12, AddProcessPipesFull
<1>13. ASSUME NEW s \in cutOff, AddCutOff(s) PROVE Calm
  BY <1>7, <1>13, AddCutOffFull
<1>8. ASSUME NEW t \in Thread, NEW c \in Pid, NEW ends \in SUBSET End, SpawnRequest(t, c, ends)
      PROVE  Calm
  BY <1>1, <1>8 DEF SpawnRequest
<1>9. CASE UNCHANGED vars
  BY <1>1, <1>9 DEF vars
<1>10. ASSUME NEW t \in Thread, NEW id \in PipeId, NEW n \in Count, Write(t, id, n)
       PROVE  Calm \/ WriteAccepted(t, id, n)
  BY <1>1, <1>10 DEF Write, WriteRefused
<1>11. ASSUME NEW t \in Thread, NEW id \in PipeId, NEW n \in Count, Read(t, id, n)
       PROVE  Calm \/ ReadBuffered(t, id, n)
  BY <1>1, <1>3, <1>11 DEF Read, ReadNothing
<1> QED
  BY <1>2, <1>5, <1>6, <1>8, <1>9, <1>10, <1>11, <1>12, <1>13, Zenon DEF Next

\* A stream whose pipe does not change does not change.
LEMMA StreamStays ==
    ASSUME NEW id \in PipeId, id \in Live' <=> id \in Live,
           id \in Live => anonymousPipes'[id] = anonymousPipes[id],
           written'[id] = written[id], received'[id] = received[id]
    PROVE  UNCHANGED Stream(id)!stream
<1>1. Buffered(id)' = Buffered(id)
  BY DEF Buffered
<1> QED
  BY <1>1 DEF Stream!stream

LEMMA BufferedType ==
    ASSUME IInv, NEW id \in PipeId
    PROVE  /\ Buffered(id) \in Seq(Byte)
           /\ id \in Live => Buffered(id) = FlattenSeq(anonymousPipes[id].writesPending)
           /\ id \in Live /\ anonymousPipes[id].writesPending = <<>> => Buffered(id) = <<>>
           /\ id \notin Live => Buffered(id) = <<>>
<1>1. CASE id \in Live
  <2>1. anonymousPipes[id].writesPending \in Seq(Seq(Byte))
    BY <1>1 DEF IInv, TypeOK, Pipe
  <2>2. FlattenSeq(anonymousPipes[id].writesPending) \in Seq(Byte)
    BY <2>1, FlattenType
  <2>3. anonymousPipes[id].writesPending = <<>>
          => FlattenSeq(anonymousPipes[id].writesPending) = <<>>
    BY <2>1, FlattenIs
  <2> QED
    BY <1>1, <2>2, <2>3 DEF Buffered
<1>2. CASE id \notin Live
  <2>1. Buffered(id) = <<>>
    BY <1>2 DEF Buffered
  <2> QED
    BY <1>2, <2>1
<1> QED
  BY <1>1, <1>2

LEMMA CalmStream ==
    ASSUME IInv, IInv', Calm, NEW id \in PipeId
    PROVE  Stream(id)!ChangeEnds
<1>1. UNCHANGED <<written, received>>
  BY DEF Calm
<1>2. Buffered(id)' \in Seq(Byte)
      /\ (id \in Live' => Buffered(id)' = FlattenSeq(anonymousPipes'[id].writesPending))
      /\ (id \in Live' /\ anonymousPipes'[id].writesPending = <<>> => Buffered(id)' = <<>>)
      /\ (id \notin Live' => Buffered(id)' = <<>>)
  <2>1. IInv' => /\ (Buffered(id) \in Seq(Byte))'
                 /\ (id \in Live => Buffered(id) = FlattenSeq(anonymousPipes[id].writesPending))'
                 /\ (id \in Live /\ anonymousPipes[id].writesPending = <<>> => Buffered(id) = <<>>)'
                 /\ (id \notin Live => Buffered(id) = <<>>)'
    BY BufferedType, PTL
  <2> QED
    BY <2>1
<1> DEFINE R  == IF id \in Live THEN anonymousPipes[id].readers ELSE {}
           W  == IF id \in Live THEN anonymousPipes[id].writers ELSE {}
<1>3. R' \in SUBSET Pid /\ W' \in SUBSET Pid
  BY DEF IInv, TypeOK, Pipe
<1>4. R' = {} => Buffered(id)' = <<>>
  <2>1. CASE id \notin Live'
    BY <1>2, <2>1
  <2>2. CASE id \in Live'
    <3>1. R' = {} => anonymousPipes'[id].writesPending = <<>>
      BY <2>2 DEF IInv, QueuesSound, Sound
    <3> QED
      BY <1>2, <2>2, <3>1
  <2> QED
    BY <2>1, <2>2
<1>5. R' # {} => Buffered(id)' = Buffered(id)
  <2>1. SUFFICES ASSUME id \in Live', anonymousPipes'[id].readers # {}
                 PROVE  Buffered(id)' = Buffered(id)
    OBVIOUS
  <2>2. CASE id \in Live
    <3>1. anonymousPipes'[id].writesPending = anonymousPipes[id].writesPending
      BY <2>1, <2>2 DEF Calm
    <3> QED
      BY <1>2, <2>1, <2>2, <3>1, BufferedType
  <2>3. CASE id \notin Live
    <3>1. anonymousPipes'[id].writesPending = <<>>
      BY <2>1, <2>3 DEF Calm
    <3> QED
      BY <1>2, <2>1, <2>3, <3>1, BufferedType
  <2> QED
    BY <2>2, <2>3
<1> QED
  BY <1>1, <1>3, <1>4, <1>5 DEF Stream!ChangeEnds

\* Handing c of n new bytes to readers and keeping the rest is adding the bytes
\* at the back and taking c at the front: c is 0 when bytes are buffered.
LEMMA HandOverKept ==
    ASSUME NEW a \in Nat, NEW n \in Nat, NEW c \in 0 .. n, NEW F \in Seq(Byte),
           c # 0 => F = <<>>
    PROVE  LET all == Cat(F, Run(a, n))
           IN  /\ c <= Len(all)
               /\ Prefix(Run(a, n), c) = SubSeq(all, 1, c)
               /\ Cat(F, Suffix(Run(a, n), c)) = SubSeq(all, c + 1, Len(all))
<1>1. PICK u : u = Run(a, n)
  OBVIOUS
<1>2. u \in Seq(Byte) /\ Len(u) = n /\ n = Len(u)
  BY <1>1, RunType
<1>3. CASE c = 0
  <2>1. Prefix(u, c) = <<>> /\ Suffix(u, c) = u
    BY <1>2, <1>3 DEF Prefix, Suffix
  <2>2. Cat(F, u) \in Seq(Byte)
    BY <1>2, CatIs
  <2>3. PICK all : all = Cat(F, u)
    OBVIOUS
  <2>4. all \in Seq(Byte) /\ Len(all) \in Nat
    BY <2>2, <2>3
  <2>5. /\ 0 <= Len(all) /\ SubSeq(all, 1, 0) = <<>>
        /\ SubSeq(all, 0 + 1, Len(all)) = all
    BY <2>4
  <2> QED
    BY ONLY <1>1, <1>3, <2>1, <2>3, <2>5
<1>4. CASE c # 0
  <2>1. F = <<>>
    BY <1>4
  <2>2. Cat(<<>>, u) = u
    BY <1>2, CatIs
  <2>3. Suffix(u, c) \in Seq(Byte)
    BY <1>2, SuffixType
  <2>4. Cat(<<>>, Suffix(u, c)) = Suffix(u, c)
    BY <2>3, CatIs
  <2>5. c <= Len(u)
    BY <1>2
  <2> QED
    BY ONLY <1>1, <2>1, <2>2, <2>4, <2>5 DEF Prefix, Suffix
<1> QED
  BY <1>3, <1>4

\* Handing out c bytes and refusing the rest is accepting c bytes.
LEMMA HandOverRefused ==
    ASSUME NEW a \in Nat, NEW n \in Nat, NEW c \in 0 .. n, NEW F \in Seq(Byte),
           c # 0 => F = <<>>
    PROVE  LET all == Cat(F, Run(a, c))
           IN  /\ c <= Len(all)
               /\ Prefix(Run(a, n), c) = SubSeq(all, 1, c)
               /\ F = SubSeq(all, c + 1, Len(all))
               /\ c < Len(all) => F # <<>>
<1>1. PICK u : u = Run(a, n)
  OBVIOUS
<1>2. PICK v : v = Run(a, c)
  OBVIOUS
<1>3. u \in Seq(Byte) /\ Len(u) = n /\ v \in Seq(Byte) /\ Len(v) = c /\ c \in Nat
  BY <1>1, <1>2, RunType
<1>4. Prefix(u, c) = v
  <2>1. Prefix(u, c) \in Seq(Byte) /\ Len(Prefix(u, c)) = c
    BY <1>3, SuffixType
  <2>2. \A i \in 1 .. c : Prefix(u, c)[i] = v[i]
    BY <1>1, <1>2, <1>3 DEF Prefix, Run
  <2> QED
    BY <1>3, <2>1, <2>2, SeqEqual
<1>5. CASE c = 0
  <2>1. v = <<>>
    BY <1>3, <1>5
  <2>2. Cat(F, <<>>) = F
    BY CatIs
  <2>3. SubSeq(F, 1, 0) = <<>> /\ SubSeq(F, 0 + 1, Len(F)) = F
        /\ 0 <= Len(F) /\ (0 < Len(F) => F # <<>>)
    OBVIOUS
  <2> QED
    BY ONLY <1>1, <1>2, <1>4, <1>5, <2>1, <2>2, <2>3
<1>6. CASE c # 0
  <2>1. F = <<>>
    BY <1>6
  <2>2. Cat(<<>>, v) = v
    BY <1>3, CatIs
  <2>3. SubSeq(v, 1, c) = v /\ SubSeq(v, c + 1, Len(v)) = <<>>
        /\ c <= Len(v) /\ ~(c < Len(v))
    BY <1>3
  <2> QED
    BY ONLY <1>1, <1>2, <1>4, <2>1, <2>2, <2>3
<1> QED
  BY <1>5, <1>6

\* The step of the stream that a write is.
LEMMA WriteStream ==
    ASSUME StreamInv, IInv', NEW t \in Thread, NEW id \in PipeId, NEW n \in Count,
           WriteAccepted(t, id, n)
    PROVE  [Stream(id)!Next]_(Stream(id)!stream)
<1> USE DEF StreamInv
<1>1. PICK c \in 0 .. n : /\ c # 0 => anonymousPipes[id].writesPending = <<>>
                          /\ WriteMoves(id, n, c)
  BY WriteMovesBytes
<1> DEFINE w == anonymousPipes[id].writesPending
<1>2. /\ id \in Live /\ id \in Live' /\ w \in Seq(Seq(Byte)) /\ written[id] \in Nat
      /\ written \in [PipeId -> Nat] /\ received \in [PipeId -> Seq(Byte)]
      /\ (w # <<>> => anonymousPipes[id].readers # {})
  BY <1>1 DEF WriteMoves, OnlyBytes, FullInv, IInv, TypeOK, Pipe, QueuesSound, Sound
<1>3. n \in Nat /\ c \in Nat /\ c <= n /\ n \in 0 .. MaxBytes /\ c \in 0 .. MaxBytes
  BY <1>2 DEF WriteAccepted, Count
<1>4. anonymousPipes[id].writers # {}
  BY DEF WriteAccepted, Registered
<1>5. PICK F : F = Buffered(id)
  OBVIOUS
<1>6. /\ F \in Seq(Byte) /\ F = FlattenSeq(w) /\ (w = <<>> => F = <<>>)
      /\ (c # 0 => F = <<>>)
  BY <1>1, <1>2, <1>5, BufferedType DEF FullInv
<1>7. Buffered(id)' = FlattenSeq(anonymousPipes'[id].writesPending)
  BY <1>2 DEF Buffered
<1>8. received'[id] = received[id] \o Prefix(Run(written[id], n), c)
  BY <1>1, <1>2 DEF WriteMoves
<1>9. anonymousPipes'[id].readers = anonymousPipes[id].readers
      /\ anonymousPipes'[id].writers = anonymousPipes[id].writers
  BY <1>1 DEF WriteMoves, OnlyBytes
<1>10. ASSUME NEW k \in 0 .. MaxBytes, written'[id] = written[id] + k,
              c <= Len(Cat(F, Run(written[id], k))),
              Prefix(Run(written[id], n), c) = SubSeq(Cat(F, Run(written[id], k)), 1, c),
              Buffered(id)' = SubSeq(Cat(F, Run(written[id], k)), c + 1, Len(Cat(F, Run(written[id], k)))),
              c < Len(Cat(F, Run(written[id], k))) => anonymousPipes[id].readers # {}
       PROVE  Stream(id)!Transfer(k, c)
  BY <1>2, <1>4, <1>5, <1>8, <1>9, <1>10, Zenon DEF Stream!Transfer, Run, Cat
<1>11. CASE Buffers(id, n, c)
  <2>1. written'[id] = written[id] + n
    BY <1>2, <1>11 DEF Buffers
  <2>2. anonymousPipes'[id].writesPending = Append(w, Suffix(Run(written[id], n), c))
    BY <1>11 DEF Buffers
  <2>3. Suffix(Run(written[id], n), c) \in Seq(Byte)
    BY <1>2, <1>3, RunType, SuffixType
  <2>4. Buffered(id)' = Cat(F, Suffix(Run(written[id], n), c))
    BY <1>2, <1>6, <1>7, <2>2, <2>3, FlattenAppend
  <2>5. LET all == Cat(F, Run(written[id], n))
        IN  /\ c <= Len(all)
            /\ Prefix(Run(written[id], n), c) = SubSeq(all, 1, c)
            /\ Cat(F, Suffix(Run(written[id], n), c)) = SubSeq(all, c + 1, Len(all))
    <3>1. written[id] \in Nat /\ n \in Nat /\ c \in 0 .. n /\ F \in Seq(Byte)
          /\ (c # 0 => F = <<>>)
      BY <1>2, <1>3, <1>6
    <3>2. PICK a : a = written[id]
      OBVIOUS
    <3> HIDE DEF w
    <3> QED
      BY ONLY <3>1, <3>2, HandOverKept
  <2>6. anonymousPipes[id].readers # {}
    BY <1>11 DEF Buffers
  <2>7. Stream(id)!Transfer(n, c)
    BY <1>3, <1>10, <2>1, <2>4, <2>5, <2>6, Zenon
  <2> QED
    BY <1>3, <2>7, Zenon DEF Stream!Next
<1>12. CASE Refused(id, n, c)
  <2>1. written'[id] = written[id] + c
    BY <1>2, <1>12 DEF Refused
  <2>2. anonymousPipes'[id].writesPending = w
    BY <1>12 DEF Refused
  <2>3. Buffered(id)' = F
    BY <1>6, <1>7, <2>2
  <2>4. LET all == Cat(F, Run(written[id], c))
        IN  /\ c <= Len(all)
            /\ Prefix(Run(written[id], n), c) = SubSeq(all, 1, c)
            /\ F = SubSeq(all, c + 1, Len(all))
            /\ c < Len(all) => F # <<>>
    <3>1. written[id] \in Nat /\ n \in Nat /\ c \in 0 .. n /\ F \in Seq(Byte)
          /\ (c # 0 => F = <<>>)
      BY <1>2, <1>3, <1>6
    <3>2. PICK a : a = written[id]
      OBVIOUS
    <3> HIDE DEF w
    <3> QED
      BY ONLY <3>1, <3>2, HandOverRefused
  <2>5. F # <<>> => anonymousPipes[id].readers # {}
    BY <1>2, <1>6
  <2>6. Stream(id)!Transfer(c, c)
    BY <1>3, <1>10, <2>1, <2>3, <2>4, <2>5, Zenon
  <2> QED
    BY <1>3, <2>6, Zenon DEF Stream!Next
<1> QED
  BY <1>1, <1>11, <1>12 DEF WriteMoves

\* The step of the stream that a read of buffered bytes is.
LEMMA ReadStream ==
    ASSUME StreamInv, IInv', NEW t \in Thread, NEW id \in PipeId, NEW n \in Count,
           ReadBuffered(t, id, n)
    PROVE  [Stream(id)!Next]_(Stream(id)!stream)
<1> USE DEF StreamInv
<1> DEFINE w == anonymousPipes[id].writesPending
           item == Head(w)
           k == Min2(n, Len(item))
<1>1. ReadMoves(id, n)
  BY ReadMovesBytes
<1>2. /\ id \in Live /\ id \in Live' /\ w \in Seq(Seq(Byte)) /\ w # <<>>
      /\ written \in [PipeId -> Nat] /\ received \in [PipeId -> Seq(Byte)]
      /\ n \in Nat
  BY <1>1, SMTT(20) DEF ReadMoves, OnlyBytes, FullInv, IInv, TypeOK, Pipe, ReadBuffered, Count
<1>3. item \in Seq(Byte) /\ Len(item) <= MaxBytes
  <2>1. item = w[1] /\ 1 \in DOMAIN w /\ w[1] \in Seq(Byte)
    BY <1>2
  <2> QED
    BY <1>2, <2>1 DEF SmallWrites
<1>4. k \in 0 .. Len(item) /\ k \in 0 .. MaxBytes
  BY <1>2, <1>3, SMTT(20) DEF Min2
<1>5. anonymousPipes[id].readers # {}
  BY DEF ReadBuffered, Registered
<1>6. PICK F : F = Buffered(id)
  OBVIOUS
<1>7. PICK F2 : F2 = Buffered(id)'
  OBVIOUS
<1>8. F = FlattenSeq(w) /\ F2 = FlattenSeq(Rest(w, n)) /\ F2 \in Seq(Byte) /\ F \in Seq(Byte)
  <2>1. anonymousPipes'[id].writesPending = Rest(w, n)
    BY <1>1 DEF ReadMoves
  <2>2. F2 = FlattenSeq(Rest(w, n))
    BY <1>2, <1>7, <2>1 DEF Buffered
  <2>3. anonymousPipes'[id].writesPending \in Seq(Seq(Byte))
    BY <1>2 DEF IInv, TypeOK, Pipe
  <2>4. F2 \in Seq(Byte)
    BY <2>1, <2>2, <2>3, FlattenType
  <2> QED
    BY <1>2, <1>6, <2>2, <2>4, BufferedType DEF FullInv
<1>9. PICK x : x = Prefix(item, k)
  OBVIOUS
<1>10. x \in Seq(Byte) /\ Len(x) = k
  <2> HIDE DEF item, k
  <2> QED
    BY <1>3, <1>4, <1>9, SuffixType
<1>11. F = Cat(x, F2)
  <2>1. FlattenSeq(w) = Cat(Prefix(item, k), FlattenSeq(Rest(w, n)))
    BY <1>2, FlattenRest
  <2> QED
    BY <1>8, <1>9, <2>1
<1>12. Len(F) = Len(x) + Len(F2) /\ SubSeq(F, 1, Len(x)) = x
       /\ SubSeq(F, Len(x) + 1, Len(F)) = F2
  <2>1. x \in Seq(Byte) /\ F2 \in Seq(Byte)
    BY <1>8, <1>10
  <2> QED
    BY ONLY <1>11, <2>1, CutFront
<1>13. k <= Len(F) /\ x = SubSeq(F, 1, k) /\ F2 = SubSeq(F, k + 1, Len(F))
  <2>1. Len(F2) \in Nat
    BY <1>8
  <2> HIDE DEF k
  <2>2. k \in Nat
    BY <1>4
  <2> QED
    BY <1>10, <1>12, <2>1, <2>2
<1>14. received'[id] = received[id] \o x /\ written'[id] = written[id]
       /\ anonymousPipes'[id].readers = anonymousPipes[id].readers
       /\ anonymousPipes'[id].writers = anonymousPipes[id].writers
  BY <1>1, <1>2, <1>9 DEF ReadMoves, OnlyBytes
<1>15. F \o [i \in 1 .. 0 |-> written[id] + i] = F
  <2>1. [i \in 1 .. 0 |-> written[id] + i] = <<>>
    OBVIOUS
  <2>2. F \o <<>> = F
    BY <1>8
  <2> QED
    BY ONLY <2>1, <2>2
<1>16. written[id] + 0 = written[id] /\ ~(0 > 0) /\ 0 \in 0 .. MaxBytes
  BY <1>2
<1> HIDE DEF item, k
<1>17. Stream(id)!Transfer(0, k)
  BY <1>2, <1>5, <1>6, <1>7, <1>13, <1>14, <1>15, <1>16, Zenon DEF Stream!Transfer
<1> QED
  BY <1>4, <1>16, <1>17, Zenon DEF Stream!Next

LEMMA RestSmall ==
    ASSUME NEW w \in Seq(Seq(Byte)), w # <<>>, NEW n \in Nat,
           \A i \in DOMAIN w : Len(w[i]) <= MaxBytes
    PROVE  \A i \in DOMAIN Rest(w, n) : Len(Rest(w, n)[i]) <= MaxBytes
<1> DEFINE item == Head(w)
           v    == Tail(w)
<1>1. item \in Seq(Byte) /\ v \in Seq(Seq(Byte)) /\ Len(item) <= MaxBytes
      /\ \A i \in DOMAIN v : Len(v[i]) <= MaxBytes
  OBVIOUS
<1> HIDE DEF item, v
<1>2. CASE Len(item) > n
  <2>1. PICK x : x = Suffix(item, n)
    OBVIOUS
  <2>2. Rest(w, n) = <<x>> \o v
    BY <1>2, <2>1 DEF Rest, item, v
  <2>3. n \in 0 .. Len(item)
    BY <1>1, <1>2
  <2>4. x \in Seq(Byte) /\ Len(x) = Len(item) - n
    BY <1>1, <2>1, <2>3, SuffixType
  <2>5. Len(x) <= MaxBytes
    BY <1>1, <2>3, <2>4
  <2>6. \A i \in DOMAIN (<<x>> \o v) : Len((<<x>> \o v)[i]) <= MaxBytes
    <3>1. \A i \in DOMAIN (<<x>> \o v) : (<<x>> \o v)[i] = x \/ \E j \in DOMAIN v : (<<x>> \o v)[i] = v[j]
      BY <1>1, <2>4
    <3> QED
      BY <1>1, <2>5, <3>1, Zenon
  <2> QED
    BY <2>2, <2>6
<1>3. CASE ~(Len(item) > n)
  <2>1. Rest(w, n) = v
    BY <1>3 DEF Rest, item, v
  <2> QED
    BY <1>1, <2>1
<1> QED
  BY <1>2, <1>3

LEMMA SmallStep ==
    ASSUME StreamInv, IInv', [Next]_vars
    PROVE  SmallWrites'
<1> USE DEF StreamInv
<1>1. CASE Calm
  <2>1. \A d \in Live' : /\ anonymousPipes'[d].writesPending # <<>>
                            => d \in Live /\ anonymousPipes'[d].writesPending
                                               = anonymousPipes[d].writesPending
    BY <1>1 DEF Calm
  <2>2. ASSUME NEW d \in Live', NEW i \in DOMAIN anonymousPipes'[d].writesPending
        PROVE  Len(anonymousPipes'[d].writesPending[i]) <= MaxBytes
    <3>1. anonymousPipes'[d].writesPending # <<>>
      BY <2>2
    <3> QED
      BY <2>1, <2>2, <3>1 DEF SmallWrites
  <2> QED
    BY <2>2 DEF SmallWrites
<1>2. ASSUME NEW t \in Thread, NEW id \in PipeId, NEW n \in Count, WriteAccepted(t, id, n)
      PROVE  SmallWrites'
  <2>1. PICK c \in 0 .. n : WriteMoves(id, n, c)
    BY <1>2, WriteMovesBytes
  <2> DEFINE w == anonymousPipes[id].writesPending
             x == Suffix(Run(written[id], n), c)
  <2>2. OnlyBytes(id) /\ w \in Seq(Seq(Byte)) /\ written[id] \in Nat
        /\ \A i \in DOMAIN w : Len(w[i]) <= MaxBytes
    BY <2>1 DEF WriteMoves, OnlyBytes, FullInv, IInv, TypeOK, Pipe, SmallWrites
  <2>3. n \in Nat /\ n <= MaxBytes
    BY <1>2, <2>2 DEF WriteAccepted, Count
  <2>4. x \in Seq(Byte) /\ Len(x) <= MaxBytes
    <3>1. Run(written[id], n) \in Seq(Byte) /\ Len(Run(written[id], n)) = n
      BY <2>2, <2>3, RunType
    <3>2. x \in Seq(Byte) /\ Len(x) = n - c
      BY <3>1, SuffixType
    <3> QED
      BY <2>3, <3>2
  <2>5. \/ anonymousPipes'[id].writesPending = w
        \/ anonymousPipes'[id].writesPending = Append(w, x)
    BY <2>1 DEF WriteMoves, Buffers, Refused
  <2> HIDE DEF w, x
  <2>6. \A i \in DOMAIN Append(w, x) : Len(Append(w, x)[i]) <= MaxBytes
    <3>1. \A i \in DOMAIN Append(w, x) : Append(w, x)[i] = x \/ (i \in DOMAIN w /\ Append(w, x)[i] = w[i])
      BY <2>2, <2>4
    <3> QED
      BY <2>2, <2>4, <3>1, Zenon
  <2>7. \A i \in DOMAIN anonymousPipes'[id].writesPending :
           Len(anonymousPipes'[id].writesPending[i]) <= MaxBytes
    BY <2>2, <2>5, <2>6, Zenon
  <2> QED
    BY <2>2, <2>7 DEF OnlyBytes, SmallWrites
<1>3. ASSUME NEW t \in Thread, NEW id \in PipeId, NEW n \in Count, ReadBuffered(t, id, n)
      PROVE  SmallWrites'
  <2>1. ReadMoves(id, n)
    BY <1>3, ReadMovesBytes
  <2> DEFINE w == anonymousPipes[id].writesPending
  <2>2. OnlyBytes(id) /\ w \in Seq(Seq(Byte)) /\ w # <<>> /\ n \in Nat
        /\ \A i \in DOMAIN w : Len(w[i]) <= MaxBytes
    BY <1>3, <2>1 DEF ReadMoves, OnlyBytes, FullInv, IInv, TypeOK, Pipe, SmallWrites,
                      ReadBuffered, Count
  <2>3. anonymousPipes'[id].writesPending = Rest(w, n)
    BY <2>1 DEF ReadMoves
  <2> HIDE DEF w
  <2>4. \A i \in DOMAIN anonymousPipes'[id].writesPending :
           Len(anonymousPipes'[id].writesPending[i]) <= MaxBytes
    BY <2>2, <2>3, RestSmall
  <2> QED
    BY <2>2, <2>4 DEF OnlyBytes, SmallWrites
<1> QED
  BY <1>1, <1>2, <1>3, StepForms

LEMMA StreamInit == Init => StreamInv /\ \A id \in PipeId : Stream(id)!Init
<1> SUFFICES ASSUME Init PROVE StreamInv /\ \A id \in PipeId : Stream(id)!Init
  OBVIOUS
<1>1. Live = {}
  BY DEF Init, Live
<1>2. FullInv
  BY FullInit
<1>3. SmallWrites
  BY <1>1 DEF SmallWrites
<1>4. ASSUME NEW id \in PipeId PROVE Stream(id)!Init
  BY <1>1 DEF Init, Stream!Init, Buffered
<1> QED
  BY <1>2, <1>3, <1>4 DEF StreamInv

LEMMA StreamStep ==
    ASSUME StreamInv, [Next]_vars
    PROVE  StreamInv' /\ \A id \in PipeId : [Stream(id)!Next]_(Stream(id)!stream)
<1>1. FullInv' /\ IInv'
  BY FullNext DEF StreamInv, FullInv
<1>2. SmallWrites'
  BY <1>1, SmallStep
<1>3. CASE Calm
  <2>1. ASSUME NEW id \in PipeId PROVE [Stream(id)!Next]_(Stream(id)!stream)
    <3>1. Stream(id)!ChangeEnds
      BY <1>1, <1>3, CalmStream DEF StreamInv, FullInv
    <3> QED
      BY <3>1 DEF Stream!Next
  <2> QED
    BY <1>1, <1>2, <2>1 DEF StreamInv
\* One pipe moves, the others stay.
<1>4. ASSUME NEW id \in PipeId, OnlyBytes(id),
             \E b : written' = [written EXCEPT ![id] = b],
             \E b : received' = [received EXCEPT ![id] = b],
             [Stream(id)!Next]_(Stream(id)!stream), NEW d \in PipeId
      PROVE  [Stream(d)!Next]_(Stream(d)!stream)
  <2>1. CASE d = id
    BY <1>4, <2>1
  <2>2. CASE d # id
    <3>1. /\ d \in Live' <=> d \in Live
          /\ d \in Live => anonymousPipes'[d] = anonymousPipes[d]
          /\ written'[d] = written[d] /\ received'[d] = received[d]
      BY <1>4, <2>2 DEF OnlyBytes, StreamInv, FullInv, IInv, TypeOK
    <3>2. UNCHANGED Stream(d)!stream
      BY <3>1, StreamStays
    <3> QED
      BY <3>2
  <2> QED
    BY <2>1, <2>2
<1>5. ASSUME NEW t \in Thread, NEW id \in PipeId, NEW n \in Count, WriteAccepted(t, id, n),
             NEW d \in PipeId
      PROVE  [Stream(d)!Next]_(Stream(d)!stream)
  <2>1. PICK c \in 0 .. n : WriteMoves(id, n, c)
    BY <1>5, WriteMovesBytes DEF StreamInv
  <2>2. OnlyBytes(id) /\ (\E b : written' = [written EXCEPT ![id] = b])
        /\ \E b : received' = [received EXCEPT ![id] = b]
    BY <2>1 DEF WriteMoves, Buffers, Refused
  <2>3. [Stream(id)!Next]_(Stream(id)!stream)
    BY <1>1, <1>5, WriteStream
  <2> QED
    BY <1>4, <2>2, <2>3
<1>6. ASSUME NEW t \in Thread, NEW id \in PipeId, NEW n \in Count, ReadBuffered(t, id, n),
             NEW d \in PipeId
      PROVE  [Stream(d)!Next]_(Stream(d)!stream)
  <2>1. ReadMoves(id, n)
    BY <1>6, ReadMovesBytes DEF StreamInv
  <2>2. OnlyBytes(id) /\ (\E b : written' = [written EXCEPT ![id] = b])
        /\ \E b : received' = [received EXCEPT ![id] = b]
    <3>1. written' = [written EXCEPT ![id] = written[id]]
      BY <2>1 DEF ReadMoves, StreamInv, FullInv, IInv, TypeOK
    <3> QED
      BY <2>1, <3>1 DEF ReadMoves
  <2>3. [Stream(id)!Next]_(Stream(id)!stream)
    BY <1>1, <1>6, ReadStream
  <2> QED
    BY <1>4, <2>2, <2>3
<1> QED
  BY <1>1, <1>2, <1>3, <1>5, <1>6, StepForms DEF StreamInv

\* Every pipe of the server, whatever queues it keeps, is a byte stream: bytes
\* come out once each in the order of the writes, and are dropped only with the
\* last read end (handleMessageAPipeWrite, handleMessageAPipeRead, closeAPipe).
THEOREM PipesImplementStreams == Spec => PipesAreStreams
<1>1. Init => \A id \in PipeId : Stream(id)!Init
  BY StreamInit
<1>2. Spec => []StreamInv
  <2>1. StreamInv /\ [Next]_vars => StreamInv'
    BY StreamStep
  <2> QED
    BY <2>1, StreamInit, PTL DEF Spec
<1>3. StreamInv /\ [Next]_vars => \A id \in PipeId : [Stream(id)!Next]_(Stream(id)!stream)
  BY StreamStep
<1>4. Spec => [][\A id \in PipeId : [Stream(id)!Next]_(Stream(id)!stream)]_vars
  BY <1>2, <1>3, PTL DEF Spec
<1>5. Spec => \A id \in PipeId : Stream(id)!Init
  BY <1>1, PTL DEF Spec
<1> QED
  BY <1>4, <1>5 DEF PipesAreStreams

=============================================================================
