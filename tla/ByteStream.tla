------------------------------ MODULE ByteStream ------------------------------
(***************************************************************************)
(* What a pipe promises, whoever serves it: the bytes the writers put in   *)
(* come out once each and in order, split among the readers in the order   *)
(* they ask, and nothing is lost while a reader exists.  Bytes are numbered*)
(* as they are accepted.                                                   *)
(***************************************************************************)
EXTENDS Naturals, Sequences

CONSTANTS Pid,       \* process ids
          MaxBytes   \* bound: bytes accepted by the pipe

VARIABLES accepted,  \* number of bytes accepted
          buffer,    \* bytes accepted and not yet received
          received,  \* bytes received, in the order of the replies
          readers,   \* processes that have the read end
          writers    \* processes that have the write end

stream == <<accepted, buffer, received, readers, writers>>

Init ==
    /\ accepted = 0
    /\ buffer = <<>> /\ received = <<>>
    /\ readers = {}  /\ writers = {}

\* Writers put n bytes in at the back, readers take k bytes at the front.  What
\* stays in the buffer must have a reader left to take it.
Transfer(n, k) ==
    LET all == buffer \o [i \in 1 .. n |-> accepted + i]
    IN  /\ n > 0 => writers # {}
        /\ k <= Len(all)
        /\ accepted' = accepted + n
        /\ received' = received \o SubSeq(all, 1, k)
        /\ buffer' = SubSeq(all, k + 1, Len(all))
        /\ k < Len(all) => readers # {}
        /\ UNCHANGED <<readers, writers>>

\* Processes open and close ends.  Closing the last read end drops the buffer.
ChangeEnds ==
    /\ readers' \in SUBSET Pid /\ writers' \in SUBSET Pid
    /\ buffer' = IF readers' = {} THEN <<>> ELSE buffer
    /\ UNCHANGED <<accepted, received>>

Next == (\E n, k \in 0 .. MaxBytes : Transfer(n, k)) \/ ChangeEnds

Spec == Init /\ [][Next]_stream
===============================================================================
