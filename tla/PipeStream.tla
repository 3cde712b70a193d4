------------------------------ MODULE PipeStream ------------------------------
(***************************************************************************)
(* Every pipe of the server, with its queue of partly read writes and its  *)
(* queue of waiting reads, implements the byte stream of module ByteStream.*)
(***************************************************************************)
EXTENDS PipeServer, SequencesExt

Buffered(id) == IF id \in Live THEN FlattenSeq(anonymousPipes[id].writesPending)
                               ELSE <<>>

Stream(id) == INSTANCE ByteStream WITH
    accepted <- written[id],
    buffer   <- Buffered(id),
    received <- received[id],
    readers  <- IF id \in Live THEN anonymousPipes[id].readers ELSE {},
    writers  <- IF id \in Live THEN anonymousPipes[id].writers ELSE {}

\* Whatever processes read, write, close, spawn and die, a pipe is a byte
\* stream: first in first out, nothing duplicated, nothing lost while it has a
\* reader (handleMessageAPipeWrite, handleMessageAPipeRead, closeAPipe).
\* This is \A id \in PipeId : Stream(id)!Spec in a form TLC evaluates.
PipesAreStreams ==
    /\ \A id \in PipeId : Stream(id)!Init
    /\ [][\A id \in PipeId : [Stream(id)!Next]_(Stream(id)!stream)]_vars
===============================================================================
