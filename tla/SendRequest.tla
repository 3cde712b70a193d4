----------------------------- MODULE SendRequest -----------------------------
(***************************************************************************)
(* How a thread of a process calls the process manager                     *)
(* (ports/nacl-spawn/nacl_pp_helpers.c): nspawn_send_request numbers the   *)
(* request, registers a handler for the number, posts the message and      *)
(* waits on a condition variable on its own stack until handle_reply,      *)
(* which runs on the message thread of the module, signals it.             *)
(*                                                                         *)
(* The process runs under naclprocess.js (NACL_PROCESS is set).  The page  *)
(* answers requests in any order and may never answer one.                 *)
(*                                                                         *)
(* The channel is one part of the process client: its state and steps have *)
(* names of their own, so that one module can extend it and SpawnClient.   *)
(***************************************************************************)
EXTENDS Naturals, Sequences

CONSTANTS Thread,          \* the threads of the process
          NoThread,        \* the message thread is not in handle_reply
          NoReply,         \* the content of result_var before the reply
          MaxRequests      \* bound: requests sent in a behaviour

ASSUME SendRequestAssumption ==
    /\ NoThread \notin Thread
    /\ MaxRequests \in Nat

VARIABLES req_id,      \* the static counter of get_request_id
          pc,          \* thread -> where it is in nspawn_send_request
          id,          \* thread -> the number of its request
          result_var,  \* thread -> the reply in its NaClSpawnReply
          handlers,    \* request number -> thread whose reply is registered
          pending,     \* requests the page has not answered
          inbox,       \* replies posted by the page and not dispatched
          running,     \* thread whose NaClSpawnReply handle_reply works on
          message      \* the reply handle_reply was called with

channel == <<req_id, pc, id, result_var, handlers, pending, inbox, running, message>>

\* The reply to a request is identified with the request.
Request == [id : Nat, from : Thread]

Sent(t) == [id |-> id[t], from |-> t]

-----------------------------------------------------------------------------
(* The calling thread *)

\* Mutant: every request gets the same number.
SameId == 1
\* get_request_id, under its mutex.
NextId == req_id + 1

\* Number the request, initialise the reply on the stack, register the handler.
Register(t) ==
    /\ pc[t] = "idle"
    /\ req_id < MaxRequests
    /\ req_id' = req_id + 1
    /\ id' = [id EXCEPT ![t] = NextId]
    /\ result_var' = [result_var EXCEPT ![t] = NoReply]
    /\ handlers' = [n \in DOMAIN handlers \cup {NextId} |->
                       IF n = NextId THEN t ELSE handlers[n]]
    /\ pc' = [pc EXCEPT ![t] = "registered"]
    /\ UNCHANGED <<pending, inbox, running, message>>

\* Post the message.  The page may answer at once.
Post(t) ==
    /\ pc[t] = "registered"
    /\ pending' = pending \cup {Sent(t)}
    /\ pc' = [pc EXCEPT ![t] = "posted"]
    /\ UNCHANGED <<req_id, id, result_var, handlers, inbox, running, message>>

\* Mutant: the handler is taken out as soon as the thread waits.
WaitUnregistered(t) ==
    /\ pc[t] = "posted"
    /\ pc' = [pc EXCEPT ![t] = "waiting"]
    /\ handlers' = [n \in DOMAIN handlers \ {id[t]} |-> handlers[n]]
    /\ UNCHANGED <<req_id, id, result_var, pending, inbox, running, message>>

\* Lock reply.mu and wait on reply.cond, which unlocks it again.  Whether the
\* reply has arrived already is not looked at.
Wait(t) ==
    /\ pc[t] = "posted"
    /\ pc' = [pc EXCEPT ![t] = "waiting"]
    /\ UNCHANGED <<req_id, id, result_var, handlers, pending, inbox, running, message>>

\* pthread_cond_wait returns: the reply on the stack is destroyed, the handler
\* unregistered, and the caller gets result_var.
Return(t) ==
    /\ pc[t] = "signalled"
    /\ handlers' = [n \in DOMAIN handlers \ {id[t]} |-> handlers[n]]
    /\ pc' = [pc EXCEPT ![t] = "idle"]
    /\ UNCHANGED <<req_id, id, result_var, pending, inbox, running, message>>

-----------------------------------------------------------------------------
(* The page and the message thread *)

\* The page answers a request.
Answer(r) ==
    /\ r \in pending
    /\ pending' = pending \ {r}
    /\ inbox' = Append(inbox, r)
    /\ UNCHANGED <<req_id, pc, id, result_var, handlers, running, message>>

\* The message thread looks the handler of the next reply up.
Dispatch ==
    /\ running = NoThread
    /\ inbox # <<>>
    /\ inbox' = Tail(inbox)
    /\ IF Head(inbox).id \in DOMAIN handlers
       THEN running' = handlers[Head(inbox).id] /\ message' = Head(inbox)
       ELSE UNCHANGED <<running, message>>
    /\ UNCHANGED <<req_id, pc, id, result_var, handlers, pending>>

\* Mutant: the waiting thread is signalled before the reply is stored.
HandleReplySignalsOnly ==
    /\ running # NoThread
    /\ pc' = [pc EXCEPT ![running] = IF @ = "waiting" THEN "signalled" ELSE @]
    /\ running' = NoThread
    /\ UNCHANGED <<req_id, id, result_var, handlers, pending, inbox, message>>

\* handle_reply: store the reply and signal the condition, under reply.mu.  The
\* signal wakes nobody unless the thread is in pthread_cond_wait.
HandleReply ==
    /\ running # NoThread
    /\ result_var' = [result_var EXCEPT ![running] = message]
    /\ pc' = [pc EXCEPT ![running] = IF @ = "waiting" THEN "signalled" ELSE @]
    /\ running' = NoThread
    /\ UNCHANGED <<req_id, id, handlers, pending, inbox, message>>

-----------------------------------------------------------------------------
ChannelInit ==
    /\ req_id = 0
    /\ pc = [t \in Thread |-> "idle"]
    /\ id = [t \in Thread |-> 0]
    /\ result_var = [t \in Thread |-> NoReply]
    /\ handlers = << >>
    /\ pending = {}
    /\ inbox = <<>>
    /\ running = NoThread
    /\ message = NoReply

Send(t) == Register(t) \/ Post(t) \/ Wait(t) \/ Return(t)

ChannelNext ==
    \/ \E t \in Thread : Send(t)
    \/ \E r \in pending : Answer(r)
    \/ Dispatch
    \/ HandleReply

ChannelSpec == ChannelInit /\ [][ChannelNext]_channel

\* A thread that can go on goes on, and the message thread serves its queue.
\* The page may leave a request unanswered for ever.
Fairness ==
    /\ \A t \in Thread : WF_channel(Post(t) \/ Wait(t) \/ Return(t))
    /\ WF_channel(Dispatch \/ HandleReply)

FairSpec == ChannelSpec /\ Fairness

-----------------------------------------------------------------------------
(* Properties *)

\* The types of the variables (nacl_pp_helpers.c:143-157, :206-213).
ChannelTypeOK ==
    /\ req_id \in 0 .. MaxRequests
    /\ pc \in [Thread -> {"idle", "registered", "posted", "waiting", "signalled"}]
    /\ id \in [Thread -> Nat]
    /\ result_var \in [Thread -> Request \cup {NoReply}]
    /\ DOMAIN handlers \subseteq 1 .. req_id
    /\ handlers \in [DOMAIN handlers -> Thread]
    /\ pending \subseteq Request
    /\ inbox \in Seq(Request)
    /\ running \in Thread \cup {NoThread}
    /\ message \in Request \cup {NoReply}

\* A thread that is woken finds the reply to its own request, whatever other
\* threads of the process send and in whatever order the page answers.
OwnReply == \A t \in Thread : pc[t] = "signalled" => result_var[t] = Sent(t)

\* handle_reply only touches a NaClSpawnReply that is alive and still belongs to
\* the request: it is on the stack of a thread that waits for this reply.
ReplyAlive ==
    running # NoThread => pc[running] # "idle" /\ message = Sent(running)

\* A thread that sleeps before its reply arrives is woken by it.  One that comes
\* later is not: nspawn_send_request does not look whether the reply is there
\* before pthread_cond_wait (nacl_pp_helpers.c:223), and sleeps for ever.
SleeperIsWoken ==
    \A t \in Thread :
        (pc[t] = "waiting" /\ \E i \in DOMAIN inbox : inbox[i] = Sent(t))
          ~> pc[t] = "idle"

=============================================================================
