-------------------------- MODULE QueueWorker --------------------------
(***************************************************************************)
(* workers/queue/handler.ts: Fargate tasks poll an SQS queue.  A task      *)
(* reads a few messages, runs their jobs concurrently and reads again when *)
(* all of them have ended or five minutes have passed; jobs that are       *)
(* still running then run on unobserved.  A job that ends without errors   *)
(* deletes its message.                                                    *)
(*                                                                         *)
(* SQS itself is external: a message that was read is hidden for the       *)
(* visibility timeout and then readable again, whether or not its job is   *)
(* still running, and moves to the dead letter queue after MaxReceives     *)
(* reads.  What a job does is left to the modules that extend this one.    *)
(***************************************************************************)
EXTENDS Naturals, FiniteSets

CONSTANTS
    Queue, Worker, Message,
    QueueOf,      \* QueueOf[m]: the queue a message is sent to
    Polls,        \* Polls[w]: the queue whose url a worker task loaded
    MaxMessages,  \* MaxNumberOfMessages of one read, 10
    MaxReceives   \* MaxReceives[q]: maxReceiveCount of the redrive policy, 10

ASSUME QueueAssumption ==
    /\ QueueOf \in [Message -> Queue]
    /\ Polls \in [Worker -> Queue]
    /\ MaxMessages \in Nat \ {0}
    /\ MaxReceives \in [Queue -> Nat \ {0}]

VARIABLES
    status,    \* where each message is
    receives,  \* ApproximateReceiveCount
    batch,     \* jobs the worker's Promise.race waits for
    late,      \* jobs the race gave up on, still running
    handled    \* messages a job of which ended without errors

queueVars == <<status, receives, batch, late, handled>>

\* The n-th read of m; n stands for the receipt handle of that read.
Limit(m) == MaxReceives[QueueOf[m]]
Delivery == UNION {{m} \X (1..Limit(m)) : m \in Message}

Jobs(w) == batch[w] \cup late[w]

Init ==
    /\ status = [m \in Message |-> "unsent"]
    /\ receives = [m \in Message |-> 0]
    /\ batch = [w \in Worker |-> {}]
    /\ late = [w \in Worker |-> {}]
    /\ handled = {}

\* SendMessageCommand, or S3 announcing a new object.
Send(m) ==
    /\ status[m] = "unsent"
    /\ status' = [status EXCEPT ![m] = "visible"]
    /\ UNCHANGED <<receives, batch, late, handled>>

ReceiveUnlimited(w, S) ==
    /\ batch[w] = {}
    /\ S # {} /\ Cardinality(S) <= MaxMessages
    /\ \A m \in S : QueueOf[m] = Polls[w] /\ status[m] = "visible"
    /\ status' = [m \in Message |-> IF m \in S THEN "hidden" ELSE status[m]]
    /\ receives' = [m \in Message |-> IF m \in S THEN receives[m] + 1 ELSE receives[m]]
    /\ batch' = [batch EXCEPT ![w] = {<<m, receives[m] + 1>> : m \in S}]
    /\ UNCHANGED <<late, handled>>

\* readDataFromQueue up to the race: S is what ReceiveMessageCommand returns.
Receive(w, S) ==
    /\ batch[w] = {}
    /\ S # {} /\ Cardinality(S) <= MaxMessages
    /\ \A m \in S : QueueOf[m] = Polls[w] /\ status[m] = "visible"
                    /\ receives[m] < Limit(m)
    /\ status' = [m \in Message |-> IF m \in S THEN "hidden" ELSE status[m]]
    /\ receives' = [m \in Message |-> IF m \in S THEN receives[m] + 1 ELSE receives[m]]
    /\ batch' = [batch EXCEPT ![w] = {<<m, receives[m] + 1>> : m \in S}]
    /\ UNCHANGED <<late, handled>>

\* A job's promise settles.
Leave(w, d) ==
    /\ d \in Jobs(w)
    /\ batch' = [batch EXCEPT ![w] = @ \ {d}]
    /\ late' = [late EXCEPT ![w] = @ \ {d}]

\* processQueueMessage without errors, then deleteMessage.  The deletion may
\* have no effect: its error is only logged, and SQS may ignore a stale receipt.
Succeed(w, d) ==
    /\ Leave(w, d)
    /\ handled' = handled \cup {d[1]}
    /\ \/ status[d[1]] \in {"visible", "hidden"}
          /\ status' = [status EXCEPT ![d[1]] = "deleted"]
       \/ UNCHANGED status
    /\ UNCHANGED receives

FailDeleting(w, d) ==
    /\ Leave(w, d)
    /\ status' = [status EXCEPT ![d[1]] = IF @ \in {"visible", "hidden"} THEN "deleted" ELSE @]
    /\ UNCHANGED <<receives, handled>>

\* An error in the results, or a throw (also of JSON.parse) caught by
\* catchError: the message is left for its visibility timeout.
Fail(w, d) ==
    /\ Leave(w, d)
    /\ UNCHANGED <<status, receives, handled>>

\* The five minute timer wins the race.
JobTimeoutNever(w) ==
    /\ batch[w] # {}
    /\ UNCHANGED queueVars

JobTimeout(w) ==
    /\ batch[w] # {}
    /\ late' = [late EXCEPT ![w] = @ \cup batch[w]]
    /\ batch' = [batch EXCEPT ![w] = {}]
    /\ UNCHANGED <<status, receives, handled>>

VisibilityExpires(m) ==
    /\ status[m] = "hidden"
    /\ status' = [status EXCEPT ![m] = "visible"]
    /\ UNCHANGED <<receives, batch, late, handled>>

Redrive(m) ==
    /\ status[m] = "visible" /\ receives[m] = Limit(m)
    /\ status' = [status EXCEPT ![m] = "dead"]
    /\ UNCHANGED <<receives, batch, late, handled>>

\* The task is reclaimed (Fargate spot), runs out of memory or dies of an
\* unhandled rejection.  ECS starts another one in its place.
Crash(w) ==
    /\ Jobs(w) # {}
    /\ batch' = [batch EXCEPT ![w] = {}]
    /\ late' = [late EXCEPT ![w] = {}]
    /\ UNCHANGED <<status, receives, handled>>

Next ==
    \/ \E m \in Message : Send(m) \/ VisibilityExpires(m) \/ Redrive(m)
    \/ \E w \in Worker :
        \/ \E S \in SUBSET Message : Receive(w, S)
        \/ \E d \in Delivery : Succeed(w, d) \/ Fail(w, d)
        \/ JobTimeout(w)
        \/ Crash(w)

Spec == Init /\ [][Next]_queueVars
-----------------------------------------------------------------------------
TypeOK ==
    /\ status \in [Message -> {"unsent", "visible", "hidden", "deleted", "dead"}]
    /\ receives \in [Message -> Nat]
    /\ \A m \in Message : receives[m] <= Limit(m)
    /\ batch \in [Worker -> SUBSET Delivery]
    /\ late \in [Worker -> SUBSET Delivery]
    /\ handled \subseteq Message

\* A message leaves its queue for good only after one of its jobs ended without
\* errors or in the dead letter queue: no crash, late job or repeated delivery
\* makes it vanish.
NothingVanishes ==
    \A m \in Message : status[m] = "deleted" => m \in handled

\* Hung jobs and crashes never block a queue: a message that can be read is in
\* the end deleted or dead-lettered, even if no job ever settles.
EveryMessageSettles ==
    \A m \in Message : status[m] = "visible" ~> status[m] \in {"deleted", "dead"}
=============================================================================
