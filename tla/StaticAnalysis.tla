------------------------ MODULE StaticAnalysis ------------------------
(***************************************************************************)
(* Is vulnerable code called at all?  A scan loads the dependency tree of  *)
(* its build and, without waiting, queues each edge to a vulnerable        *)
(* package that has no result yet.  Go tasks (ingest-worker) analyse the   *)
(* parent's code, one message at a time, and save what they find.  The     *)
(* scan is the scan job of BuildPipeline, which goes on meanwhile; the     *)
(* queue is QueueWorker's, read by a subscriber that prefetches messages,  *)
(* waits without a timer, and returns a failed message at once.            *)
(***************************************************************************)
EXTENDS QueueWorker

CONSTANTS
    Build, Scan,
    BuildOf,     \* BuildOf[s]: the build scan s is for; a build is scanned repeatedly
    Edge,
    Vulnerable,  \* Vulnerable[b]: edges of b's tree to a vulnerable package
    Stored,      \* edges with a row: the tree query also yields one to each root
    Finding      \* Finding[e]: what semgrep finds in the code of e's parent

EdgeMessage == UNION {{s} \X Vulnerable[BuildOf[s]] : s \in Scan}

ASSUME StaticAssumption ==
    /\ BuildOf \in [Scan -> Build]
    /\ Vulnerable \in [Build -> SUBSET Edge]
    /\ Stored \subseteq Edge
    /\ Finding \in [Edge -> {"unknown", "not_vulnerable"}]
    /\ Message = EdgeMessage

EdgeOf(m) == m[2]

VARIABLES
    trees,     \* builds whose resolved_manifests are committed
    started,   \* scans that have begun
    loaded,    \* those that found the tree
    looking,   \* messages whose cached result is being asked for
    sending,   \* messages handed to the SQS client
    lost,      \* messages that were given up before they were sent
    handling,  \* handling[w]: the delivery w's loop is at
    acking,    \* acking[w]: deliveries to be deleted in the background
    panicked,  \* messages whose handler panicked
    result     \* result[e]: finding_type of e's row, for the vulnerability of e

scanVars == <<trees, started, loaded>>
callVars == <<looking, sending, lost>>
loopVars == <<handling, acking>>
vars == <<queueVars, scanVars, callVars, loopVars, panicked, result>>

Good == {"unknown", "not_vulnerable"}

StaticInit ==
    /\ Init
    /\ trees = {} /\ started = {} /\ loaded = {}
    /\ looking = {} /\ sending = {} /\ lost = {}
    /\ handling = [w \in Worker |-> {}]
    /\ acking = [w \in Worker |-> {}]
    /\ panicked = {}
    /\ result = [e \in Edge |-> "none"]
-----------------------------------------------------------------------------
(* The backend: the snapshot job, the scan, and the calls it leaves behind *)

\* The snapshot job commits the manifests, before or after the scan begins.
InsertManifests(b) ==
    /\ b \notin trees
    /\ trees' = trees \cup {b}
    /\ UNCHANGED <<queueVars, started, loaded, callVars, loopVars, panicked, result>>

\* staticallyAnalyzeDependencyTree.  An error, that there is no tree yet being one
\* of them, is only logged: the scan goes on.
AnalyzeTree(s) ==
    /\ s \notin started
    /\ started' = started \cup {s}
    /\ \/ /\ BuildOf[s] \in trees
          /\ loaded' = loaded \cup {s}
          /\ looking' = looking \cup {m \in Message : m[1] = s}
       \/ UNCHANGED <<loaded, looking>>
    /\ UNCHANGED <<queueVars, trees, sending, lost, loopVars, panicked, result>>

\* An edge that another scan is about to queue is left to it.
LookupShared(m) ==
    /\ m \in looking
    /\ looking' = looking \ {m}
    /\ sending' = IF \E o \in sending : EdgeOf(o) = EdgeOf(m) THEN sending ELSE sending \cup {m}
    /\ UNCHANGED <<queueVars, scanVars, lost, loopVars, panicked, result>>

\* The query leaves out results that are errors.
Lookup(m) ==
    /\ m \in looking
    /\ looking' = looking \ {m}
    /\ sending' = IF result[EdgeOf(m)] \in Good THEN sending ELSE sending \cup {m}
    /\ UNCHANGED <<queueVars, scanVars, lost, loopVars, panicked, result>>

SendEdge(m) ==
    /\ m \in sending
    /\ sending' = sending \ {m}
    /\ Send(m)
    /\ UNCHANGED <<scanVars, looking, lost, loopVars, panicked, result>>

\* Nobody waits for the call: it fails, or the process ends, and the edge is not
\* queued.
Lose(m) ==
    /\ m \in looking \cup sending
    /\ looking' = looking \ {m}
    /\ sending' = sending \ {m}
    /\ lost' = lost \cup {m}
    /\ UNCHANGED <<queueVars, scanVars, loopVars, panicked, result>>
-----------------------------------------------------------------------------
(* The Go task: Subscriber.Run                                             *)

\* gocloud's subscription reads ahead while a message is handled (external).
Prefetch(w, S) ==
    /\ S # {} /\ Cardinality(S) + Cardinality(batch[w]) <= MaxMessages
    /\ \A m \in S : QueueOf[m] = Polls[w] /\ status[m] = "visible"
                    /\ receives[m] < Limit(m)
    /\ status' = [m \in Message |-> IF m \in S THEN "hidden" ELSE status[m]]
    /\ receives' = [m \in Message |-> IF m \in S THEN receives[m] + 1 ELSE receives[m]]
    /\ batch' = [batch EXCEPT ![w] = @ \cup {<<m, receives[m] + 1>> : m \in S}]
    /\ UNCHANGED <<late, handled, scanVars, callVars, loopVars, panicked, result>>

\* Receive returns the next message.
Begin(w, d) ==
    /\ handling[w] = {}
    /\ d \in batch[w] \ acking[w]
    /\ handling' = [handling EXCEPT ![w] = {d}]
    /\ UNCHANGED <<queueVars, scanVars, callVars, acking, panicked, result>>

\* msg.Ack: the loop goes on, the deletion is made later.
Done(w, d) ==
    /\ d \in handling[w]
    /\ handling' = [handling EXCEPT ![w] = {}]
    /\ acking' = [acking EXCEPT ![w] = @ \cup {d}]
    /\ UNCHANGED <<queueVars, scanVars, callVars>>

\* The parent's code is fetched and searched, and the row is written over with what
\* was found.  "error" is a finding too: the code cannot be had or read.
Analyze(w, d) ==
    /\ Done(w, d)
    /\ EdgeOf(d[1]) \in Stored
    /\ \E f \in {Finding[EdgeOf(d[1])], "error"} : result' = [result EXCEPT ![EdgeOf(d[1])] = f]
    /\ UNCHANGED panicked

\* An edge without a row is no error.
Invalid(w, d) ==
    /\ Done(w, d)
    /\ EdgeOf(d[1]) \notin Stored
    /\ UNCHANGED <<panicked, result>>

\* dispatchMessage recovers, and returns no error.
Panic(w, d) ==
    /\ Done(w, d)
    /\ panicked' = panicked \cup {d[1]}
    /\ UNCHANGED result

FailAcked(w, d) ==
    /\ Done(w, d)
    /\ UNCHANGED <<panicked, result>>

FailStopping(w, d) ==
    /\ d \in handling[w]
    /\ Leave(w, d)
    /\ status' = [status EXCEPT ![d[1]] = IF @ = "hidden" THEN "visible" ELSE @]
    /\ UNCHANGED <<receives, handled, loopVars, scanVars, callVars, panicked, result>>

\* The edge cannot be read, or the result cannot be saved.  Nack makes the message
\* readable at once, unless SQS has done so already.
FailRecord(w, d) ==
    /\ d \in handling[w]
    /\ Leave(w, d)
    /\ status' = [status EXCEPT ![d[1]] = IF @ = "hidden" THEN "visible" ELSE @]
    /\ handling' = [handling EXCEPT ![w] = {}]
    /\ UNCHANGED <<receives, handled, acking, scanVars, callVars, panicked, result>>

\* The deletion reaches SQS, or fails.
Ack(w, d) ==
    /\ d \in acking[w]
    /\ Succeed(w, d)
    /\ acking' = [acking EXCEPT ![w] = @ \ {d}]
    /\ UNCHANGED <<scanVars, callVars, handling, panicked, result>>

\* The task ends: it is reclaimed, or Receive fails.
Restart(w) ==
    /\ Crash(w)
    /\ handling' = [handling EXCEPT ![w] = {}]
    /\ acking' = [acking EXCEPT ![w] = {}]
    /\ UNCHANGED <<scanVars, callVars, panicked, result>>

Sqs(m) ==
    /\ VisibilityExpires(m) \/ Redrive(m)
    /\ UNCHANGED <<scanVars, callVars, loopVars, panicked, result>>
-----------------------------------------------------------------------------
Call(m) == Lookup(m) \/ SendEdge(m) \/ Lose(m)
Poll(w) == \E S \in SUBSET Message : Prefetch(w, S)
Handle(w, d) == Analyze(w, d) \/ Invalid(w, d) \/ Panic(w, d) \/ FailRecord(w, d)
Loop(w) == \E d \in batch[w] : Begin(w, d) \/ Handle(w, d)
Flush(w) == \E d \in batch[w] : Ack(w, d)

StaticNext ==
    \/ \E b \in Build : InsertManifests(b)
    \/ \E s \in Scan : AnalyzeTree(s)
    \/ \E m \in Message : Call(m) \/ Sqs(m)
    \/ \E w \in Worker : Poll(w) \/ Loop(w) \/ Flush(w) \/ Restart(w)

StaticSpec == StaticInit /\ [][StaticNext]_vars

\* Calls are answered, the loop goes on, and SQS does.  That a message is handled in
\* the end is assumed of the registry and of semgrep, for which no timeout is set.
StaticFairness ==
    /\ \A m \in Message : WF_vars(Call(m)) /\ WF_vars(Sqs(m))
    /\ \A w \in Worker : WF_vars(Poll(w)) /\ WF_vars(Loop(w)) /\ WF_vars(Flush(w))

FairStaticSpec == StaticSpec /\ StaticFairness
-----------------------------------------------------------------------------
StaticTypeOK ==
    /\ TypeOK
    /\ trees \subseteq Build
    /\ loaded \subseteq started /\ started \subseteq Scan
    /\ looking \subseteq Message /\ sending \subseteq Message /\ lost \subseteq Message
    /\ handling \in [Worker -> SUBSET Delivery] /\ acking \in [Worker -> SUBSET Delivery]
    /\ \A w \in Worker :
        /\ handling[w] \cup acking[w] \subseteq batch[w]
        /\ handling[w] \cap acking[w] = {}
        /\ \A c, d \in handling[w] : c = d
    /\ panicked \subseteq Message
    /\ result \in [Edge -> Good \cup {"none", "error"}]

\* Only a panic makes the queue forget an edge that was not analysed: failed
\* handlers, lost and repeated deliveries and deletions of stale reads do not.
AnalysesNotLost ==
    \A m \in Message \ panicked :
        status[m] = "deleted" /\ EdgeOf(m) \in Stored => result[EdgeOf(m)] # "none"

\* m's edge is between the scan and its result.
UnderWay(m) == m \in looking \cup sending \/ status[m] \in {"visible", "hidden"}

\* What is known to have failed: the call, all deliveries, or the handler.
GivenUp(m) == m \in lost \cup panicked \/ status[m] = "dead"

\* A scan that finds the tree leaves no vulnerable edge unanalysed, whatever other
\* scans of the edge have asked for or found, except by a failure of its own call.
EdgesNotForgotten ==
    \A m \in Message :
        m[1] \in loaded /\ EdgeOf(m) \in Stored
            => result[EdgeOf(m)] # "none" \/ UnderWay(m) \/ GivenUp(m)

\* The work ends: each edge of a scan that finds the tree has a result or was given
\* up, and no message goes round for ever.
EdgesAreAnalyzed ==
    \A m \in Message :
        m[1] \in loaded ~>
            ~UnderWay(m) /\ (EdgeOf(m) \in Stored => result[EdgeOf(m)] # "none" \/ GivenUp(m))
=============================================================================
