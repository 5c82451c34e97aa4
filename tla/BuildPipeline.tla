------------------------- MODULE BuildPipeline -------------------------
(***************************************************************************)
(* The two queues a build goes through.  A repository-snapshot job clones, *)
(* uploads the SBOM, and stores the dependency trees; S3 announces the     *)
(* SBOM on the second queue while that job still runs; a scan job matches  *)
(* it against the vulnerabilities.  Build states are sent without waiting  *)
(* for the answer (update-build-status.ts): they reach build_log in any    *)
(* order, or never, when the failed write ends the process as an unhandled *)
(* rejection (Die).  log holds the states that were sent, whether or not   *)
(* they have arrived, by the message whose jobs sent them, which build_log *)
(* does not tell.  SnapshotQueued is sent by the API server and left out.  *)
(* The queues are QueueWorker's; the commit of the trees is one step *)
(* here and DependencyGraphStore's subject.                                *)
(***************************************************************************)
EXTENDS QueueWorker

CONSTANT Build   \* builds of repositories that have a lock file

VARIABLES
    badSbom,   \* uploads <<b, n>> whose content yields no parsable report
    step,      \* how far the job of each delivery is
    sbom,      \* sbom[b]: the upload whose SBOM of b is in S3, 0 if there is none
    s3url,     \* builds with s3_url set
    graph,     \* builds whose dependency trees are committed
    manifest,  \* builds whose resolved_manifest rows are committed
    scans,     \* builds with a row in scans
    log        \* log[m]: states the jobs of message m sent to build_log

dataVars == <<badSbom, sbom, s3url, graph, manifest, scans>>
vars == <<queueVars, step, dataVars, log>>

\* SnapshotFailed, which is written of some failures and not of others and says
\* nothing of what is stored, and the states that tell progress are left out.
BuildState == {"SnapshotCompleted", "ScanCompleted", "ScanFailed"}

\* The queue's messages: one repository-snapshot message for a build, and one S3
\* event for each upload of its SBOM, told apart by the delivery that made it.
SnapshotMsg(b) == <<"snapshot", b, 0>>
ScanMsg(b, n) == <<"scan", b, n>>
Upload == 1..MaxReceives["repository"]
PipelineMessage ==
    {SnapshotMsg(b) : b \in Build} \cup {ScanMsg(b, n) : b \in Build, n \in Upload}

ASSUME PipelineAssumption ==
    /\ "repository" \in Queue
    /\ Message = PipelineMessage
    /\ \A b \in Build : QueueOf[SnapshotMsg(b)] = "repository"

BuildOfJob(d) == d[1][2]
UploadOf(d) == d[1][3]
IsSnapshot(d) == d[1][1] = "snapshot"

JobStage == {"none", "start", "upload", "seturl", "graph", "manifest", "scan", "report", "ok"}

PipelineInit ==
    /\ Init
    /\ step = [d \in Delivery |-> "none"]
    /\ sbom = [b \in Build |-> 0]
    /\ badSbom = {} /\ s3url = {} /\ graph = {} /\ manifest = {} /\ scans = {}
    /\ log = [m \in Message |-> {}]

\* updateBuildStatus, not awaited.
Write(d, states) == log' = [log EXCEPT ![d[1]] = @ \cup states]

Goto(d, s) == step' = [step EXCEPT ![d] = s]

\* The job of d, running in w, is at step s.
At(w, d, s) == d \in Jobs(w) /\ step[d] = s

\* The job ends with an error; its message will be delivered again.
GiveUp(w, d, states) ==
    /\ Fail(w, d)
    /\ Goto(d, "none")
    /\ Write(d, states)
    /\ UNCHANGED dataVars
-----------------------------------------------------------------------------
(* repository-snapshot: snapshotRepositoryActivity                         *)

Enqueue(b) ==
    /\ Send(SnapshotMsg(b))
    /\ UNCHANGED <<step, dataVars, log>>

\* The clone url cannot be had.
NoCloneUrl(w, d) == At(w, d, "start") /\ IsSnapshot(d) /\ GiveUp(w, d, {})

GenerateSbom(w, d) ==
    /\ At(w, d, "start") /\ IsSnapshot(d)
    /\ \/ Goto(d, "upload") /\ UNCHANGED <<queueVars, dataVars, log>>
       \/ GiveUp(w, d, {})

\* The upload replaces the build's object and makes S3 send an event.  It holds
\* whatever the CLI has printed: how the CLI ended is not looked at (call-cli.ts).
UploadSbom(w, d) ==
    /\ At(w, d, "upload")
    /\ \/ /\ Send(ScanMsg(BuildOfJob(d), d[2]))
          /\ sbom' = [sbom EXCEPT ![BuildOfJob(d)] = d[2]]
          /\ badSbom' \in {badSbom, badSbom \cup {<<BuildOfJob(d), d[2]>>}}
          /\ Goto(d, "seturl")
          /\ UNCHANGED <<s3url, graph, manifest, scans, log>>
       \/ GiveUp(w, d, {})

SetS3UrlForgiving(w, d) ==
    /\ At(w, d, "seturl")
    /\ \/ /\ s3url' = s3url \cup {BuildOfJob(d)}
          /\ Goto(d, "graph")
          /\ UNCHANGED <<queueVars, badSbom, sbom, graph, manifest, scans, log>>
       \/ /\ Goto(d, "graph")
          /\ UNCHANGED <<queueVars, dataVars, log>>

SetS3Url(w, d) ==
    /\ At(w, d, "seturl")
    /\ \/ /\ s3url' = s3url \cup {BuildOfJob(d)}
          /\ Goto(d, "graph")
          /\ UNCHANGED <<queueVars, badSbom, sbom, graph, manifest, scans, log>>
       \/ GiveUp(w, d, {})

\* uploadWorktreeSnapshot, then the transaction of DependencyGraphStore.
InsertGraph(w, d) ==
    /\ At(w, d, "graph")
    /\ \/ /\ graph' = graph \cup {BuildOfJob(d)}
          /\ Goto(d, "manifest")
          /\ UNCHANGED <<queueVars, badSbom, sbom, s3url, manifest, scans, log>>
       \/ GiveUp(w, d, {})

InsertManifestsUnordered(w, d) ==
    /\ step[d] \in {"graph", "manifest"} /\ d \in Jobs(w)
    /\ \/ /\ BuildOfJob(d) \notin manifest
          /\ manifest' = manifest \cup {BuildOfJob(d)}
          /\ Goto(d, "ok")
          /\ Write(d, {"SnapshotCompleted"})
          /\ UNCHANGED <<queueVars, badSbom, sbom, s3url, graph, scans>>
       \/ GiveUp(w, d, {})

\* The unique key on (build_id, path) makes this fail for a repeated delivery.
InsertManifests(w, d) ==
    /\ At(w, d, "manifest")
    /\ \/ /\ BuildOfJob(d) \notin manifest
          /\ manifest' = manifest \cup {BuildOfJob(d)}
          /\ Goto(d, "ok")
          /\ Write(d, {"SnapshotCompleted"})
          /\ UNCHANGED <<queueVars, badSbom, sbom, s3url, graph, scans>>
       \/ GiveUp(w, d, {})
-----------------------------------------------------------------------------
(* S3 event of the SBOM bucket: scanSnapshotActivity                       *)

\* staticallyAnalyzeDependencyTree: the vulnerable edges of the tree, if it is stored
\* already, are sent to a queue of their own (StaticAnalysis); errors are only logged.
AnalyzeTree(w, d) ==
    /\ At(w, d, "start") /\ ~IsSnapshot(d)
    /\ Goto(d, "scan")
    /\ UNCHANGED <<queueVars, dataVars, log>>

IsBad(b) == <<b, sbom[b]>> \in badSbom

InsertScan(b) == scans' = scans \cup {b}

ScanSwallowing(w, d) ==
    /\ At(w, d, "scan")
    /\ \/ /\ Goto(d, "ok")
          /\ Write(d, {"ScanFailed"})
          /\ UNCHANGED <<queueVars, dataVars>>
       \/ /\ ~IsBad(BuildOfJob(d))
          /\ InsertScan(BuildOfJob(d))
          /\ Goto(d, "report")
          /\ UNCHANGED <<queueVars, badSbom, sbom, s3url, graph, manifest, log>>

\* The SBOM is fetched and matched, and the report is inserted.  A bad SBOM is a
\* failed scan but a successful job; an Error that is thrown is an error.
Scan(w, d) ==
    /\ At(w, d, "scan")
    /\ \/ /\ IsBad(BuildOfJob(d))
          /\ Goto(d, "ok")
          /\ Write(d, {"ScanFailed"})
          /\ UNCHANGED <<queueVars, dataVars>>
       \/ /\ ~IsBad(BuildOfJob(d))
          /\ InsertScan(BuildOfJob(d))
          /\ Goto(d, "report")
          /\ UNCHANGED <<queueVars, badSbom, sbom, s3url, graph, manifest, log>>
       \/ GiveUp(w, d, {"ScanFailed"})

\* The scanner exits with a non-zero code, or its input stream breaks: the promise
\* is rejected with a string, which catchError returns and threwError, asking for
\* an Error, takes for the result of a scan.
ScannerFails(w, d) ==
    /\ At(w, d, "scan")
    /\ Goto(d, "report")
    /\ UNCHANGED <<queueVars, dataVars, log>>

\* The pull request is told afterwards; its errors are only logged.
Report(w, d) ==
    /\ At(w, d, "report")
    /\ Goto(d, "ok")
    /\ Write(d, {"ScanCompleted"})
    /\ UNCHANGED <<queueVars, dataVars>>
-----------------------------------------------------------------------------
(* The worker around the jobs.                                             *)

Poll(w) ==
    /\ \E S \in SUBSET Message :
        /\ Receive(w, S)
        /\ step' = [d \in Delivery |-> IF d \in batch'[w] THEN "start" ELSE step[d]]
    /\ UNCHANGED <<dataVars, log>>

Settle(w, d) ==
    /\ At(w, d, "ok") /\ Succeed(w, d)
    /\ Goto(d, "none")
    /\ UNCHANGED <<dataVars, log>>

Timer(w) == JobTimeout(w) /\ UNCHANGED <<step, dataVars, log>>

Sqs(m) ==
    /\ VisibilityExpires(m) \/ Redrive(m)
    /\ UNCHANGED <<step, dataVars, log>>

\* A crash for any reason, a rejected write included, ends all jobs of the task.
Die(w) ==
    /\ Crash(w)
    /\ step' = [d \in Delivery |-> IF d \in Jobs(w) THEN "none" ELSE step[d]]
    /\ UNCHANGED <<dataVars, log>>

\* The steps that store the dependency trees, which SnapshotSystem refines.
TreeStep(w, d) == InsertGraph(w, d) \/ InsertManifests(w, d)

OtherStep(w, d) ==
    \/ NoCloneUrl(w, d) \/ GenerateSbom(w, d) \/ UploadSbom(w, d) \/ SetS3Url(w, d)
    \/ AnalyzeTree(w, d) \/ Scan(w, d) \/ ScannerFails(w, d) \/ Report(w, d)
    \/ Settle(w, d)

QueueStep ==
    \/ \E b \in Build : Enqueue(b)
    \/ \E m \in Message : Sqs(m)
    \/ \E w \in Worker : Poll(w) \/ Timer(w) \/ Die(w)

PipelineNext ==
    \/ QueueStep
    \/ \E w \in Worker : \E d \in Jobs(w) : TreeStep(w, d) \/ OtherStep(w, d)

PipelineSpec == PipelineInit /\ [][PipelineNext]_vars

\* The poll loops and their timers go on, and so does SQS.  Nothing says that a
\* job ever settles: a git clone or an HTTP call may hang.
PipelineFairness ==
    /\ \A w \in Worker : WF_vars(Poll(w)) /\ WF_vars(Timer(w))
    /\ \A m \in Message : WF_vars(Sqs(m))

FairPipelineSpec == PipelineSpec /\ PipelineFairness
-----------------------------------------------------------------------------
PipelineTypeOK ==
    /\ TypeOK
    /\ badSbom \subseteq Build \X Upload
    /\ step \in [Delivery -> JobStage]
    /\ sbom \in [Build -> Upload \cup {0}]
    /\ s3url \subseteq {b \in Build : sbom[b] # 0}
    /\ manifest \subseteq graph /\ graph \subseteq Build
    /\ scans \subseteq Build
    /\ log \in [Message -> SUBSET BuildState]

\* A build leaves the repository queue only with everything stored that a later
\* rescan or tree query reads, however its deliveries crash and overlap.
SnapshotNotLost ==
    \A b \in Build : status[SnapshotMsg(b)] = "deleted" =>
        sbom[b] # 0 /\ b \in s3url \cap graph \cap manifest

\* What upload n of b asks for is done: its own jobs show b as scanned, or it has
\* been replaced by another one, or it cannot be scanned and they show b as failed.
Concluded(b, n) ==
    \/ "ScanCompleted" \in log[ScanMsg(b, n)]
    \/ sbom[b] # n
    \/ <<b, n>> \in badSbom /\ "ScanFailed" \in log[ScanMsg(b, n)]

\* The scan queue forgets the upload that is in S3 only when it is concluded: a
\* failed download or insert is tried again, whatever the jobs of other uploads of
\* the build showed meanwhile.
ScanNotLost ==
    \A b \in Build : \A n \in Upload :
        status[ScanMsg(b, n)] = "deleted" => Concluded(b, n)

\* What the build page shows as a completed snapshot is stored, although states
\* are written by several workers and arrive in any order.
SnapshotReportsAreTrue ==
    \A b \in Build :
        "SnapshotCompleted" \in log[SnapshotMsg(b)] => b \in s3url \cap manifest

\* "Successfully scanned snapshot." (scan-snapshot-activity.ts:147): a build that
\* is shown as scanned has a scan.
CompletedScansAreStored ==
    \A b \in Build : \A n \in Upload :
        "ScanCompleted" \in log[ScanMsg(b, n)] => b \in scans

\* An SBOM that reached S3 is concluded in the end, unless its jobs fail, hang or
\* die as often as the redrive policy allows.
EverySbomConcluded ==
    \A b \in Build : \A n \in Upload :
        sbom[b] = n ~> Concluded(b, n) \/ status[ScanMsg(b, n)] = "dead"
=============================================================================
