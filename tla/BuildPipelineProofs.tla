------------------------ MODULE BuildPipelineProofs ------------------------
(***************************************************************************)
(* What holds of BuildPipeline for any builds, tasks and receive limits.   *)
(***************************************************************************)
EXTENDS BuildPipeline, QueueWorkerProofs

\* A step of the snapshot job is only reached by snapshot jobs, and likewise for
\* the scan job; each has stored what its earlier steps were for.
DeliveryInv(d) ==
    /\ step[d] \in {"upload", "seturl", "graph", "manifest"} => IsSnapshot(d)
    /\ step[d] \in {"scan", "report"} => ~IsSnapshot(d)
    /\ step[d] \in {"seturl", "graph", "manifest"} => sbom[BuildOfJob(d)] # 0
    /\ step[d] \in {"graph", "manifest"} => BuildOfJob(d) \in s3url
    /\ step[d] = "manifest" => BuildOfJob(d) \in graph
    /\ step[d] = "ok" /\ IsSnapshot(d) =>
          sbom[BuildOfJob(d)] # 0 /\ BuildOfJob(d) \in s3url \cap graph \cap manifest
    /\ step[d] # "none" /\ ~IsSnapshot(d) => status[d[1]] # "unsent"
    /\ step[d] = "ok" /\ ~IsSnapshot(d) => Concluded(BuildOfJob(d), UploadOf(d))

PipelineInv ==
    /\ PipelineTypeOK
    /\ \A d \in Delivery : DeliveryInv(d)
    /\ SnapshotNotLost
    /\ ScanNotLost
    /\ SnapshotReportsAreTrue

\* A delivery's message is of a build, and each upload has a message.
LEMMA DeliveryBuild ==
    ASSUME NEW d \in Delivery
    PROVE  /\ BuildOfJob(d) \in Build
           /\ IsSnapshot(d) => /\ d[1] = SnapshotMsg(BuildOfJob(d))
                               /\ d[2] \in Upload
                               /\ ScanMsg(BuildOfJob(d), d[2]) \in Message
           /\ ~IsSnapshot(d) => /\ d[1] = ScanMsg(BuildOfJob(d), UploadOf(d))
                                /\ UploadOf(d) \in Upload
<1>1. PICK m \in Message : d \in {m} \X (1..Limit(m))
  BY DEF Delivery
<1>2. d[1] = m /\ d[2] \in 1..Limit(m)
  BY <1>1
<1>3. CASE \E b \in Build : m = SnapshotMsg(b)
  <2>1. PICK b \in Build : m = SnapshotMsg(b)
    BY <1>3
  <2>2. BuildOfJob(d) = b /\ IsSnapshot(d)
    BY <1>2, <2>1 DEF BuildOfJob, IsSnapshot, SnapshotMsg
  <2>3. d[2] \in Upload
    BY <1>2, <2>1, PipelineAssumption DEF Limit, Upload
  <2>4. ScanMsg(b, d[2]) \in Message
    BY <2>3, PipelineAssumption DEF PipelineMessage
  <2> QED
    BY <1>2, <2>1, <2>2, <2>3, <2>4
<1>4. CASE \E b \in Build, n \in Upload : m = ScanMsg(b, n)
  BY <1>2, <1>4 DEF BuildOfJob, UploadOf, IsSnapshot, ScanMsg
<1> QED
  BY <1>3, <1>4, PipelineAssumption DEF PipelineMessage

\* The messages of a build.
LEMMA BuildMessages ==
    ASSUME NEW b \in Build
    PROVE  SnapshotMsg(b) \in Message /\ \A n \in Upload : ScanMsg(b, n) \in Message
  BY PipelineAssumption DEF PipelineMessage

\* A task runs jobs of reads that SQS allows.
LEMMA JobIsDelivery ==
    ASSUME TypeOK, NEW w \in Worker, NEW d \in Jobs(w)
    PROVE  d \in Delivery
  BY DEF TypeOK, Jobs

\* Whatever the jobs do, the queue sees a worker's or SQS's step or none.
LEMMA PipelineStepIsQueueStep ==
    ASSUME PipelineInv, [PipelineNext]_vars
    PROVE  [Next]_queueVars
<1> TypeOK
  BY DEF PipelineInv, PipelineTypeOK
<1>1. ASSUME NEW b \in Build, Enqueue(b) PROVE Next
  <2>1. SnapshotMsg(b) \in Message
    BY PipelineAssumption DEF PipelineMessage
  <2> QED
    BY <1>1, <2>1 DEF Enqueue, Next
<1>2. ASSUME NEW m \in Message, Sqs(m) PROVE Next
  BY <1>2 DEF Sqs, Next
<1>3. ASSUME NEW w \in Worker, Poll(w) \/ Timer(w) \/ Die(w) PROVE Next
  BY <1>3 DEF Poll, Timer, Die, Next
<1>4. ASSUME NEW w \in Worker, NEW d \in Jobs(w), TreeStep(w, d) \/ OtherStep(w, d)
      PROVE  Next \/ UNCHANGED queueVars
  <2>1. d \in Delivery
    BY JobIsDelivery
  <2>2. ASSUME NEW states, GiveUp(w, d, states) PROVE Next
    BY <2>1, <2>2 DEF GiveUp, Next
  <2>3. CASE UploadSbom(w, d)
    <3>1. IsSnapshot(d)
      BY <2>1, <2>3 DEF UploadSbom, At, PipelineInv, DeliveryInv
    <3>2. ScanMsg(BuildOfJob(d), d[2]) \in Message
      BY <2>1, <3>1, DeliveryBuild
    <3> QED
      BY <2>2, <2>3, <3>2 DEF UploadSbom, Next
  <2>4. CASE Settle(w, d)
    BY <2>1, <2>4 DEF Settle, Next
  <2>5. CASE \/ NoCloneUrl(w, d) \/ GenerateSbom(w, d) \/ SetS3Url(w, d)
             \/ InsertGraph(w, d)
             \/ InsertManifests(w, d) \/ AnalyzeTree(w, d) \/ Scan(w, d)
             \/ ScannerFails(w, d) \/ Report(w, d)
    BY <2>2, <2>5 DEF NoCloneUrl, GenerateSbom, SetS3Url, InsertGraph, InsertManifests,
                      AnalyzeTree, Scan, ScannerFails, Report
  <2> QED
    BY <1>4, <2>3, <2>4, <2>5 DEF TreeStep, OtherStep
<1>5. CASE UNCHANGED vars
  BY <1>5 DEF vars
<1> QED
  BY <1>1, <1>2, <1>3, <1>4, <1>5 DEF PipelineNext, QueueStep
-----------------------------------------------------------------------------
\* What a job has stored stays stored, and what a sent upload asked for stays done.
DataGrows ==
    /\ \A b \in Build : sbom[b] # 0 => sbom'[b] # 0
    /\ s3url \subseteq s3url'
    /\ graph \subseteq graph' /\ manifest \subseteq manifest'
    /\ SentStays
    /\ \A b \in Build, n \in Upload :
          status[ScanMsg(b, n)] # "unsent" /\ Concluded(b, n) => Concluded(b, n)'

\* Steps that upload nothing leave every upload as concluded as it was.
LEMMA DataStays ==
    ASSUME SentStays, UNCHANGED <<sbom, badSbom>>, \A m \in Message : log[m] \subseteq log'[m],
           s3url \subseteq s3url', graph \subseteq graph', manifest \subseteq manifest'
    PROVE  DataGrows
  BY BuildMessages DEF DataGrows, Concluded

\* A job's write only adds to the states its message has sent.
LEMMA WriteGrows ==
    ASSUME PipelineInv, NEW d \in Delivery, NEW states, Write(d, states)
    PROVE  /\ \A m \in Message : log[m] \subseteq log'[m]
           /\ log'[d[1]] = log[d[1]] \cup states
  BY DeliveryMessage DEF Write, PipelineInv, PipelineTypeOK

\* A step of one delivery need only be looked at for that delivery.
LEMMA OtherDeliveries ==
    ASSUME DataGrows, NEW d \in Delivery, DeliveryInv(d), step'[d] \in {step[d], "none"}
    PROVE  DeliveryInv(d)'
<1>1. CASE step'[d] = "none"
  BY <1>1 DEF DeliveryInv
<1>2. CASE step'[d] = step[d]
  <2>1. BuildOfJob(d) \in Build
    BY DeliveryBuild
  <2>2. ASSUME step[d] # "none", ~IsSnapshot(d)
        PROVE  /\ status[d[1]] # "unsent" /\ status'[d[1]] # "unsent"
               /\ d[1] = ScanMsg(BuildOfJob(d), UploadOf(d)) /\ UploadOf(d) \in Upload
    BY <2>2, DeliveryBuild, DeliveryMessage DEF DeliveryInv, DataGrows, SentStays
  <2>3. ASSUME step[d] = "ok", ~IsSnapshot(d)
        PROVE  Concluded(BuildOfJob(d), UploadOf(d))'
    <3> DEFINE b == BuildOfJob(d)
               n == UploadOf(d)
    <3>1. Concluded(b, n) /\ status[ScanMsg(b, n)] # "unsent" /\ b \in Build /\ n \in Upload
      BY <2>1, <2>2, <2>3 DEF DeliveryInv
    <3>2. Concluded(b, n)'
      BY <3>1 DEF DataGrows
    <3> QED
      BY <3>2
  <2> QED
    BY <1>2, <2>1, <2>2, <2>3 DEF DeliveryInv, BuildOfJob, IsSnapshot, DataGrows
<1> QED
  BY <1>1, <1>2

\* While no message is deleted, what deleted messages stand for stays stored.
LEMMA NoDeletion ==
    ASSUME PipelineInv, DataGrows,
           \A m \in Message : status'[m] = "deleted" => status[m] = "deleted"
    PROVE  SnapshotNotLost' /\ ScanNotLost'
<1>1. SnapshotNotLost'
  <2> SUFFICES ASSUME NEW b \in Build, status'[SnapshotMsg(b)] = "deleted"
               PROVE  sbom'[b] # 0 /\ b \in s3url' \cap graph' \cap manifest'
    BY DEF SnapshotNotLost, SnapshotMsg
  <2>1. SnapshotMsg(b) \in Message
    BY PipelineAssumption DEF PipelineMessage
  <2> QED
    BY <2>1 DEF PipelineInv, SnapshotNotLost, DataGrows
<1>2. ScanNotLost'
  <2> SUFFICES ASSUME NEW b \in Build, NEW n \in Upload, status'[ScanMsg(b, n)] = "deleted"
               PROVE  Concluded(b, n)'
    BY DEF ScanNotLost, ScanMsg
  <2>1. ScanMsg(b, n) \in Message
    BY PipelineAssumption DEF PipelineMessage
  <2> QED
    BY <2>1 DEF PipelineInv, ScanNotLost, DataGrows
<1> QED
  BY <1>1, <1>2

\* A job stores before it reports: states of another kind than completion, or of
\* builds whose rows are there, keep the reports true.
LEMMA TrueReports ==
    ASSUME PipelineInv, DataGrows, NEW d \in Delivery, NEW states, Write(d, states),
           "SnapshotCompleted" \in states => BuildOfJob(d) \in s3url' \cap manifest'
    PROVE  SnapshotReportsAreTrue'
<1> SUFFICES ASSUME NEW b \in Build, "SnapshotCompleted" \in log'[SnapshotMsg(b)]
             PROVE  b \in s3url' \cap manifest'
  BY DEF SnapshotReportsAreTrue, SnapshotMsg
<1> DEFINE m == SnapshotMsg(b)
<1>1. log'[m] = IF m = d[1] THEN log[m] \cup states ELSE log[m]
  BY BuildMessages, DeliveryMessage DEF Write, PipelineInv, PipelineTypeOK
<1>2. "SnapshotCompleted" \in log[m] => b \in s3url \cap manifest
  BY DEF PipelineInv, SnapshotReportsAreTrue
<1>3. m = d[1] => b = BuildOfJob(d)
  BY DEF SnapshotMsg, BuildOfJob
<1> QED
  BY <1>1, <1>2, <1>3 DEF DataGrows

\* A job that reports no completion leaves the reports true.
LEMMA SilentReports ==
    ASSUME PipelineInv, DataGrows, log' = log
    PROVE  SnapshotReportsAreTrue'
  BY DEF PipelineInv, SnapshotReportsAreTrue, SnapshotMsg, DataGrows

\* What is left to show of a step of one job that deletes no message.
LEMMA StepOfJob ==
    ASSUME PipelineInv, PipelineTypeOK', DataGrows, NEW d \in Delivery,
           \A e \in Delivery \ {d} : step'[e] = step[e],
           DeliveryInv(d)', SnapshotReportsAreTrue',
           \A m \in Message : status'[m] = "deleted" => status[m] = "deleted"
    PROVE  PipelineInv'
<1>1. ASSUME NEW e \in Delivery \ {d} PROVE DeliveryInv(e)'
  BY OtherDeliveries DEF PipelineInv
<1> QED
  BY <1>1, NoDeletion DEF PipelineInv

\* What is left to show of a step of the tasks or of SQS.
LEMMA StepOfQueue ==
    ASSUME PipelineInv, PipelineTypeOK', UNCHANGED <<dataVars, log>>,
           SentStays,
           \A d \in Delivery : \/ step'[d] \in {step[d], "none"}
                               \/ step'[d] = "start" /\ status'[d[1]] # "unsent",
           \A m \in Message : status'[m] = "deleted" => status[m] = "deleted"
    PROVE  PipelineInv'
<1>1. DataGrows
  BY DataStays DEF dataVars
<1>2. ASSUME NEW d \in Delivery PROVE DeliveryInv(d)'
  <2>1. CASE step'[d] = "start" /\ status'[d[1]] # "unsent"
    BY <2>1 DEF DeliveryInv
  <2>2. CASE step'[d] \in {step[d], "none"}
    BY <1>1, <2>2, OtherDeliveries DEF PipelineInv
  <2> QED
    BY <2>1, <2>2
<1> QED
  BY <1>1, <1>2, NoDeletion, SilentReports DEF PipelineInv

\* A failed job has stored no more than before, and its message stays.
LEMMA GiveUpInv ==
    ASSUME PipelineInv, TypeOK', SentStays, NEW w \in Worker, NEW d \in Delivery,
           NEW states \in SUBSET {"ScanFailed"}, GiveUp(w, d, states)
    PROVE  PipelineInv'
<1>1. PipelineTypeOK'
  BY DEF GiveUp, Goto, Write, dataVars, PipelineInv, PipelineTypeOK, JobStage, BuildState
<1>2. DataGrows
  BY WriteGrows, DataStays DEF GiveUp, dataVars
<1>3. step'[d] = "none" /\ \A e \in Delivery \ {d} : step'[e] = step[e]
  BY DEF GiveUp, Goto, PipelineInv, PipelineTypeOK
<1>4. DeliveryInv(d)'
  BY <1>3 DEF DeliveryInv
<1>5. SnapshotReportsAreTrue' /\ status' = status
  BY <1>2, TrueReports DEF GiveUp, Fail
<1> QED
  BY <1>1, <1>2, <1>3, <1>4, <1>5, StepOfJob

\* Cloning and generating the SBOM store nothing.
LEMMA GenerateSbomInv ==
    ASSUME PipelineInv, TypeOK', SentStays, NEW w \in Worker, NEW d \in Delivery,
           GenerateSbom(w, d)
    PROVE  PipelineInv'
<1>1. CASE Goto(d, "upload") /\ UNCHANGED <<queueVars, dataVars, log>>
  <2>1. PipelineTypeOK' /\ DataGrows
    BY <1>1, DataStays DEF Goto, dataVars, PipelineInv, PipelineTypeOK, JobStage
  <2>2. step'[d] = "upload" /\ \A e \in Delivery \ {d} : step'[e] = step[e]
    BY <1>1 DEF Goto, PipelineInv, PipelineTypeOK
  <2>3. DeliveryInv(d)'
    BY <2>2 DEF GenerateSbom, DeliveryInv, IsSnapshot
  <2>4. SnapshotReportsAreTrue' /\ status' = status
    BY <1>1, <2>1, SilentReports DEF queueVars
  <2> QED
    BY <2>1, <2>2, <2>3, <2>4, StepOfJob
<1> QED
  BY <1>1, GiveUpInv DEF GenerateSbom

\* After the upload the SBOM is in S3, and its event is a message that was never
\* sent: the upload gives no other message something new to conclude.
LEMMA UploadInv ==
    ASSUME PipelineInv, TypeOK', SentStays, NEW w \in Worker, NEW d \in Delivery,
           UploadSbom(w, d)
    PROVE  PipelineInv'
<1> DEFINE b == BuildOfJob(d)
<1>1. CASE /\ Send(ScanMsg(b, d[2]))
           /\ sbom' = [sbom EXCEPT ![b] = d[2]]
           /\ badSbom' \in {badSbom, badSbom \cup {<<b, d[2]>>}}
           /\ Goto(d, "seturl")
           /\ UNCHANGED <<s3url, graph, manifest, scans, log>>
  <2>1. DeliveryInv(d) /\ IsSnapshot(d) /\ b \in Build /\ d[2] \in Upload
    BY DeliveryBuild DEF UploadSbom, At, PipelineInv, DeliveryInv
  <2>2. d[2] # 0 /\ sbom'[b] = d[2] /\ \A c \in Build \ {b} : sbom'[c] = sbom[c]
    BY <1>1, <2>1, PipelineAssumption, QueueAssumption
    DEF PipelineInv, PipelineTypeOK, Upload
  <2>3. PipelineTypeOK'
    BY <1>1, <2>1, <2>2 DEF Goto, PipelineInv, PipelineTypeOK, JobStage
  <2>4. ASSUME NEW c \in Build, NEW n \in Upload,
               status[ScanMsg(c, n)] # "unsent", Concluded(c, n)
        PROVE  Concluded(c, n)'
    <3>1. c # b \/ n # d[2]
      BY <1>1, <2>4 DEF Send
    <3>2. log' = log /\ badSbom \subseteq badSbom'
      BY <1>1
    <3> QED
      BY <2>2, <2>4, <3>1, <3>2 DEF Concluded, ScanMsg
  <2>5. DataGrows
    BY <1>1, <2>2, <2>4 DEF DataGrows
  <2>6. step'[d] = "seturl" /\ \A e \in Delivery \ {d} : step'[e] = step[e]
    BY <1>1 DEF Goto, PipelineInv, PipelineTypeOK
  <2>7. DeliveryInv(d)'
    BY <2>1, <2>2, <2>6 DEF DeliveryInv, IsSnapshot, BuildOfJob
  <2>8. SnapshotReportsAreTrue'
    BY <1>1, <2>5, SilentReports
  <2>9. \A m \in Message : status'[m] = "deleted" => status[m] = "deleted"
    BY <1>1 DEF Send, PipelineInv, PipelineTypeOK, TypeOK
  <2> QED
    BY <2>3, <2>5, <2>6, <2>7, <2>8, <2>9, StepOfJob
<1> QED
  BY <1>1, GiveUpInv DEF UploadSbom

\* The url is set after the SBOM was uploaded by the same job.
LEMMA SetS3UrlInv ==
    ASSUME PipelineInv, TypeOK', SentStays, NEW w \in Worker, NEW d \in Delivery,
           SetS3Url(w, d)
    PROVE  PipelineInv'
<1> DEFINE b == BuildOfJob(d)
<1>1. CASE /\ s3url' = s3url \cup {b} /\ Goto(d, "graph")
           /\ UNCHANGED <<queueVars, badSbom, sbom, graph, manifest, scans, log>>
  <2>1. DeliveryInv(d) /\ step[d] = "seturl" /\ b \in Build
    BY DeliveryBuild DEF SetS3Url, At, PipelineInv
  <2>2. PipelineTypeOK' /\ DataGrows
    BY <1>1, <2>1, DataStays DEF Goto, PipelineInv, PipelineTypeOK, JobStage, DeliveryInv
  <2>3. step'[d] = "graph" /\ \A e \in Delivery \ {d} : step'[e] = step[e]
    BY <1>1 DEF Goto, PipelineInv, PipelineTypeOK
  <2>4. DeliveryInv(d)'
    BY <1>1, <2>1, <2>3 DEF DeliveryInv, IsSnapshot, BuildOfJob
  <2>5. SnapshotReportsAreTrue' /\ status' = status
    BY <1>1, <2>2, SilentReports DEF queueVars
  <2> QED
    BY <2>2, <2>3, <2>4, <2>5, StepOfJob
<1> QED
  BY <1>1, GiveUpInv DEF SetS3Url

\* The trees are committed by a job that has set the url.
LEMMA InsertGraphInv ==
    ASSUME PipelineInv, TypeOK', SentStays, NEW w \in Worker, NEW d \in Delivery,
           InsertGraph(w, d)
    PROVE  PipelineInv'
<1> DEFINE b == BuildOfJob(d)
<1>1. CASE /\ graph' = graph \cup {b} /\ Goto(d, "manifest")
           /\ UNCHANGED <<queueVars, badSbom, sbom, s3url, manifest, scans, log>>
  <2>1. DeliveryInv(d) /\ step[d] = "graph" /\ b \in Build
    BY DeliveryBuild DEF InsertGraph, At, PipelineInv
  <2>2. PipelineTypeOK' /\ DataGrows
    BY <1>1, <2>1, DataStays DEF Goto, PipelineInv, PipelineTypeOK, JobStage
  <2>3. step'[d] = "manifest" /\ \A e \in Delivery \ {d} : step'[e] = step[e]
    BY <1>1 DEF Goto, PipelineInv, PipelineTypeOK
  <2>4. DeliveryInv(d)'
    BY <1>1, <2>1, <2>3 DEF DeliveryInv, IsSnapshot, BuildOfJob
  <2>5. SnapshotReportsAreTrue' /\ status' = status
    BY <1>1, <2>2, SilentReports DEF queueVars
  <2> QED
    BY <2>2, <2>3, <2>4, <2>5, StepOfJob
<1> QED
  BY <1>1, GiveUpInv DEF InsertGraph

\* A manifest follows its trees, and a completion follows the manifest.
LEMMA InsertManifestsInv ==
    ASSUME PipelineInv, TypeOK', SentStays, NEW w \in Worker, NEW d \in Delivery,
           InsertManifests(w, d)
    PROVE  PipelineInv'
<1> DEFINE b == BuildOfJob(d)
<1>1. CASE /\ manifest' = manifest \cup {b} /\ Goto(d, "ok")
           /\ Write(d, {"SnapshotCompleted"})
           /\ UNCHANGED <<queueVars, badSbom, sbom, s3url, graph, scans>>
  <2>1. DeliveryInv(d) /\ step[d] = "manifest" /\ b \in Build
    BY DeliveryBuild DEF InsertManifests, At, PipelineInv
  <2>2. PipelineTypeOK'
    BY <1>1, <2>1 DEF Goto, Write, PipelineInv, PipelineTypeOK, JobStage, BuildState, DeliveryInv
  <2>3. DataGrows
    BY <1>1, WriteGrows, DataStays
  <2>4. step'[d] = "ok" /\ \A e \in Delivery \ {d} : step'[e] = step[e]
    BY <1>1 DEF Goto, PipelineInv, PipelineTypeOK
  <2>5. DeliveryInv(d)'
    BY <1>1, <2>1, <2>4 DEF DeliveryInv, IsSnapshot, BuildOfJob
  <2>6. b \in s3url' \cap manifest' /\ status' = status
    BY <1>1, <2>1 DEF DeliveryInv, queueVars
  <2>7. SnapshotReportsAreTrue'
    BY <1>1, <2>3, <2>6, TrueReports
  <2> QED
    BY <2>2, <2>3, <2>4, <2>5, <2>6, <2>7, StepOfJob
<1> QED
  BY <1>1, GiveUpInv DEF InsertManifests

\* A scan job that stores nothing and sends nothing keeps the invariant at any
\* step at which its upload need not be concluded yet.
LEMMA ScanJobGoesOn ==
    ASSUME PipelineInv, TypeOK', SentStays, NEW d \in Delivery, ~IsSnapshot(d),
           step[d] # "none", NEW s \in {"scan", "report"}, Goto(d, s),
           UNCHANGED <<queueVars, badSbom, sbom, s3url, graph, manifest, log>>,
           scans' \subseteq Build
    PROVE  PipelineInv'
<1>1. PipelineTypeOK'
  BY DEF Goto, PipelineInv, PipelineTypeOK, JobStage
<1>2. DataGrows
  BY DataStays
<1>3. step'[d] = s /\ \A e \in Delivery \ {d} : step'[e] = step[e]
  BY DEF Goto, PipelineInv, PipelineTypeOK
<1>4. status' = status /\ status[d[1]] # "unsent"
  BY DEF PipelineInv, DeliveryInv, queueVars
<1>5. DeliveryInv(d)'
  BY <1>3, <1>4 DEF DeliveryInv, IsSnapshot
<1>6. SnapshotReportsAreTrue'
  BY <1>2, SilentReports
<1> QED
  BY <1>1, <1>2, <1>3, <1>4, <1>5, <1>6, StepOfJob

\* A scan job that sends a state after which its upload is concluded may end.
LEMMA ScanJobEnds ==
    ASSUME PipelineInv, TypeOK', SentStays, NEW d \in Delivery, ~IsSnapshot(d),
           step[d] # "none", Goto(d, "ok"),
           NEW states \in SUBSET {"ScanCompleted", "ScanFailed"}, Write(d, states),
           UNCHANGED <<queueVars, dataVars>>,
           \/ "ScanCompleted" \in states
           \/ /\ "ScanFailed" \in states
              /\ IsBad(BuildOfJob(d))
    PROVE  PipelineInv'
<1> DEFINE b == BuildOfJob(d)
           n == UploadOf(d)
<1>1. PipelineTypeOK'
  BY DEF Goto, Write, dataVars, PipelineInv, PipelineTypeOK, JobStage, BuildState
<1>2. DataGrows
  BY WriteGrows, DataStays DEF dataVars
<1>3. step'[d] = "ok" /\ \A e \in Delivery \ {d} : step'[e] = step[e]
  BY DEF Goto, PipelineInv, PipelineTypeOK
<1>4. status' = status /\ status[d[1]] # "unsent"
  BY DEF PipelineInv, DeliveryInv, queueVars
<1>5. Concluded(b, n)'
  <2>1. d[1] = ScanMsg(b, n)
    BY DeliveryBuild
  <2>2. log'[ScanMsg(b, n)] = log[ScanMsg(b, n)] \cup states /\ UNCHANGED <<sbom, badSbom>>
    BY <2>1, WriteGrows DEF dataVars
  <2>3. CASE "ScanCompleted" \in states
    BY <2>2, <2>3 DEF Concluded, ScanMsg, BuildOfJob, UploadOf
  <2>4. CASE sbom[b] # n
    BY <2>2, <2>4 DEF Concluded, BuildOfJob, UploadOf
  <2>5. CASE "ScanFailed" \in states /\ IsBad(b) /\ sbom[b] = n
    BY <2>2, <2>5 DEF Concluded, ScanMsg, IsBad, BuildOfJob, UploadOf
  <2> QED
    BY <2>3, <2>4, <2>5
<1>6. DeliveryInv(d)'
  BY <1>3, <1>4, <1>5 DEF DeliveryInv, IsSnapshot, BuildOfJob, UploadOf
<1>7. SnapshotReportsAreTrue'
  BY <1>2, TrueReports
<1> QED
  BY <1>1, <1>2, <1>3, <1>4, <1>6, <1>7, StepOfJob

\* Looking for vulnerable edges stores nothing a scan relies on.
LEMMA AnalyzeTreeInv ==
    ASSUME PipelineInv, TypeOK', SentStays, NEW w \in Worker, NEW d \in Delivery,
           AnalyzeTree(w, d)
    PROVE  PipelineInv'
<1>1. scans' \subseteq Build
  BY DEF AnalyzeTree, dataVars, PipelineInv, PipelineTypeOK
<1> QED
  BY <1>1, ScanJobGoesOn DEF AnalyzeTree, At, dataVars

\* A scan job ends for good without a scan only when it has written of a bad SBOM.
LEMMA ScanInv ==
    ASSUME PipelineInv, TypeOK', SentStays, NEW w \in Worker, NEW d \in Delivery,
           Scan(w, d)
    PROVE  PipelineInv'
<1> DEFINE b == BuildOfJob(d)
<1>1. step[d] = "scan" /\ b \in Build /\ ~IsSnapshot(d)
  BY DeliveryBuild DEF Scan, At, PipelineInv, DeliveryInv
<1>2. CASE /\ IsBad(b) /\ Goto(d, "ok") /\ Write(d, {"ScanFailed"})
           /\ UNCHANGED <<queueVars, dataVars>>
  BY <1>1, <1>2, ScanJobEnds
<1>3. CASE /\ InsertScan(b) /\ Goto(d, "report")
           /\ UNCHANGED <<queueVars, badSbom, sbom, s3url, graph, manifest, log>>
  <2>1. scans' \subseteq Build
    BY <1>1, <1>3 DEF InsertScan, PipelineInv, PipelineTypeOK
  <2> QED
    BY <1>1, <1>3, <2>1, ScanJobGoesOn
<1> QED
  BY <1>2, <1>3, GiveUpInv DEF Scan

\* A scanner's failure, taken for a result, stores nothing.
LEMMA ScannerFailsInv ==
    ASSUME PipelineInv, TypeOK', SentStays, NEW w \in Worker, NEW d \in Delivery,
           ScannerFails(w, d)
    PROVE  PipelineInv'
<1>1. step[d] = "scan" /\ ~IsSnapshot(d) /\ scans' \subseteq Build
  BY DEF ScannerFails, At, dataVars, PipelineInv, PipelineTypeOK, DeliveryInv
<1> QED
  BY <1>1, ScanJobGoesOn DEF ScannerFails, dataVars

\* ScanCompleted concludes the upload whose job sends it.
LEMMA ReportInv ==
    ASSUME PipelineInv, TypeOK', SentStays, NEW w \in Worker, NEW d \in Delivery,
           Report(w, d)
    PROVE  PipelineInv'
<1>1. step[d] = "report" /\ ~IsSnapshot(d)
  BY DEF Report, At, PipelineInv, DeliveryInv
<1> QED
  BY <1>1, ScanJobEnds DEF Report

\* The only step that deletes a message is that of a job which has stored all.
LEMMA SettleInv ==
    ASSUME PipelineInv, TypeOK', SentStays, NEW w \in Worker, NEW d \in Delivery,
           Settle(w, d)
    PROVE  PipelineInv'
<1> DEFINE b == BuildOfJob(d)
<1>1. DeliveryInv(d) /\ step[d] = "ok" /\ b \in Build
  BY DeliveryBuild DEF Settle, At, PipelineInv
<1>2. UNCHANGED <<sbom, badSbom, s3url, graph, manifest, log>>
  BY DEF Settle, dataVars
<1>3. PipelineTypeOK' /\ DataGrows
  BY DataStays DEF Settle, Goto, dataVars, PipelineInv, PipelineTypeOK, JobStage
<1>4. step' = [step EXCEPT ![d] = "none"]
  BY DEF Settle, Goto
<1>5. ASSUME NEW e \in Delivery PROVE DeliveryInv(e)'
  <2>1. step'[e] \in {step[e], "none"}
    BY <1>4 DEF PipelineInv, PipelineTypeOK
  <2> QED
    BY <1>3, <2>1, OtherDeliveries DEF PipelineInv
<1>6. \A m \in Message \ {d[1]} : status'[m] = "deleted" => status[m] = "deleted"
  BY DEF Settle, Succeed, PipelineInv, PipelineTypeOK, TypeOK
<1>7. SnapshotNotLost'
  <2> SUFFICES ASSUME NEW c \in Build, status'[SnapshotMsg(c)] = "deleted"
               PROVE  sbom'[c] # 0 /\ c \in s3url' \cap graph' \cap manifest'
    BY DEF SnapshotNotLost, SnapshotMsg
  <2>1. SnapshotMsg(c) \in Message
    BY PipelineAssumption DEF PipelineMessage
  <2>2. CASE SnapshotMsg(c) = d[1]
    <3>1. IsSnapshot(d) /\ c = b
      BY <2>2 DEF SnapshotMsg, IsSnapshot, BuildOfJob
    <3> QED
      BY <1>1, <1>2, <3>1 DEF DeliveryInv
  <2>3. CASE SnapshotMsg(c) # d[1]
    BY <1>2, <1>6, <2>1, <2>3 DEF PipelineInv, SnapshotNotLost
  <2> QED
    BY <2>2, <2>3
<1>8. ScanNotLost'
  <2> SUFFICES ASSUME NEW c \in Build, NEW n \in Upload,
                      status'[ScanMsg(c, n)] = "deleted"
               PROVE  Concluded(c, n)'
    BY DEF ScanNotLost, ScanMsg
  <2>1. ScanMsg(c, n) \in Message
    BY PipelineAssumption DEF PipelineMessage
  <2>2. Concluded(c, n)
    <3>1. CASE ScanMsg(c, n) = d[1]
      <4>1. ~IsSnapshot(d) /\ c = b /\ n = UploadOf(d)
        BY <3>1 DEF ScanMsg, IsSnapshot, BuildOfJob, UploadOf
      <4> QED
        BY <1>1, <4>1 DEF DeliveryInv
    <3>2. CASE ScanMsg(c, n) # d[1]
      BY <1>6, <2>1, <3>2 DEF PipelineInv, ScanNotLost
    <3> QED
      BY <3>1, <3>2
  <2> QED
    BY <1>2, <2>2 DEF Concluded
<1>9. SnapshotReportsAreTrue'
  BY <1>2, <1>3, SilentReports
<1> QED
  BY <1>3, <1>5, <1>7, <1>8, <1>9 DEF PipelineInv

\* A message that a task has read was sent.
LEMMA ReadIsSent ==
    ASSUME TypeOK, NEW w \in Worker, Poll(w), NEW d \in batch'[w]
    PROVE  status'[d[1]] # "unsent"
<1>1. PICK S \in SUBSET Message : Receive(w, S)
  BY DEF Poll
<1>2. batch'[w] = {<<m, receives[m] + 1>> : m \in S}
  BY <1>1 DEF Receive, TypeOK
<1>3. PICK m \in S : d = <<m, receives[m] + 1>>
  BY <1>2
<1> QED
  BY <1>1, <1>3 DEF Receive

\* Reads, timers, crashes and SQS take nothing a running job relies on.
LEMMA QueueStepInv ==
    ASSUME PipelineInv, TypeOK', SentStays, QueueStep
    PROVE  PipelineInv'
<1> DEFINE Kept(d) == \/ step'[d] \in {step[d], "none"}
                      \/ step'[d] = "start" /\ status'[d[1]] # "unsent"
<1>1. UNCHANGED <<dataVars, log>>
  BY DEF QueueStep, Enqueue, Sqs, Poll, Timer, Die
<1>2. step' \in [Delivery -> JobStage] /\ \A d \in Delivery : Kept(d)
  <2>1. step \in [Delivery -> JobStage]
    BY DEF PipelineInv, PipelineTypeOK
  <2>2. ASSUME NEW w \in Worker, Poll(w)
        PROVE  step' \in [Delivery -> JobStage] /\ \A d \in Delivery : Kept(d)
    <3>1. step' = [d \in Delivery |-> IF d \in batch'[w] THEN "start" ELSE step[d]]
      BY <2>2 DEF Poll
    <3>2. \A d \in batch'[w] : status'[d[1]] # "unsent"
      BY <2>2, ReadIsSent DEF PipelineInv, PipelineTypeOK
    <3> QED
      BY <2>1, <3>1, <3>2 DEF JobStage
  <2>3. ASSUME NEW w \in Worker, Die(w)
        PROVE  step' \in [Delivery -> JobStage] /\ \A d \in Delivery : Kept(d)
    <3>1. step' = [d \in Delivery |-> IF d \in Jobs(w) THEN "none" ELSE step[d]]
      BY <2>3 DEF Die
    <3> QED
      BY <2>1, <3>1 DEF JobStage
  <2>4. CASE step' = step
    BY <2>1, <2>4
  <2> QED
    BY <2>2, <2>3, <2>4 DEF QueueStep, Enqueue, Sqs, Timer
<1>3. PipelineTypeOK'
  BY <1>1, <1>2 DEF dataVars, PipelineInv, PipelineTypeOK
<1>4. \A m \in Message : status'[m] = "deleted" => status[m] = "deleted"
  <2>1. ASSUME NEW b \in Build, Enqueue(b)
        PROVE  \A m \in Message : status'[m] = "deleted" => status[m] = "deleted"
    BY <2>1 DEF Enqueue, Send, PipelineInv, PipelineTypeOK, TypeOK
  <2>2. ASSUME NEW n \in Message, Sqs(n)
        PROVE  \A m \in Message : status'[m] = "deleted" => status[m] = "deleted"
    BY <2>2 DEF Sqs, VisibilityExpires, Redrive, PipelineInv, PipelineTypeOK, TypeOK
  <2>3. ASSUME NEW w \in Worker, Poll(w) \/ Timer(w) \/ Die(w)
        PROVE  \A m \in Message : status'[m] = "deleted" => status[m] = "deleted"
    BY <2>3 DEF Poll, Timer, Die, Receive, JobTimeout, Crash
  <2> QED
    BY <2>1, <2>2, <2>3 DEF QueueStep
<1> QED
  BY <1>1, <1>2, <1>3, <1>4, StepOfQueue

\* With nothing sent, nothing has to be stored.
LEMMA InitPipelineInv == PipelineInit => PipelineInv
<1> SUFFICES ASSUME PipelineInit PROVE PipelineInv
  OBVIOUS
<1>1. TypeOK
  BY LimitType DEF PipelineInit, Init, TypeOK
<1>2. PipelineTypeOK
  BY <1>1 DEF PipelineInit, PipelineTypeOK, BuildState, JobStage
<1>3. \A d \in Delivery : DeliveryInv(d)
  BY DEF PipelineInit, DeliveryInv
<1>4. SnapshotNotLost /\ ScanNotLost
  BY PipelineAssumption DEF PipelineInit, Init, SnapshotNotLost, ScanNotLost, PipelineMessage
<1>5. SnapshotReportsAreTrue
  BY BuildMessages DEF PipelineInit, SnapshotReportsAreTrue
<1> QED
  BY <1>2, <1>3, <1>4, <1>5 DEF PipelineInv

\* Steps outside the pipeline change none of its variables.
LEMMA StutterPipelineInv ==
    ASSUME PipelineInv, UNCHANGED vars
    PROVE  PipelineInv'
<1>1. TypeOK'
  BY DEF PipelineInv, PipelineTypeOK, vars, queueVars, TypeOK
<1>2. PipelineTypeOK' /\ UNCHANGED <<dataVars, log, step>> /\ status' = status
  BY <1>1 DEF PipelineInv, PipelineTypeOK, vars, queueVars, dataVars
<1>3. SentStays
  BY <1>2 DEF SentStays
<1>4. \A d \in Delivery : \/ step'[d] \in {step[d], "none"}
                          \/ step'[d] = "start" /\ status'[d[1]] # "unsent"
  BY <1>2
<1>5. \A m \in Message : status'[m] = "deleted" => status[m] = "deleted"
  BY <1>2
<1> QED
  BY <1>2, <1>3, <1>4, <1>5, StepOfQueue

\* A job's progress implies what it has stored, over all interleavings of
\* snapshots, scans, timeouts, repeated deliveries and crashes.
THEOREM PipelineInvariant == PipelineSpec => []PipelineInv
<1>1. PipelineInv /\ [PipelineNext]_vars => PipelineInv'
  <2> SUFFICES ASSUME PipelineInv, [PipelineNext]_vars PROVE PipelineInv'
    OBVIOUS
  <2>1. TypeOK' /\ SentStays
    BY PipelineStepIsQueueStep, StepType, StepKeepsSent DEF PipelineInv, PipelineTypeOK
  <2>2. ASSUME NEW w \in Worker, NEW d \in Jobs(w), TreeStep(w, d) \/ OtherStep(w, d)
        PROVE  PipelineInv'
    <3>1. d \in Delivery
      BY JobIsDelivery DEF PipelineInv, PipelineTypeOK
    <3> QED
      BY <2>1, <2>2, <3>1, GiveUpInv, GenerateSbomInv, UploadInv, SetS3UrlInv, InsertGraphInv,
         InsertManifestsInv, AnalyzeTreeInv, ScanInv, ScannerFailsInv, ReportInv, SettleInv
      DEF TreeStep, OtherStep, NoCloneUrl
  <2> QED
    BY <2>1, <2>2, QueueStepInv, StutterPipelineInv DEF PipelineNext
<1> QED
  BY <1>1, InitPipelineInv, PTL DEF PipelineSpec
-----------------------------------------------------------------------------
\* The pipeline's variables keep their types, and a url or manifest comes after
\* the SBOM or trees it names.
THEOREM PipelineTypeCorrect == PipelineSpec => []PipelineTypeOK
<1>1. PipelineInv => PipelineTypeOK
  BY DEF PipelineInv
<1> QED
  BY <1>1, PipelineInvariant, PTL

\* A build leaves the repository queue only with everything stored.
THEOREM SnapshotsAreKept == PipelineSpec => []SnapshotNotLost
<1>1. PipelineInv => SnapshotNotLost
  BY DEF PipelineInv
<1> QED
  BY <1>1, PipelineInvariant, PTL

\* The scan queue forgets an upload only when it is concluded.
THEOREM ScansAreKept == PipelineSpec => []ScanNotLost
<1>1. PipelineInv => ScanNotLost
  BY DEF PipelineInv
<1> QED
  BY <1>1, PipelineInvariant, PTL

\* What is reported as a completed snapshot is stored.
THEOREM SnapshotReportsTrue == PipelineSpec => []SnapshotReportsAreTrue
<1>1. PipelineInv => SnapshotReportsAreTrue
  BY DEF PipelineInv
<1> QED
  BY <1>1, PipelineInvariant, PTL

\* The pipeline is a queue worker: what is proved of any worker holds of it.
THEOREM PipelineIsQueueWorker == PipelineSpec => Spec
<1>1. PipelineInit => Init
  BY DEF PipelineInit
<1> QED
  BY <1>1, PipelineInvariant, PipelineStepIsQueueStep, PTL DEF PipelineSpec, Spec
-----------------------------------------------------------------------------
\* A scanner exits, or its input breaks, before any scan of the build was stored.
\* The same step of a build that has a scan shows nothing untrue.
ScannerExits ==
    \E w \in Worker : \E d \in Jobs(w) : ScannerFails(w, d) /\ BuildOfJob(d) \notin scans

\* A job that is about to report has stored a scan, and so has one that reported.
ScanReportInv ==
    /\ CompletedScansAreStored
    /\ \A d \in Delivery : step[d] = "report" => BuildOfJob(d) \in scans

\* A step that reports no scan, and takes no job to its report, leaves both as
\* they were: scans are never taken back.
LEMMA NoNewReport ==
    ASSUME PipelineInv, ScanReportInv, scans \subseteq scans',
           \A d \in Delivery : step'[d] = "report" =>
               step[d] = "report" \/ BuildOfJob(d) \in scans',
           \A b \in Build, n \in Upload : "ScanCompleted" \in log'[ScanMsg(b, n)] =>
               "ScanCompleted" \in log[ScanMsg(b, n)] \/ b \in scans'
    PROVE  ScanReportInv'
  BY DEF ScanReportInv, CompletedScansAreStored, ScanMsg

\* What a job step may do to the reports: it goes on to one with a scan stored, or
\* reports with a scan stored, or neither.
LEMMA JobReport ==
    ASSUME PipelineInv, ScanReportInv, scans \subseteq scans', NEW d \in Delivery,
           NEW s \in JobStage, Goto(d, s), s = "report" => BuildOfJob(d) \in scans',
           \/ log' = log
           \/ \E states \in SUBSET BuildState :
                 /\ Write(d, states)
                 /\ "ScanCompleted" \in states => BuildOfJob(d) \in scans'
    PROVE  ScanReportInv'
<1>1. \A e \in Delivery : step'[e] = "report" =>
          step[e] = "report" \/ BuildOfJob(e) \in scans'
  BY DEF Goto, PipelineInv, PipelineTypeOK
<1>2. \A b \in Build, n \in Upload : "ScanCompleted" \in log'[ScanMsg(b, n)] =>
          "ScanCompleted" \in log[ScanMsg(b, n)] \/ b \in scans'
  <2>1. ASSUME NEW states \in SUBSET BuildState, Write(d, states), NEW m \in Message
        PROVE  log'[m] = IF m = d[1] THEN log[m] \cup states ELSE log[m]
    BY <2>1, DeliveryMessage DEF Write, PipelineInv, PipelineTypeOK
  <2>2. \A b \in Build, n \in Upload : ScanMsg(b, n) = d[1] => b = BuildOfJob(d)
    BY DEF ScanMsg, BuildOfJob
  <2> QED
    BY <2>1, <2>2, BuildMessages
<1> QED
  BY <1>1, <1>2, NoNewReport

\* What is shown as scanned has a scan, but for scanners that exit: neither late
\* jobs, nor replaced uploads, nor repeated deliveries show a scan that is not there.
THEOREM ScansAreShownTruly ==
    PipelineSpec /\ [][~ScannerExits]_vars => []CompletedScansAreStored
<1>1. PipelineInit => ScanReportInv
  BY BuildMessages DEF PipelineInit, ScanReportInv, CompletedScansAreStored
<1>2. PipelineInv /\ ScanReportInv /\ [PipelineNext]_vars /\ [~ScannerExits]_vars
      => ScanReportInv'
  <2> SUFFICES ASSUME PipelineInv, ScanReportInv, [PipelineNext]_vars, [~ScannerExits]_vars
               PROVE  ScanReportInv'
    OBVIOUS
  <2>1. CASE UNCHANGED vars
    BY <2>1, NoNewReport DEF vars, dataVars
  <2>2. CASE QueueStep
    <3>1. UNCHANGED <<dataVars, log>>
      BY <2>2 DEF QueueStep, Enqueue, Sqs, Poll, Timer, Die
    <3>2. \A d \in Delivery : step'[d] = "report" => step[d] = "report"
      BY <2>2 DEF QueueStep, Enqueue, Sqs, Poll, Timer, Die
    <3> QED
      BY <3>1, <3>2, NoNewReport DEF dataVars
  <2>3. ASSUME NEW w \in Worker, NEW d \in Jobs(w), TreeStep(w, d) \/ OtherStep(w, d),
               ~UNCHANGED vars
        PROVE  ScanReportInv'
    <3>1. d \in Delivery
      BY JobIsDelivery DEF PipelineInv, PipelineTypeOK
    <3>2. ASSUME NEW states \in SUBSET {"ScanFailed"}, GiveUp(w, d, states)
          PROVE  ScanReportInv'
      <4>1. states \in SUBSET BuildState /\ "ScanCompleted" \notin states
        BY DEF BuildState
      <4> QED
        BY <3>1, <3>2, <4>1, JobReport DEF GiveUp, dataVars, JobStage
    <3>3. CASE NoCloneUrl(w, d) \/ GenerateSbom(w, d) \/ UploadSbom(w, d) \/ SetS3Url(w, d)
               \/ InsertGraph(w, d) \/ AnalyzeTree(w, d)
      BY <3>1, <3>2, <3>3, JobReport
      DEF NoCloneUrl, GenerateSbom, UploadSbom, SetS3Url, InsertGraph, AnalyzeTree, JobStage,
          dataVars
    <3>4. CASE InsertManifests(w, d)
      BY <3>1, <3>2, <3>4, JobReport DEF InsertManifests, JobStage, BuildState
    <3>5. CASE Scan(w, d)
      <4>1. CASE Goto(d, "ok") /\ Write(d, {"ScanFailed"}) /\ UNCHANGED dataVars
        BY <3>1, <4>1, JobReport DEF JobStage, BuildState, dataVars
      <4>2. CASE InsertScan(BuildOfJob(d)) /\ Goto(d, "report") /\ UNCHANGED log
        BY <3>1, <4>2, JobReport DEF InsertScan, JobStage
      <4> QED
        BY <3>2, <3>5, <4>1, <4>2 DEF Scan
    <3>6. CASE ScannerFails(w, d)
      <4>1. BuildOfJob(d) \in scans
        BY <2>3, <3>6 DEF ScannerExits
      <4> QED
        BY <3>1, <3>6, <4>1, JobReport DEF ScannerFails, JobStage, dataVars
    <3>7. CASE Report(w, d)
      <4>1. BuildOfJob(d) \in scans
        BY <3>1, <3>7 DEF Report, At, ScanReportInv
      <4> QED
        BY <3>1, <3>7, <4>1, JobReport DEF Report, JobStage, BuildState, dataVars
    <3>8. CASE Settle(w, d)
      BY <3>1, <3>8, JobReport DEF Settle, JobStage, dataVars
    <3> QED
      BY <2>3, <3>3, <3>4, <3>5, <3>6, <3>7, <3>8 DEF TreeStep, OtherStep
  <2> QED
    BY <2>1, <2>2, <2>3 DEF PipelineNext
<1>3. ScanReportInv => CompletedScansAreStored
  BY DEF ScanReportInv
<1> QED
  BY <1>1, <1>2, <1>3, PipelineInvariant, PTL DEF PipelineSpec
=============================================================================
