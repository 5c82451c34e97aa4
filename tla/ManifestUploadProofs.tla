----------------------- MODULE ManifestUploadProofs -----------------------
(***************************************************************************)
(* What holds of ManifestUpload for any uploads, tasks and receive limits. *)
(***************************************************************************)
EXTENDS ManifestUpload, QueueWorkerProofs

\* Each job has stored what its earlier steps were for; a manifest job that is
\* about to delete its message has given the row a build.
DeliveryInv(d) ==
    /\ step[d] \in {"insert", "generate", "upload", "seturl", "generated", "catch"}
           => IsManifest(d)
    /\ step[d] = "scan" => ~IsManifest(d)
    /\ step[d] \in {"generate", "upload"} => Bld(d) \in builds
    /\ step[d] \in {"seturl", "generated"} => Bld(d) \in sbom
    /\ step[d] = "generated" => Bld(d) \in s3url
    /\ step[d] = "ok" /\ IsManifest(d) => row[Up(d)].build # 0

\* An SBOM in S3 was announced.
SbomsAnnounced == \A b \in sbom : status[SbomMsg(b[1], b[2])] # "unsent"

\* A row points to nothing or to a build with an SBOM and a url.
RowsPointToStored ==
    \A u \in Upload : row[u].build # 0 => <<u, row[u].build>> \in sbom \cap s3url

\* A forgotten file has a build.
DeletedHaveBuild ==
    \A u \in Upload : status[ManifestMsg(u)] = "deleted" => row[u].build # 0

UploadInv ==
    /\ UploadTypeOK
    /\ \A d \in Delivery : DeliveryInv(d)
    /\ SbomsAnnounced
    /\ RowsPointToStored
    /\ DeletedHaveBuild
    /\ StatusIsOfItsBuild

\* A delivery belongs to an upload and names one of its builds.
LEMMA DeliveryUpload ==
    ASSUME NEW d \in Delivery
    PROVE  /\ Up(d) \in Upload /\ Bld(d) \in Upload \X BuildNo
           /\ IsManifest(d) => /\ d[1] = ManifestMsg(Up(d))
                               /\ d[2] \in BuildNo /\ Bld(d) = <<Up(d), d[2]>>
                               /\ SbomMsg(Up(d), d[2]) \in Message
<1>1. PICK m \in Message : d \in {m} \X (1..Limit(m))
  BY DEF Delivery
<1>2. d[1] = m /\ d[2] \in 1..Limit(m)
  BY <1>1
<1>3. CASE \E u \in Upload : m = ManifestMsg(u)
  <2>1. PICK u \in Upload : m = ManifestMsg(u)
    BY <1>3
  <2>2. Up(d) = u /\ IsManifest(d)
    BY <1>2, <2>1 DEF Up, IsManifest, ManifestMsg
  <2>3. d[2] \in BuildNo
    BY <1>2, <2>1, UploadAssumption DEF Limit, BuildNo
  <2>4. Bld(d) = <<u, d[2]>> /\ SbomMsg(u, d[2]) \in Message
    BY <2>2, <2>3, UploadAssumption DEF Bld, UploadMessage
  <2> QED
    BY <1>2, <2>1, <2>2, <2>3, <2>4
<1>4. CASE \E u \in Upload, n \in BuildNo : m = SbomMsg(u, n)
  <2>1. PICK u \in Upload, n \in BuildNo : m = SbomMsg(u, n)
    BY <1>4
  <2>2. Up(d) = u /\ ~IsManifest(d) /\ Bld(d) = <<u, n>>
    BY <1>2, <2>1 DEF Up, IsManifest, SbomMsg, Bld
  <2> QED
    BY <2>1, <2>2
<1> QED
  BY <1>3, <1>4, UploadAssumption DEF UploadMessage

\* A task runs jobs of reads that SQS allows.
LEMMA JobIsDelivery ==
    ASSUME TypeOK, NEW w \in Worker, NEW d \in Jobs(w)
    PROVE  d \in Delivery
  BY DEF TypeOK, Jobs

\* Whatever the jobs do, the queue sees a worker's or SQS's step or none.
LEMMA UploadStepIsQueueStep ==
    ASSUME UploadInv, [UploadNext]_vars
    PROVE  [Next]_queueVars
<1> TypeOK
  BY DEF UploadInv, UploadTypeOK
<1>1. ASSUME NEW u \in Upload, InsertManifest(u) \/ PutFile(u)
      PROVE  Next \/ UNCHANGED queueVars
  <2>1. ManifestMsg(u) \in Message
    BY UploadAssumption DEF UploadMessage
  <2> QED
    BY <1>1, <2>1 DEF InsertManifest, PutFile, Next
<1>2. ASSUME NEW p \in coming, Arrive(p) PROVE UNCHANGED queueVars
  BY <1>2 DEF Arrive
<1>3. ASSUME NEW m \in Message, Sqs(m) PROVE Next
  BY <1>3 DEF Sqs, Next
<1>4. ASSUME NEW w \in Worker, Poll(w) \/ Timer(w) \/ Die(w) PROVE Next
  BY <1>4 DEF Poll, Timer, Die, Next
<1>5. ASSUME NEW w \in Worker, NEW d \in Jobs(w), JobStep(w, d)
      PROVE  Next \/ UNCHANGED queueVars
  <2>1. d \in Delivery
    BY JobIsDelivery
  <2>2. ASSUME Throw(w, d) PROVE Next
    BY <2>1, <2>2 DEF Throw, Next
  <2>3. CASE UploadSbom(w, d)
    <3>1. IsManifest(d)
      BY <2>1, <2>3 DEF UploadSbom, At, UploadInv, DeliveryInv
    <3>2. SbomMsg(Up(d), d[2]) \in Message
      BY <2>1, <3>1, DeliveryUpload
    <3> QED
      BY <2>3, <3>2 DEF UploadSbom, Next
  <2>4. CASE Settle(w, d)
    BY <2>1, <2>4 DEF Settle, Next
  <2>5. CASE \/ MarkProcessing(w, d) \/ InsertBuild(w, d) \/ Generate(w, d) \/ SetS3Url(w, d)
             \/ MarkGenerated(w, d) \/ CatchError(w, d) \/ BeginScan(w, d) \/ EndScan(w, d)
    BY <2>2, <2>5 DEF MarkProcessing, InsertBuild, Generate, SetS3Url, MarkGenerated,
                      CatchError, BeginScan, EndScan
  <2> QED
    BY <1>5, <2>3, <2>4, <2>5 DEF JobStep
<1>6. CASE UNCHANGED vars
  BY <1>6 DEF vars
<1> QED
  BY <1>1, <1>2, <1>3, <1>4, <1>5, <1>6 DEF UploadNext
-----------------------------------------------------------------------------
\* What is stored stays stored, and a row that has a build keeps one.
DataGrows ==
    /\ builds \subseteq builds' /\ sbom \subseteq sbom' /\ s3url \subseteq s3url'
    /\ \A u \in Upload : row[u].build # 0 => row'[u].build # 0
    /\ SentStays

\* A step of one delivery need only be looked at for that delivery.
LEMMA OtherDeliveries ==
    ASSUME DataGrows, NEW d \in Delivery, DeliveryInv(d), step'[d] \in {step[d], "none"}
    PROVE  DeliveryInv(d)'
<1>1. CASE step'[d] = "none"
  BY <1>1 DEF DeliveryInv
<1>2. CASE step'[d] = step[d]
  <2>1. Up(d) \in Upload
    BY DeliveryUpload
  <2> QED
    BY <1>2, <2>1 DEF DeliveryInv, DataGrows, Up, Bld, IsManifest
<1> QED
  BY <1>1, <1>2

\* Rows whose build does not change keep pointing to what is stored.
LEMMA BuildsOfRowsStay ==
    ASSUME UploadInv, DataGrows, \A u \in Upload : row'[u].build = row[u].build
    PROVE  RowsPointToStored'
  BY DEF UploadInv, RowsPointToStored, DataGrows

\* Scans report builds, so a row that another step sets to another status is fine.
LEMMA StatusStays ==
    ASSUME UploadInv, sent \subseteq sent',
           \A u \in Upload : \/ row'[u] = row[u]
                             \/ row'[u].status \notin {"scanning", "scanned"}
    PROVE  StatusIsOfItsBuild'
<1> SUFFICES ASSUME NEW u \in Upload, row'[u].status \in {"scanning", "scanned"}
             PROVE  Reported(u, row[u].build, row[u].status)'
  BY DEF StatusIsOfItsBuild
<1>1. row'[u] = row[u]
  OBVIOUS
<1>2. PICK p \in sent : Bld(p[1]) = <<u, row[u].build>> /\ p[2] = row[u].status
  BY <1>1 DEF UploadInv, StatusIsOfItsBuild, Reported
<1>3. p \in sent'
  BY <1>2
<1> QED
  BY <1>1, <1>2, <1>3 DEF Reported

\* Events that were sent are not taken back, and no SBOM is added.
LEMMA AnnouncementsStay ==
    ASSUME UploadInv, SentStays, sbom' = sbom
    PROVE  SbomsAnnounced'
<1> SUFFICES ASSUME NEW b \in sbom PROVE status'[SbomMsg(b[1], b[2])] # "unsent"
  BY DEF SbomsAnnounced
<1>1. b[1] \in Upload /\ b[2] \in BuildNo
  BY DEF UploadInv, UploadTypeOK
<1>2. SbomMsg(b[1], b[2]) \in Message
  BY <1>1, UploadAssumption DEF UploadMessage
<1> QED
  BY <1>2 DEF UploadInv, SbomsAnnounced, SentStays

\* While no message is deleted, forgotten files keep their build.
LEMMA NoDeletion ==
    ASSUME UploadInv, DataGrows,
           \A m \in Message : status'[m] = "deleted" => status[m] = "deleted"
    PROVE  DeletedHaveBuild'
<1> SUFFICES ASSUME NEW u \in Upload, status'[ManifestMsg(u)] = "deleted"
             PROVE  row'[u].build # 0
  BY DEF DeletedHaveBuild, ManifestMsg
<1>1. ManifestMsg(u) \in Message
  BY UploadAssumption DEF UploadMessage
<1> QED
  BY <1>1 DEF UploadInv, DeletedHaveBuild, DataGrows

\* What is left to show of a step of one job that deletes no message.
LEMMA StepOfJob ==
    ASSUME UploadInv, UploadTypeOK', DataGrows, NEW d \in Delivery,
           \A e \in Delivery \ {d} : step'[e] = step[e],
           DeliveryInv(d)', SbomsAnnounced', RowsPointToStored', StatusIsOfItsBuild',
           \A m \in Message : status'[m] = "deleted" => status[m] = "deleted"
    PROVE  UploadInv'
<1>1. ASSUME NEW e \in Delivery \ {d} PROVE DeliveryInv(e)'
  BY OtherDeliveries DEF UploadInv
<1> QED
  BY <1>1, NoDeletion DEF UploadInv

\* What is left to show of a step of the browser, of the tasks or of SQS.
LEMMA StepOfQueue ==
    ASSUME UploadInv, UploadTypeOK', SentStays, UNCHANGED <<builds, sbom, s3url, sent>>,
           \A u \in Upload : /\ row'[u].build = row[u].build
                             /\ \/ row'[u] = row[u]
                                \/ row'[u].status \notin {"scanning", "scanned"},
           \A d \in Delivery : step'[d] \in {step[d], "none", "start"},
           \A m \in Message : status'[m] = "deleted" => status[m] = "deleted"
    PROVE  UploadInv'
<1>1. DataGrows
  BY DEF DataGrows
<1>2. ASSUME NEW d \in Delivery PROVE DeliveryInv(d)'
  <2>1. CASE step'[d] = "start"
    BY <2>1 DEF DeliveryInv
  <2>2. CASE step'[d] \in {step[d], "none"}
    BY <1>1, <2>2, OtherDeliveries DEF UploadInv
  <2> QED
    BY <2>1, <2>2
<1>3. RowsPointToStored' /\ StatusIsOfItsBuild' /\ SbomsAnnounced'
  BY <1>1, BuildsOfRowsStay, StatusStays, AnnouncementsStay
<1> QED
  BY <1>1, <1>2, <1>3, NoDeletion DEF UploadInv

\* Where a job goes, the others stay.
LEMMA GotoSteps ==
    ASSUME UploadInv, NEW d \in Delivery, NEW s \in JobStage, Goto(d, s)
    PROVE  /\ step' \in [Delivery -> JobStage]
           /\ step'[d] = s /\ \A e \in Delivery \ {d} : step'[e] = step[e]
  BY DEF Goto, UploadInv, UploadTypeOK

\* Rows keep their builds, and are set to no status of a scan.
QuietRows ==
    /\ row' \in [Upload -> [status : Status, build : BuildNo \cup {0}]]
    /\ \A v \in Upload : /\ row'[v].build = row[v].build
                         /\ \/ row'[v] = row[v]
                            \/ row'[v].status \notin {"scanning", "scanned"}

\* Setting the status of a row leaves its build and the other rows.
LEMMA SetStatusRow ==
    ASSUME UploadInv, NEW u \in Upload, NEW t \in Status \ {"scanning", "scanned"},
           SetStatus(u, t)
    PROVE  QuietRows
<1>1. row \in [Upload -> [status : Status, build : BuildNo \cup {0}]]
  BY DEF UploadInv, UploadTypeOK
<1>2. row' = [row EXCEPT ![u] = [row[u] EXCEPT !.status = t]]
  BY <1>1 DEF SetStatus
<1>3. [row[u] EXCEPT !.status = t] = [status |-> t, build |-> row[u].build]
  BY <1>1
<1> QED
  BY <1>1, <1>2, <1>3 DEF QuietRows

\* So does leaving them alone.
LEMMA SameRows ==
    ASSUME UploadInv, row' = row
    PROVE  QuietRows
  BY DEF UploadInv, UploadTypeOK, QuietRows

\* Writes are sent, and only what was sent is on its way.
MoreSent == sent \subseteq sent' /\ sent' \subseteq Write /\ coming' \subseteq sent'

\* No SBOM is uploaded; builds and urls of builds with an SBOM may be added.
QuietData ==
    /\ builds \subseteq builds' /\ builds' \subseteq Upload \X BuildNo
    /\ sbom' = sbom
    /\ s3url \subseteq s3url' /\ s3url' \subseteq sbom

\* Most steps store nothing.
LEMMA SameData ==
    ASSUME UploadInv, UNCHANGED <<builds, sbom, s3url>>
    PROVE  QuietData
  BY DEF UploadInv, UploadTypeOK, QuietData

\* A step of a job that uploads nothing and points the row to nothing new.
LEMMA QuietStep ==
    ASSUME UploadInv, TypeOK', SentStays, NEW d \in Delivery,
           QuietRows, QuietData, MoreSent,
           step' \in [Delivery -> JobStage], DeliveryInv(d)',
           \A e \in Delivery \ {d} : step'[e] = step[e],
           status' = status
    PROVE  UploadInv'
<1>1. UploadTypeOK'
  BY DEF UploadInv, UploadTypeOK, QuietRows, QuietData, MoreSent
<1>2. DataGrows
  BY DEF DataGrows, QuietRows, QuietData
<1>3. SbomsAnnounced'
  BY AnnouncementsStay DEF QuietData
<1>4. RowsPointToStored' /\ StatusIsOfItsBuild'
  BY <1>2, BuildsOfRowsStay, StatusStays DEF QuietRows, MoreSent
<1> QED
  BY <1>1, <1>2, <1>3, <1>4, StepOfJob

\* A job that throws has stored no more than before, and its message stays.
LEMMA ThrowInv ==
    ASSUME UploadInv, TypeOK', SentStays, NEW w \in Worker, NEW d \in Delivery, Throw(w, d),
           QuietRows, QuietData, MoreSent
    PROVE  UploadInv'
<1>1. Goto(d, "none") /\ status' = status /\ "none" \in JobStage
  BY DEF Throw, Fail, JobStage
<1>2. /\ step' \in [Delivery -> JobStage]
      /\ step'[d] = "none" /\ \A e \in Delivery \ {d} : step'[e] = step[e]
  BY <1>1, GotoSteps
<1>3. DeliveryInv(d)'
  BY <1>2 DEF DeliveryInv
<1> QED
  BY <1>1, <1>2, <1>3, QuietStep

\* Most steps send nothing.
LEMMA NothingSent ==
    ASSUME UploadInv, UNCHANGED <<sent, coming>>
    PROVE  MoreSent
  BY DEF UploadInv, UploadTypeOK, MoreSent

\* The first request before the try statement.
LEMMA MarkProcessingInv ==
    ASSUME UploadInv, TypeOK', SentStays, NEW w \in Worker, NEW d \in Delivery,
           MarkProcessing(w, d)
    PROVE  UploadInv'
<1>1. MoreSent /\ QuietData
  BY NothingSent, SameData DEF MarkProcessing
<1>2. CASE SetStatus(Up(d), "sbom-processing") /\ Goto(d, "insert") /\ UNCHANGED queueVars
  <2>1. QuietRows
    BY <1>2, DeliveryUpload, SetStatusRow DEF Status
  <2>2. /\ step' \in [Delivery -> JobStage]
        /\ step'[d] = "insert" /\ \A e \in Delivery \ {d} : step'[e] = step[e]
    BY <1>2, GotoSteps DEF JobStage
  <2>3. DeliveryInv(d)'
    BY <2>2 DEF MarkProcessing, DeliveryInv, IsManifest
  <2> QED
    BY <1>1, <1>2, <2>1, <2>2, <2>3, QuietStep DEF queueVars
<1> QED
  BY <1>1, <1>2, SameRows, ThrowInv DEF MarkProcessing

\* The second one, which inserts the build.
LEMMA InsertBuildInv ==
    ASSUME UploadInv, TypeOK', SentStays, NEW w \in Worker, NEW d \in Delivery,
           InsertBuild(w, d)
    PROVE  UploadInv'
<1>1. MoreSent /\ QuietRows
  BY NothingSent, SameRows DEF InsertBuild
<1>2. CASE builds' = builds \cup {Bld(d)} /\ Goto(d, "generate") /\ UNCHANGED queueVars
  <2>1. IsManifest(d)
    BY DEF InsertBuild, At, UploadInv, DeliveryInv
  <2>2. /\ step' \in [Delivery -> JobStage]
        /\ step'[d] = "generate" /\ \A e \in Delivery \ {d} : step'[e] = step[e]
    BY <1>2, GotoSteps DEF JobStage
  <2>3. DeliveryInv(d)'
    BY <1>2, <2>1, <2>2 DEF DeliveryInv, IsManifest, Bld, Up
  <2>4. QuietData
    BY <1>2, DeliveryUpload DEF InsertBuild, QuietData, UploadInv, UploadTypeOK
  <2> QED
    BY <1>1, <1>2, <2>2, <2>3, <2>4, QuietStep DEF queueVars
<1> QED
  BY <1>1, <1>2, SameData, ThrowInv DEF InsertBuild

\* The CLI runs, or the error is caught.
LEMMA GenerateInv ==
    ASSUME UploadInv, TypeOK', SentStays, NEW w \in Worker, NEW d \in Delivery,
           Generate(w, d)
    PROVE  UploadInv'
<1>1. IsManifest(d) /\ Bld(d) \in builds
  BY DEF Generate, At, UploadInv, DeliveryInv
<1>2. MoreSent /\ QuietRows /\ QuietData /\ UNCHANGED <<queueVars, builds>>
  BY NothingSent, SameRows, SameData DEF Generate
<1>3. ASSUME NEW s \in {"upload", "catch"}, Goto(d, s) PROVE UploadInv'
  <2>1. /\ step' \in [Delivery -> JobStage]
        /\ step'[d] = s /\ \A e \in Delivery \ {d} : step'[e] = step[e]
    BY <1>3, GotoSteps DEF JobStage
  <2>2. DeliveryInv(d)'
    BY <1>1, <1>2, <2>1 DEF DeliveryInv, IsManifest, Bld, Up
  <2> QED
    BY <1>2, <2>1, <2>2, QuietStep DEF queueVars
<1> QED
  BY <1>3 DEF Generate

\* After an error nothing is stored and the job goes to its catch clause.
LEMMA ToCatchInv ==
    ASSUME UploadInv, TypeOK', SentStays, NEW d \in Delivery, IsManifest(d), Goto(d, "catch"),
           UNCHANGED <<queueVars, row, builds, sbom, s3url, sent, coming>>
    PROVE  UploadInv'
<1>1. MoreSent /\ QuietRows /\ QuietData
  BY NothingSent, SameRows, SameData
<1>2. /\ step' \in [Delivery -> JobStage]
      /\ step'[d] = "catch" /\ \A e \in Delivery \ {d} : step'[e] = step[e]
  BY GotoSteps DEF JobStage
<1>3. DeliveryInv(d)'
  BY <1>2 DEF DeliveryInv, IsManifest
<1> QED
  BY <1>1, <1>2, <1>3, QuietStep DEF queueVars

\* After the upload the SBOM is in S3 and announced.
LEMMA UploadSbomInv ==
    ASSUME UploadInv, TypeOK', SentStays, NEW w \in Worker, NEW d \in Delivery,
           UploadSbom(w, d)
    PROVE  UploadInv'
<1>1. IsManifest(d) /\ Bld(d) \in builds
  BY DEF UploadSbom, At, UploadInv, DeliveryInv
<1>2. CASE /\ Send(SbomMsg(Up(d), d[2]))
           /\ sbom' = sbom \cup {Bld(d)}
           /\ Goto(d, "seturl")
  <2>1. /\ d[2] \in BuildNo /\ Bld(d) = <<Up(d), d[2]>>
        /\ SbomMsg(Up(d), d[2]) \in Message
    BY <1>1, DeliveryUpload
  <2>2. /\ step' \in [Delivery -> JobStage]
        /\ step'[d] = "seturl" /\ \A e \in Delivery \ {d} : step'[e] = step[e]
    BY <1>2, GotoSteps DEF JobStage
  <2>3. UNCHANGED <<row, builds, s3url, sent, coming>>
    BY DEF UploadSbom
  <2>4. UploadTypeOK'
    BY <1>1, <1>2, <2>2, <2>3 DEF UploadInv, UploadTypeOK
  <2>5. DataGrows
    BY <1>2, <2>3 DEF DataGrows
  <2>6. DeliveryInv(d)'
    BY <1>1, <1>2, <2>2 DEF DeliveryInv, IsManifest, Bld, Up
  <2>7. SbomsAnnounced'
    <3> SUFFICES ASSUME NEW b \in sbom \cup {Bld(d)}
                 PROVE  status'[SbomMsg(b[1], b[2])] # "unsent"
      BY <1>2 DEF SbomsAnnounced
    <3>1. CASE b = Bld(d)
      BY <1>2, <2>1, <3>1 DEF Send, UploadInv, UploadTypeOK, TypeOK
    <3>2. CASE b \in sbom
      <4>1. b[1] \in Upload /\ b[2] \in BuildNo
        BY <3>2 DEF UploadInv, UploadTypeOK
      <4>2. SbomMsg(b[1], b[2]) \in Message
        BY <4>1, UploadAssumption DEF UploadMessage
      <4> QED
        BY <3>2, <4>2 DEF UploadInv, SbomsAnnounced, SentStays
    <3> QED
      BY <3>1, <3>2
  <2>8. RowsPointToStored' /\ StatusIsOfItsBuild'
    BY <2>3, <2>5, BuildsOfRowsStay, StatusStays
  <2>9. \A m \in Message : status'[m] = "deleted" => status[m] = "deleted"
    BY <1>2 DEF Send, UploadInv, UploadTypeOK, TypeOK
  <2> QED
    BY <2>2, <2>4, <2>5, <2>6, <2>7, <2>8, <2>9, StepOfJob
<1> QED
  BY <1>1, <1>2, ToCatchInv DEF UploadSbom

\* The url is saved for a build whose SBOM is in S3.
LEMMA SetS3UrlInv ==
    ASSUME UploadInv, TypeOK', SentStays, NEW w \in Worker, NEW d \in Delivery,
           SetS3Url(w, d)
    PROVE  UploadInv'
<1>1. IsManifest(d) /\ Bld(d) \in sbom
  BY DEF SetS3Url, At, UploadInv, DeliveryInv
<1>2. CASE s3url' = s3url \cup {Bld(d)} /\ Goto(d, "generated")
  <2>1. /\ MoreSent /\ QuietRows /\ QuietData
        /\ UNCHANGED <<queueVars, builds, sbom>>
    BY <1>1, <1>2, NothingSent, SameRows DEF SetS3Url, QuietData, UploadInv, UploadTypeOK
  <2>2. /\ step' \in [Delivery -> JobStage]
        /\ step'[d] = "generated" /\ \A e \in Delivery \ {d} : step'[e] = step[e]
    BY <1>2, GotoSteps DEF JobStage
  <2>3. DeliveryInv(d)'
    BY <1>1, <1>2, <2>1, <2>2 DEF DeliveryInv, IsManifest, Bld, Up
  <2> QED
    BY <1>1, <1>2, <2>1, <2>2, <2>3, QuietStep DEF queueVars
<1> QED
  BY <1>1, <1>2, ToCatchInv DEF SetS3Url

\* The row is pointed to a build with an SBOM and a url.
LEMMA MarkGeneratedInv ==
    ASSUME UploadInv, TypeOK', SentStays, NEW w \in Worker, NEW d \in Delivery,
           MarkGenerated(w, d)
    PROVE  UploadInv'
<1>1. /\ IsManifest(d) /\ Bld(d) \in sbom /\ Bld(d) \in s3url
      /\ d[2] \in BuildNo /\ Bld(d) = <<Up(d), d[2]>> /\ Up(d) \in Upload
  BY DeliveryUpload DEF MarkGenerated, At, UploadInv, DeliveryInv
<1>2. CASE /\ row' = [row EXCEPT ![Up(d)] = [status |-> "sbom-generated", build |-> d[2]]]
           /\ Goto(d, "ok")
  <2>1. /\ row'[Up(d)] = [status |-> "sbom-generated", build |-> d[2]]
        /\ \A u \in Upload \ {Up(d)} : row'[u] = row[u]
        /\ row' \in [Upload -> [status : Status, build : BuildNo \cup {0}]]
    BY <1>1, <1>2 DEF UploadInv, UploadTypeOK, Status
  <2>2. /\ step' \in [Delivery -> JobStage]
        /\ step'[d] = "ok" /\ \A e \in Delivery \ {d} : step'[e] = step[e]
    BY <1>2, GotoSteps DEF JobStage
  <2>3. UNCHANGED <<queueVars, builds, sbom, s3url, sent, coming>>
    BY DEF MarkGenerated
  <2>4. UploadTypeOK'
    BY <2>1, <2>2, <2>3 DEF UploadInv, UploadTypeOK
  <2>5. d[2] # 0
    BY <1>1, UploadAssumption, QueueAssumption DEF BuildNo
  <2>6. DataGrows
    BY <2>1, <2>3, <2>5 DEF DataGrows
  <2>7. DeliveryInv(d)'
    BY <2>1, <2>2, <2>5 DEF DeliveryInv, Up
  <2>8. RowsPointToStored'
    BY <1>1, <2>1, <2>3 DEF UploadInv, RowsPointToStored
  <2>9. SbomsAnnounced' /\ StatusIsOfItsBuild'
    <3>1. row'[Up(d)].status \notin {"scanning", "scanned"}
      BY <2>1
    <3> QED
      BY <2>1, <2>3, <3>1, AnnouncementsStay, StatusStays
  <2> QED
    BY <2>2, <2>3, <2>4, <2>6, <2>7, <2>8, <2>9, StepOfJob DEF queueVars
<1> QED
  BY <1>1, <1>2, ToCatchInv DEF MarkGenerated

\* The catch clause writes the row or fails to, and keeps the message.
LEMMA CatchErrorInv ==
    ASSUME UploadInv, TypeOK', SentStays, NEW w \in Worker, NEW d \in Delivery,
           CatchError(w, d)
    PROVE  UploadInv'
<1>1. QuietRows
  BY DeliveryUpload, SetStatusRow, SameRows DEF CatchError, Status
<1>2. MoreSent /\ QuietData
  BY NothingSent, SameData DEF CatchError
<1> QED
  BY <1>1, <1>2, ThrowInv DEF CatchError

\* A scan job sends statuses and changes no row.
LEMMA ScanInv ==
    ASSUME UploadInv, TypeOK', SentStays, NEW w \in Worker, NEW d \in Delivery,
           BeginScan(w, d) \/ EndScan(w, d)
    PROVE  UploadInv'
<1>1. ~IsManifest(d) /\ UNCHANGED <<row, builds, sbom, s3url>>
  BY DEF BeginScan, EndScan, At, UploadInv, DeliveryInv
<1>2. QuietRows /\ QuietData
  BY <1>1, SameRows, SameData
<1>3. ASSUME NEW t \in {"scanning", "scanned", "error"}, SendStatus(d, t) PROVE MoreSent
  BY <1>3 DEF SendStatus, Write, MoreSent, UploadInv, UploadTypeOK
<1>4. ASSUME NEW t \in {"scanning", "scanned", "error"}, SendStatus(d, t),
             NEW s \in {"scan", "ok"}, Goto(d, s), UNCHANGED queueVars
      PROVE  UploadInv'
  <2>1. /\ step' \in [Delivery -> JobStage]
        /\ step'[d] = s /\ \A e \in Delivery \ {d} : step'[e] = step[e]
    BY <1>4, GotoSteps DEF JobStage
  <2>2. DeliveryInv(d)'
    BY <1>1, <2>1 DEF DeliveryInv, IsManifest
  <2>3. MoreSent
    BY <1>3, <1>4
  <2> QED
    BY <1>1, <1>2, <1>4, <2>1, <2>2, <2>3, QuietStep DEF queueVars
<1>5. ASSUME SendStatus(d, "error"), Throw(w, d) PROVE UploadInv'
  BY <1>1, <1>2, <1>3, <1>5, ThrowInv
<1> QED
  BY <1>4, <1>5 DEF BeginScan, EndScan

\* A write that arrives changes the status of a row that points to its build.
LEMMA ArriveInv ==
    ASSUME UploadInv, TypeOK', SentStays, NEW p \in coming, Arrive(p)
    PROVE  UploadInv'
<1>1. p \in sent /\ p[1] \in Delivery /\ p[2] \in {"scanning", "scanned", "error"}
  BY DEF UploadInv, UploadTypeOK, Write
<1>2. /\ UNCHANGED <<queueVars, builds, sbom, s3url, step, sent>>
      /\ coming' \subseteq coming
  BY DEF Arrive
<1>3. ASSUME NEW u \in Upload
      PROVE  /\ row'[u].build = row[u].build
             /\ row'[u].status = IF <<u, row[u].build>> = Bld(p[1]) THEN p[2] ELSE row[u].status
  BY DEF Arrive
<1>4. row' \in [Upload -> [status : Status, build : BuildNo \cup {0}]]
  BY <1>1 DEF Arrive, UploadInv, UploadTypeOK, Status
<1>5. UploadTypeOK'
  BY <1>2, <1>4 DEF UploadInv, UploadTypeOK
<1>6. DataGrows
  BY <1>2, <1>3 DEF DataGrows
<1>7. StatusIsOfItsBuild'
  <2> SUFFICES ASSUME NEW u \in Upload, row'[u].status \in {"scanning", "scanned"}
               PROVE  \E q \in sent : Bld(q[1]) = <<u, row[u].build>> /\ q[2] = row'[u].status
    BY <1>2, <1>3 DEF StatusIsOfItsBuild, Reported
  <2>1. CASE <<u, row[u].build>> = Bld(p[1])
    BY <1>1, <1>3, <2>1
  <2>2. CASE <<u, row[u].build>> # Bld(p[1])
    BY <1>3, <2>2 DEF UploadInv, StatusIsOfItsBuild, Reported
  <2> QED
    BY <2>1, <2>2
<1>8. RowsPointToStored' /\ SbomsAnnounced'
  BY <1>2, <1>3, <1>6, BuildsOfRowsStay, AnnouncementsStay
<1>9. /\ \A d \in Delivery : DeliveryInv(d)'
      /\ DeletedHaveBuild'
  BY <1>2, <1>6, OtherDeliveries, NoDeletion DEF UploadInv, queueVars
<1> QED
  BY <1>5, <1>7, <1>8, <1>9 DEF UploadInv

\* The message is deleted by a job that has given the row a build.
LEMMA SettleInv ==
    ASSUME UploadInv, TypeOK', SentStays, NEW w \in Worker, NEW d \in Delivery, Settle(w, d)
    PROVE  UploadInv'
<1>1. UNCHANGED <<row, builds, sbom, s3url, sent, coming>> /\ Goto(d, "none")
  BY DEF Settle
<1>2. /\ step' \in [Delivery -> JobStage]
      /\ step'[d] = "none" /\ \A e \in Delivery \ {d} : step'[e] = step[e]
  BY <1>1, GotoSteps DEF JobStage
<1>3. UploadTypeOK' /\ DataGrows
  BY <1>1, <1>2 DEF UploadInv, UploadTypeOK, DataGrows
<1>4. ASSUME NEW e \in Delivery PROVE DeliveryInv(e)'
  <2>1. step'[e] \in {step[e], "none"}
    BY <1>2
  <2> QED
    BY <1>3, <2>1, OtherDeliveries DEF UploadInv
<1>5. RowsPointToStored' /\ SbomsAnnounced' /\ StatusIsOfItsBuild'
  BY <1>1, <1>3, BuildsOfRowsStay, AnnouncementsStay, StatusStays
<1>6. DeletedHaveBuild'
  <2> SUFFICES ASSUME NEW u \in Upload, status'[ManifestMsg(u)] = "deleted"
               PROVE  row[u].build # 0
    BY <1>1 DEF DeletedHaveBuild, ManifestMsg
  <2>1. ManifestMsg(u) \in Message
    BY UploadAssumption DEF UploadMessage
  <2>2. CASE d[1] = ManifestMsg(u)
    <3>1. IsManifest(d) /\ Up(d) = u
      BY <2>2 DEF IsManifest, Up, ManifestMsg
    <3> QED
      BY <3>1 DEF Settle, At, UploadInv, DeliveryInv
  <2>3. CASE d[1] # ManifestMsg(u)
    <3>1. status[ManifestMsg(u)] = "deleted"
      BY <2>1, <2>3 DEF Settle, Succeed, UploadInv, UploadTypeOK, TypeOK
    <3> QED
      BY <3>1 DEF UploadInv, DeletedHaveBuild
  <2> QED
    BY <2>2, <2>3
<1> QED
  BY <1>3, <1>4, <1>5, <1>6 DEF UploadInv

\* The browser, the poll loop, its timer, SQS and crashes.
LEMMA SurroundingsInv ==
    ASSUME UploadInv, TypeOK', SentStays,
           \/ \E u \in Upload : InsertManifest(u) \/ PutFile(u)
           \/ \E m \in Message : Sqs(m)
           \/ \E w \in Worker : Poll(w) \/ Timer(w) \/ Die(w)
    PROVE  UploadInv'
<1> USE DEF UploadInv
<1>1. UNCHANGED <<builds, sbom, s3url, sent, coming>>
  BY DEF InsertManifest, PutFile, Sqs, Poll, Timer, Die, uploadVars
<1>2. QuietRows
  <2>1. CASE \E u \in Upload : InsertManifest(u)
    BY <2>1, SetStatusRow DEF InsertManifest, Status
  <2>2. CASE ~\E u \in Upload : InsertManifest(u)
    BY <2>2, SameRows DEF PutFile, Sqs, Poll, Timer, Die, uploadVars
  <2> QED
    BY <2>1, <2>2
<1>3. /\ step' \in [Delivery -> JobStage]
      /\ \A d \in Delivery : step'[d] \in {step[d], "none", "start"}
  BY DEF InsertManifest, PutFile, Sqs, Poll, Timer, Die, uploadVars, UploadTypeOK, JobStage
<1>4. \A m \in Message : status'[m] = "deleted" => status[m] = "deleted"
  BY DEF InsertManifest, PutFile, Send, Sqs, VisibilityExpires, Redrive, Poll, Receive, Timer,
         JobTimeout, Die, Crash, queueVars, UploadTypeOK, TypeOK
<1>5. UploadTypeOK'
  BY <1>1, <1>2, <1>3 DEF UploadTypeOK, QuietRows
<1> QED
  BY <1>1, <1>2, <1>3, <1>4, <1>5, StepOfQueue DEF QuietRows

\* The invariant survives every step.
LEMMA StepInv ==
    ASSUME UploadInv, [UploadNext]_vars
    PROVE  UploadInv'
<1>1. [Next]_queueVars
  BY UploadStepIsQueueStep
<1>2. TypeOK' /\ SentStays
  BY <1>1, StepType, StepKeepsSent DEF UploadInv, UploadTypeOK
<1>3. ASSUME NEW w \in Worker, NEW d \in Jobs(w), JobStep(w, d) PROVE UploadInv'
  <2>1. d \in Delivery
    BY JobIsDelivery DEF UploadInv, UploadTypeOK
  <2> QED
    BY <1>2, <1>3, <2>1, MarkProcessingInv, InsertBuildInv, GenerateInv, UploadSbomInv,
       SetS3UrlInv, MarkGeneratedInv, CatchErrorInv, ScanInv, SettleInv DEF JobStep
<1>4. ASSUME NEW p \in coming, Arrive(p) PROVE UploadInv'
  BY <1>2, <1>4, ArriveInv
<1>5. CASE UNCHANGED vars
  <2>1. UNCHANGED <<status, row, builds, sbom, s3url, step, sent, coming>>
    BY <1>5 DEF vars, queueVars, uploadVars
  <2>2. UploadTypeOK'
    BY <1>2, <2>1 DEF UploadInv, UploadTypeOK
  <2>3. \A d \in Delivery : step'[d] \in {step[d], "none", "start"}
    BY <2>1
  <2> QED
    BY <1>2, <2>1, <2>2, <2>3, StepOfQueue
<1> QED
  BY <1>2, <1>3, <1>4, <1>5, SurroundingsInv DEF UploadNext

\* At the start nothing is stored and no job runs.
LEMMA InitInv == UploadInit => UploadInv
<1> SUFFICES ASSUME UploadInit PROVE UploadInv
  OBVIOUS
<1>1. TypeOK
  BY LimitType DEF UploadInit, Init, TypeOK
<1>2. \A m \in Message : status[m] = "unsent"
  BY DEF UploadInit, Init
<1>3. UploadTypeOK
  BY <1>1 DEF UploadInit, UploadTypeOK, Status, JobStage
<1>4. \A d \in Delivery : DeliveryInv(d)
  BY DEF UploadInit, DeliveryInv
<1>5. DeletedHaveBuild
  BY <1>2, UploadAssumption DEF DeletedHaveBuild, UploadMessage
<1>6. SbomsAnnounced /\ RowsPointToStored /\ StatusIsOfItsBuild
  BY DEF UploadInit, SbomsAnnounced, RowsPointToStored, StatusIsOfItsBuild
<1> QED
  BY <1>3, <1>4, <1>5, <1>6 DEF UploadInv

\* The inductive invariant holds in every reachable state.
LEMMA Invariant == UploadSpec => []UploadInv
  BY InitInv, StepInv, PTL DEF UploadSpec

\* Whatever the jobs store, the messages behave as QueueWorker says of them: its
\* theorems hold of uploads too.
THEOREM UploadIsQueueWorker == UploadSpec => Spec
<1>1. UploadInit => Init
  BY DEF UploadInit
<1> QED
  BY <1>1, Invariant, UploadStepIsQueueStep, PTL DEF UploadSpec, Spec

\* Builds, SBOMs, urls and writes keep their types and depend on each other as stated.
THEOREM UploadTypeCorrect == UploadSpec => []UploadTypeOK
<1>1. UploadInv => UploadTypeOK
  BY DEF UploadInv
<1> QED
  BY <1>1, Invariant, PTL

\* No upload is forgotten before its row points to a stored and announced build.
THEOREM UploadsAreKept == UploadSpec => []UploadNotLost
<1>1. UploadInv => UploadNotLost
  <2> SUFFICES ASSUME UploadInv, NEW u \in Upload, status[ManifestMsg(u)] = "deleted"
               PROVE  /\ <<u, row[u].build>> \in sbom \cap s3url
                      /\ status[SbomMsg(u, row[u].build)] # "unsent"
    BY DEF UploadNotLost
  <2>1. <<u, row[u].build>> \in sbom \cap s3url
    BY DEF UploadInv, DeletedHaveBuild, RowsPointToStored
  <2> QED
    BY <2>1 DEF UploadInv, SbomsAnnounced
<1> QED
  BY <1>1, Invariant, PTL

\* No row shows the progress of another build than its own.
THEOREM StatusesAreOfTheirBuild == UploadSpec => []StatusIsOfItsBuild
<1>1. UploadInv => StatusIsOfItsBuild
  BY DEF UploadInv
<1> QED
  BY <1>1, Invariant, PTL
-----------------------------------------------------------------------------
\* Two things the code does not see to, and what they would give.

Arrived == sent \ coming

\* What a scan job sends last says that the scan is over.
IsOver(s) == s # "scanning"

\* A row is pointed to a build before the scan of the build writes anything.
PointedBeforeScan ==
    \A u \in Upload : row'[u] # row[u] /\ row'[u].status = "sbom-generated" =>
        \A p \in sent : Bld(p[1]) # <<u, row'[u].build>>

\* "scanning" does not arrive when the table was told already that the scan is over.
ArriveInOrder ==
    \A q \in coming : Arrive(q) /\ ~IsOver(q[2]) =>
        \A p \in Arrived : Bld(p[1]) = Bld(q[1]) => ~IsOver(p[2])

\* The end of a scan of build b was reported.
EndReported(b) == \E p \in sent : Bld(p[1]) = b /\ IsOver(p[2])

\* A scan's message is deleted only after the end of the scan was reported.
ScanEndsReported ==
    /\ \A d \in Delivery : step[d] = "ok" /\ ~IsManifest(d) => EndReported(Bld(d))
    /\ \A u \in Upload, n \in BuildNo :
          status[SbomMsg(u, n)] = "deleted" => EndReported(<<u, n>>)

\* The page of a row that waits for the scan of a build does so rightly: the table
\* was not told of its end yet.
RowWaitsRightly(u) ==
    row[u].status \in {"sbom-generated", "scanning"} =>
        /\ row[u].build # 0
        /\ \A p \in Arrived : Bld(p[1]) = <<u, row[u].build>> => ~IsOver(p[2])

\* A delivery on the SBOM queue is one of its build's message.
LEMMA ScanDelivery ==
    ASSUME NEW d \in Delivery, NEW u \in Upload, NEW n \in BuildNo, d[1] = SbomMsg(u, n)
    PROVE  ~IsManifest(d) /\ Bld(d) = <<u, n>>
  BY DEF IsManifest, SbomMsg, Bld, Up

\* A step that brings no scan job to its end and deletes no message keeps the reports.
LEMMA ReportsStay ==
    ASSUME ScanEndsReported, sent \subseteq sent',
           \A d \in Delivery : step'[d] = "ok" /\ ~IsManifest(d) =>
               step[d] = "ok" \/ EndReported(Bld(d))',
           \A u \in Upload, n \in BuildNo : status'[SbomMsg(u, n)] = "deleted" =>
               status[SbomMsg(u, n)] = "deleted" \/ EndReported(<<u, n>>)
    PROVE  ScanEndsReported'
<1>1. ASSUME NEW d \in Delivery, step'[d] = "ok", ~IsManifest(d) PROVE EndReported(Bld(d))'
  BY <1>1 DEF ScanEndsReported, EndReported
<1>2. ASSUME NEW u \in Upload, NEW n \in BuildNo, status'[SbomMsg(u, n)] = "deleted"
      PROVE  EndReported(<<u, n>>)'
  BY <1>2 DEF ScanEndsReported, EndReported
<1> QED
  BY <1>1, <1>2 DEF ScanEndsReported, IsManifest, Bld, Up, SbomMsg

\* No step of a job is an exception: scans report their end and then delete.
LEMMA JobReports ==
    ASSUME UploadInv, ScanEndsReported, NEW w \in Worker, NEW d \in Delivery, JobStep(w, d)
    PROVE  ScanEndsReported'
<1>1. ASSUME NEW e \in Delivery \ {d} PROVE step'[e] = step[e]
  <2>1. step \in [Delivery -> JobStage]
    BY DEF UploadInv, UploadTypeOK
  <2>2. \E s \in JobStage : Goto(d, s)
    BY DEF JobStep, MarkProcessing, InsertBuild, Generate, UploadSbom, SetS3Url, MarkGenerated,
           CatchError, BeginScan, EndScan, Settle, Throw, JobStage
  <2> QED
    BY <2>1, <2>2 DEF Goto
<1>2. CASE \/ MarkProcessing(w, d) \/ InsertBuild(w, d) \/ Generate(w, d)
           \/ SetS3Url(w, d) \/ MarkGenerated(w, d) \/ CatchError(w, d) \/ UploadSbom(w, d)
  <2>1. IsManifest(d) /\ sent' = sent
    BY <1>2 DEF MarkProcessing, InsertBuild, Generate, UploadSbom, SetS3Url, MarkGenerated,
                CatchError, At, UploadInv, DeliveryInv
  <2>2. \A m \in Message : status'[m] = "deleted" => status[m] = "deleted"
    BY <1>2 DEF MarkProcessing, InsertBuild, Generate, UploadSbom, SetS3Url, MarkGenerated,
                CatchError, Throw, Fail, Send, queueVars, UploadInv, UploadTypeOK, TypeOK
  <2>3. \A u \in Upload, n \in BuildNo : SbomMsg(u, n) \in Message
    BY UploadAssumption DEF UploadMessage
  <2> QED
    BY <1>1, <2>1, <2>2, <2>3, ReportsStay
<1>3. CASE BeginScan(w, d) \/ EndScan(w, d)
  <2>1. sent \subseteq sent' /\ status' = status
    BY <1>3 DEF BeginScan, EndScan, SendStatus, Throw, Fail, queueVars
  <2>2. step'[d] = "ok" => EndReported(Bld(d))'
    <3>1. step'[d] = "ok" => SendStatus(d, "scanned") \/ SendStatus(d, "error")
      BY <1>3 DEF BeginScan, EndScan, Throw, Goto, UploadInv, UploadTypeOK
    <3>2. ASSUME NEW t, IsOver(t), SendStatus(d, t) PROVE EndReported(Bld(d))'
      <4>1. <<d, t>> \in sent'
        BY <3>2 DEF SendStatus
      <4> QED
        BY <3>2, <4>1 DEF EndReported, Bld, Up, IsManifest
    <3> QED
      BY <3>1, <3>2 DEF IsOver
  <2> QED
    BY <1>1, <2>1, <2>2, ReportsStay
<1>4. CASE Settle(w, d)
  <2>1. /\ step[d] = "ok" /\ step'[d] = "none" /\ sent' = sent
        /\ \A m \in Message \ {d[1]} : status'[m] = "deleted" => status[m] = "deleted"
    BY <1>4 DEF Settle, At, Goto, Succeed, UploadInv, UploadTypeOK, TypeOK
  <2>2. ASSUME NEW u \in Upload, NEW n \in BuildNo, status'[SbomMsg(u, n)] = "deleted"
        PROVE  status[SbomMsg(u, n)] = "deleted" \/ EndReported(<<u, n>>)
    <3>1. SbomMsg(u, n) \in Message
      BY UploadAssumption DEF UploadMessage
    <3> QED
      BY <2>1, <2>2, <3>1, ScanDelivery DEF ScanEndsReported
  <2> QED
    BY <1>1, <2>1, <2>2, ReportsStay
<1> QED
  BY <1>2, <1>3, <1>4 DEF JobStep

\* The scan queue forgets a build only when the end of its scan was reported,
\* although nobody waits for the report to arrive.
LEMMA ScansReportTheirEnd == UploadSpec => []ScanEndsReported
<1>1. UploadInit => ScanEndsReported
  <2>1. UploadInit => \A m \in Message : status[m] = "unsent"
    BY DEF UploadInit, Init
  <2>2. \A u \in Upload, n \in BuildNo : SbomMsg(u, n) \in Message
    BY UploadAssumption DEF UploadMessage
  <2> QED
    BY <2>1, <2>2 DEF UploadInit, ScanEndsReported
<1>2. UploadInv /\ ScanEndsReported /\ [UploadNext]_vars => ScanEndsReported'
  <2> SUFFICES ASSUME UploadInv, ScanEndsReported, [UploadNext]_vars PROVE ScanEndsReported'
    OBVIOUS
  <2>1. ASSUME NEW w \in Worker, NEW d \in Jobs(w), JobStep(w, d) PROVE ScanEndsReported'
    BY <2>1, JobReports, JobIsDelivery DEF UploadInv, UploadTypeOK
  <2>2. CASE \/ \E u \in Upload : InsertManifest(u) \/ PutFile(u)
             \/ \E p \in coming : Arrive(p)
             \/ \E m \in Message : Sqs(m)
             \/ \E w \in Worker : Poll(w) \/ Timer(w) \/ Die(w)
             \/ UNCHANGED vars
    <3>1. sent' = sent /\ \A d \in Delivery : step'[d] = "ok" => step[d] = "ok"
      BY <2>2 DEF InsertManifest, PutFile, Arrive, Sqs, Poll, Timer, Die, uploadVars, vars
    <3>2. \A m \in Message : status'[m] = "deleted" => status[m] = "deleted"
      BY <2>2 DEF InsertManifest, PutFile, Arrive, Send, Sqs, VisibilityExpires, Redrive, Poll,
                  Receive, Timer, JobTimeout, Die, Crash, queueVars, vars, UploadInv,
                  UploadTypeOK, TypeOK
    <3>3. \A u \in Upload, n \in BuildNo : SbomMsg(u, n) \in Message
      BY UploadAssumption DEF UploadMessage
    <3> QED
      BY <3>1, <3>2, <3>3, ReportsStay
  <2> QED
    BY <2>1, <2>2 DEF UploadNext
<1> QED
  BY <1>1, <1>2, Invariant, PTL DEF UploadSpec

\* A write that arrives in order ends the wait, or tells of a scan that is not over.
LEMMA ArrivesRightly ==
    ASSUME UploadInv, NEW p \in coming, Arrive(p), ArriveInOrder,
           NEW u \in Upload, RowWaitsRightly(u)
    PROVE  RowWaitsRightly(u)'
<1>1. /\ row'[u].build = row[u].build
      /\ row'[u].status = IF <<u, row[u].build>> = Bld(p[1]) THEN p[2] ELSE row[u].status
      /\ Arrived' = Arrived \cup {p}
  BY DEF Arrive, Arrived, UploadInv, UploadTypeOK
<1>2. p[1] \in Delivery /\ p[2] \in {"scanning", "scanned", "error"}
  BY DEF UploadInv, UploadTypeOK, Write
<1>3. CASE <<u, row[u].build>> = Bld(p[1])
  <2>1. row[u].build # 0
    BY <1>2, <1>3, DeliveryUpload DEF BuildNo
  <2>2. ~IsOver(p[2]) => \A q \in Arrived : Bld(q[1]) = <<u, row[u].build>> => ~IsOver(q[2])
    BY <1>3 DEF ArriveInOrder
  <2> QED
    BY <1>1, <1>2, <1>3, <2>1, <2>2 DEF RowWaitsRightly, IsOver, Bld, Up, IsManifest
<1>4. CASE <<u, row[u].build>> # Bld(p[1])
  BY <1>1, <1>4 DEF RowWaitsRightly, IsOver, Bld, Up, IsManifest
<1> QED
  BY <1>3, <1>4

\* Other steps tell the table of no scan; those that change a row either end the wait
\* or begin one for a scan that has told nothing.
LEMMA WaitsRightly ==
    ASSUME UploadInv, NEW u \in Upload, RowWaitsRightly(u), Arrived' \subseteq Arrived,
           \/ row'[u] = row[u]
           \/ row'[u].status \notin {"sbom-generated", "scanning"}
           \/ /\ row'[u].build # 0
              /\ \A p \in sent : Bld(p[1]) # <<u, row'[u].build>>
    PROVE  RowWaitsRightly(u)'
  BY DEF RowWaitsRightly, Arrived, IsOver, Bld, Up, IsManifest

\* The steps of jobs are of that kind if the row is pointed in time.
LEMMA JobsWaitRightly ==
    ASSUME UploadInv, NEW w \in Worker, NEW d \in Delivery, JobStep(w, d), PointedBeforeScan,
           NEW u \in Upload, RowWaitsRightly(u)
    PROVE  RowWaitsRightly(u)'
<1>1. Arrived' \subseteq Arrived
  BY DEF JobStep, MarkProcessing, InsertBuild, Generate, UploadSbom, SetS3Url, MarkGenerated,
         CatchError, BeginScan, EndScan, Settle, SendStatus, Arrived
<1>2. row \in [Upload -> [status : Status, build : BuildNo \cup {0}]]
  BY DEF UploadInv, UploadTypeOK
<1>3. ASSUME NEW s \in {"sbom-processing", "error"}, SetStatus(Up(d), s)
      PROVE  row'[u] = row[u] \/ row'[u].status \notin {"sbom-generated", "scanning"}
  <2>1. row' = [row EXCEPT ![Up(d)] = [row[Up(d)] EXCEPT !.status = s]]
    BY <1>2, <1>3, DeliveryUpload DEF SetStatus
  <2> QED
    BY <1>2, <2>1
<1>4. CASE MarkGenerated(w, d)
  <2>1. IsManifest(d) /\ d[2] \in BuildNo
    BY <1>4, DeliveryUpload DEF MarkGenerated, At, UploadInv, DeliveryInv
  <2>2. d[2] # 0
    BY <2>1 DEF BuildNo
  <2>3. \/ row'[u] = row[u]
        \/ row'[u] = [status |-> "sbom-generated", build |-> d[2]]
    BY <1>2, <1>4 DEF MarkGenerated
  <2> QED
    BY <1>1, <2>2, <2>3, WaitsRightly DEF PointedBeforeScan
<1>5. CASE ~MarkGenerated(w, d)
  <2>1. \/ row' = row
        \/ \E s \in {"sbom-processing", "error"} : SetStatus(Up(d), s)
    BY <1>5 DEF JobStep, MarkProcessing, InsertBuild, Generate, UploadSbom, SetS3Url,
                CatchError, BeginScan, EndScan, Settle
  <2> QED
    BY <1>1, <1>3, <2>1, WaitsRightly
<1> QED
  BY <1>4, <1>5

\* If rows were pointed to their builds before scans begin, and the writes of scans
\* arrived in order, no page would wait for a scan that is over.
THEOREM OrderedWritesEndTheWait ==
    UploadSpec /\ [][PointedBeforeScan]_vars /\ [][ArriveInOrder]_vars => []UploadsEndShown
<1> DEFINE Rightly == \A u \in Upload : RowWaitsRightly(u)
<1>1. UploadInit => Rightly
  BY DEF UploadInit, RowWaitsRightly
<1>2. /\ UploadInv /\ Rightly
      /\ [UploadNext]_vars /\ [PointedBeforeScan]_vars /\ [ArriveInOrder]_vars
      => Rightly'
  <2> SUFFICES ASSUME UploadInv, Rightly, [UploadNext]_vars, [PointedBeforeScan]_vars,
                      [ArriveInOrder]_vars, NEW u \in Upload
               PROVE  RowWaitsRightly(u)'
    OBVIOUS
  <2>1. CASE UNCHANGED vars
    <3>1. row' = row /\ sent' = sent /\ coming' = coming
      BY <2>1 DEF vars, uploadVars
    <3> QED
      BY <3>1, WaitsRightly DEF Arrived
  <2>2. ASSUME NEW p \in coming, Arrive(p) PROVE RowWaitsRightly(u)'
    <3>1. coming' # coming
      BY <2>2 DEF Arrive
    <3>2. ArriveInOrder
      BY <3>1 DEF vars, uploadVars
    <3> QED
      BY <2>2, <3>2, ArrivesRightly
  <2>3. ASSUME NEW w \in Worker, NEW d \in Jobs(w), JobStep(w, d), ~UNCHANGED vars
        PROVE  RowWaitsRightly(u)'
    BY <2>3, JobIsDelivery, JobsWaitRightly DEF UploadInv, UploadTypeOK
  <2>4. ASSUME NEW v \in Upload, InsertManifest(v) PROVE RowWaitsRightly(u)'
    <3>1. row \in [Upload -> [status : Status, build : BuildNo \cup {0}]]
      BY DEF UploadInv, UploadTypeOK
    <3>2. row'[u] = row[u] \/ row'[u].status = "new"
      BY <2>4, <3>1 DEF InsertManifest, SetStatus
    <3> QED
      BY <2>4, <3>2, WaitsRightly DEF InsertManifest, Arrived
  <2>5. CASE \/ \E v \in Upload : PutFile(v)
             \/ \E m \in Message : Sqs(m)
             \/ \E w \in Worker : Poll(w) \/ Timer(w) \/ Die(w)
    <3>1. row' = row /\ sent' = sent /\ coming' = coming
      BY <2>5 DEF PutFile, Sqs, Poll, Timer, Die, uploadVars
    <3> QED
      BY <3>1, WaitsRightly DEF Arrived
  <2> QED
    BY <2>1, <2>2, <2>3, <2>4, <2>5 DEF UploadNext
<1>3. UploadInv /\ ScanEndsReported /\ Rightly => UploadsEndShown
  <2> SUFFICES ASSUME UploadInv, ScanEndsReported, Rightly, NEW u \in Upload, AtRest(u),
                      row[u].status \in {"sbom-generated", "scanning"}
               PROVE  FALSE
    BY DEF UploadsEndShown
  <2> DEFINE n == row[u].build
  <2>1. n \in BuildNo /\ <<u, n>> \in sbom
    BY DEF RowWaitsRightly, UploadInv, UploadTypeOK, RowsPointToStored
  <2>2. SbomMsg(u, n) \in Message /\ status[SbomMsg(u, n)] # "unsent"
    BY <2>1, UploadAssumption DEF UploadMessage, UploadInv, SbomsAnnounced
  <2>3. status[SbomMsg(u, n)] = "deleted"
    BY <2>2 DEF AtRest, SbomMsg
  <2>4. PICK p \in sent : Bld(p[1]) = <<u, n>> /\ IsOver(p[2])
    BY <2>1, <2>3 DEF ScanEndsReported, EndReported
  <2>5. p \in Arrived
    BY DEF AtRest, Arrived
  <2> QED
    BY <2>4, <2>5 DEF RowWaitsRightly
<1> QED
  BY <1>1, <1>2, <1>3, Invariant, ScansReportTheirEnd, PTL DEF UploadSpec
=============================================================================
