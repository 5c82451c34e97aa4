------------------------- MODULE ManifestUpload -------------------------
(***************************************************************************)
(* A manifest file dropped on the project page.  The browser inserts a     *)
(* manifests row, puts the file into S3 and polls the row.  A manifest job *)
(* (snapshot-manifest-activity.ts) makes a new build of every delivery of  *)
(* the S3 event, uploads its SBOM and points the row to the build; a scan  *)
(* job, started by the SBOM's own S3 event, writes the row through the     *)
(* build id.  Those writes are not awaited (update-manifest-status.ts):    *)
(* they arrive in any order, and change nothing while the row points to    *)
(* another build or to none.                                               *)
(***************************************************************************)
EXTENDS QueueWorker

CONSTANT Upload   \* files dropped; each has an S3 key of its own (uuid)

VARIABLES
    row,      \* the manifests row of each upload: its status and build_id
    builds,   \* rows of builds: <<u, n>> was inserted by the n-th delivery of u
    sbom,     \* builds whose SBOM is in S3
    s3url,    \* builds with s3_url set
    step,     \* how far the job of each delivery is
    sent,     \* status writes a scan job has sent, <<delivery, status>>
    coming    \* those of them that have not reached the table yet

uploadVars == <<row, builds, sbom, s3url, step, sent, coming>>
vars == <<queueVars, uploadVars>>

ManifestMsg(u) == <<"manifest", u, 0>>
SbomMsg(u, n) == <<"sbom", u, n>>
BuildNo == 1..MaxReceives["manifest"]
UploadMessage ==
    {ManifestMsg(u) : u \in Upload} \cup {SbomMsg(u, n) : u \in Upload, n \in BuildNo}

ASSUME UploadAssumption ==
    /\ "manifest" \in Queue
    /\ Message = UploadMessage
    /\ \A u \in Upload : QueueOf[ManifestMsg(u)] = "manifest"

IsManifest(d) == d[1][1] = "manifest"
Up(d) == d[1][2]
\* The build a manifest job inserts, or a scan job scans.
Bld(d) == IF IsManifest(d) THEN <<Up(d), d[2]>> ELSE <<Up(d), d[1][3]>>

Status == {"absent", "new", "sbom-processing", "sbom-generated", "scanning", "scanned", "error"}
JobStage == {"none", "start", "insert", "generate", "upload", "seturl", "generated", "catch",
             "scan", "ok"}

UploadInit ==
    /\ Init
    /\ row = [u \in Upload |-> [status |-> "absent", build |-> 0]]
    /\ builds = {} /\ sbom = {} /\ s3url = {}
    /\ step = [d \in Delivery |-> "none"]
    /\ sent = {} /\ coming = {}

At(w, d, s) == d \in Jobs(w) /\ step[d] = s
Goto(d, s) == step' = [step EXCEPT ![d] = s]

\* UpdateManifest(key, status), which leaves build_id as it is.
SetStatus(u, s) == row' = [row EXCEPT ![u].status = s]

\* updateManifestStatus: sent, not waited for.
SendStatus(d, s) == sent' = sent \cup {<<d, s>>} /\ coming' = coming \cup {<<d, s>>}
-----------------------------------------------------------------------------
(* The browser (ManifestDrop.tsx)                                          *)

\* A presigned url for a new key, then the row; either may fail and end it.
InsertManifest(u) ==
    /\ row[u].status = "absent"
    /\ SetStatus(u, "new")
    /\ UNCHANGED <<queueVars, builds, sbom, s3url, step, sent, coming>>

\* The PUT, which makes S3 send its event.
PutFile(u) ==
    /\ row[u].status = "new"
    /\ Send(ManifestMsg(u))
    /\ UNCHANGED uploadVars
-----------------------------------------------------------------------------
(* S3 event of the manifest bucket: snapshotManifestActivity               *)

\* The job ends with an error, and its message stays.
Throw(w, d) == Fail(w, d) /\ Goto(d, "none")

\* Neither of the first two requests is inside the try statement.
MarkProcessing(w, d) ==
    /\ At(w, d, "start") /\ IsManifest(d)
    /\ \/ SetStatus(Up(d), "sbom-processing") /\ Goto(d, "insert") /\ UNCHANGED queueVars
       \/ Throw(w, d) /\ UNCHANGED row
    /\ UNCHANGED <<builds, sbom, s3url, sent, coming>>

InsertBuildNever(w, d) ==
    /\ At(w, d, "insert")
    /\ \/ Goto(d, "generate") /\ UNCHANGED queueVars
       \/ Throw(w, d)
    /\ UNCHANGED <<row, builds, sbom, s3url, sent, coming>>

InsertBuild(w, d) ==
    /\ At(w, d, "insert")
    /\ \/ builds' = builds \cup {Bld(d)} /\ Goto(d, "generate") /\ UNCHANGED queueVars
       \/ Throw(w, d) /\ UNCHANGED builds
    /\ UNCHANGED <<row, sbom, s3url, sent, coming>>

\* getFileFromS3, then the CLI; how the CLI ends is not looked at.
Generate(w, d) ==
    /\ At(w, d, "generate")
    /\ Goto(d, "upload") \/ Goto(d, "catch")
    /\ UNCHANGED <<queueVars, row, builds, sbom, s3url, sent, coming>>

\* uploadGzipFileToS3 makes S3 announce the SBOM.
UploadSbom(w, d) ==
    /\ At(w, d, "upload")
    /\ \/ /\ Send(SbomMsg(Up(d), d[2]))
          /\ sbom' = sbom \cup {Bld(d)}
          /\ Goto(d, "seturl")
       \/ Goto(d, "catch") /\ UNCHANGED <<queueVars, sbom>>
    /\ UNCHANGED <<row, builds, s3url, sent, coming>>

SetS3Url(w, d) ==
    /\ At(w, d, "seturl")
    /\ \/ s3url' = s3url \cup {Bld(d)} /\ Goto(d, "generated")
       \/ Goto(d, "catch") /\ UNCHANGED s3url
    /\ UNCHANGED <<queueVars, row, builds, sbom, sent, coming>>

\* UpdateManifest(key, 'sbom-generated', build_id): the row points to the build
\* from here on, and its status may be older than the scan's.
MarkGenerated(w, d) ==
    /\ At(w, d, "generated")
    /\ \/ /\ row' = [row EXCEPT ![Up(d)] = [status |-> "sbom-generated", build |-> d[2]]]
          /\ Goto(d, "ok")
       \/ Goto(d, "catch") /\ UNCHANGED row
    /\ UNCHANGED <<queueVars, builds, sbom, s3url, sent, coming>>

CatchErrorSwallowed(w, d) ==
    /\ At(w, d, "catch")
    /\ SetStatus(Up(d), "error")
    /\ Goto(d, "ok")
    /\ UNCHANGED <<queueVars, builds, sbom, s3url, sent, coming>>

\* The "last ditch attempt": with or without the write, the job ends in error.
CatchError(w, d) ==
    /\ At(w, d, "catch")
    /\ SetStatus(Up(d), "error") \/ UNCHANGED row
    /\ Throw(w, d)
    /\ UNCHANGED <<builds, sbom, s3url, sent, coming>>
-----------------------------------------------------------------------------
(* S3 event of the SBOM bucket: scanSnapshotActivity, as far as it writes  *)
(* the manifest; BuildPipeline has the rest of it.                         *)

\* The SBOM is fetched and the scanner started, or an error is thrown, or the file is
\* empty, which ends the job without one.
BeginScan(w, d) ==
    /\ At(w, d, "start") /\ ~IsManifest(d)
    /\ \/ SendStatus(d, "scanning") /\ Goto(d, "scan") /\ UNCHANGED queueVars
       \/ SendStatus(d, "error") /\ Throw(w, d)
       \/ SendStatus(d, "error") /\ Goto(d, "ok") /\ UNCHANGED queueVars
    /\ UNCHANGED <<row, builds, sbom, s3url>>

EndScan(w, d) ==
    /\ At(w, d, "scan")
    /\ \/ SendStatus(d, "scanned") /\ Goto(d, "ok") /\ UNCHANGED queueVars
       \/ SendStatus(d, "error") /\ Throw(w, d)
       \/ SendStatus(d, "error") /\ Goto(d, "ok") /\ UNCHANGED queueVars
    /\ UNCHANGED <<row, builds, sbom, s3url>>

ArriveByUpload(p) ==
    /\ p \in coming
    /\ coming' = coming \ {p}
    /\ row' = [row EXCEPT ![Up(p[1])].status = p[2]]
    /\ UNCHANGED <<queueVars, builds, sbom, s3url, step, sent>>

\* UpdateManifestStatusIfExists updates the rows with this build_id, if there are any.
Arrive(p) ==
    /\ p \in coming
    /\ coming' = coming \ {p}
    /\ row' = [u \in Upload |->
                  [status |-> IF <<u, row[u].build>> = Bld(p[1]) THEN p[2] ELSE row[u].status,
                   build |-> row[u].build]]
    /\ UNCHANGED <<queueVars, builds, sbom, s3url, step, sent>>
-----------------------------------------------------------------------------
(* The worker around the jobs.                                             *)

Poll(w) ==
    /\ \E S \in SUBSET Message :
        /\ Receive(w, S)
        /\ step' = [d \in Delivery |-> IF d \in batch'[w] THEN "start" ELSE step[d]]
    /\ UNCHANGED <<row, builds, sbom, s3url, sent, coming>>

Settle(w, d) ==
    /\ At(w, d, "ok") /\ Succeed(w, d)
    /\ Goto(d, "none")
    /\ UNCHANGED <<row, builds, sbom, s3url, sent, coming>>

Timer(w) == JobTimeout(w) /\ UNCHANGED uploadVars

Sqs(m) == (VisibilityExpires(m) \/ Redrive(m)) /\ UNCHANGED uploadVars

\* A write that is lost with the process is one that never arrives.
Die(w) ==
    /\ Crash(w)
    /\ step' = [d \in Delivery |-> IF d \in Jobs(w) THEN "none" ELSE step[d]]
    /\ UNCHANGED <<row, builds, sbom, s3url, sent, coming>>

JobStep(w, d) ==
    \/ MarkProcessing(w, d) \/ InsertBuild(w, d) \/ Generate(w, d) \/ UploadSbom(w, d)
    \/ SetS3Url(w, d) \/ MarkGenerated(w, d) \/ CatchError(w, d)
    \/ BeginScan(w, d) \/ EndScan(w, d) \/ Settle(w, d)

UploadNext ==
    \/ \E u \in Upload : InsertManifest(u) \/ PutFile(u)
    \/ \E p \in coming : Arrive(p)
    \/ \E m \in Message : Sqs(m)
    \/ \E w \in Worker :
        \/ Poll(w) \/ Timer(w) \/ Die(w)
        \/ \E d \in Jobs(w) : JobStep(w, d)

UploadSpec == UploadInit /\ [][UploadNext]_vars
-----------------------------------------------------------------------------
Write == Delivery \X {"scanning", "scanned", "error"}

\* An SBOM belongs to a build that was inserted, and a url to an SBOM in S3.
UploadTypeOK ==
    /\ TypeOK
    /\ row \in [Upload -> [status : Status, build : BuildNo \cup {0}]]
    /\ builds \subseteq Upload \X BuildNo
    /\ sbom \subseteq builds /\ s3url \subseteq sbom
    /\ step \in [Delivery -> JobStage]
    /\ sent \subseteq Write /\ coming \subseteq sent

\* A file leaves the manifest queue only when its row points to a build whose SBOM
\* is in S3 and was announced, whichever of its deliveries overlap, fail or die, and
\* although each makes a build of its own and rewrites the row.
UploadNotLost ==
    \A u \in Upload : status[ManifestMsg(u)] = "deleted" =>
        /\ <<u, row[u].build>> \in sbom \cap s3url
        /\ status[SbomMsg(u, row[u].build)] # "unsent"

Reported(u, n, s) == \E p \in sent : Bld(p[1]) = <<u, n>> /\ p[2] = s

\* The progress of one build is never shown for another: while several deliveries
\* rewrite the row and the scans of their builds report late and out of order, a row
\* that says scanning or scanned says so of the build it points to.
StatusIsOfItsBuild ==
    \A u \in Upload : row[u].status \in {"scanning", "scanned"} =>
        Reported(u, row[u].build, row[u].status)

\* "Package snapshot complete, waiting for vulnerabilities scan to begin" and
\* "Vulnerability scan started, you will be redirected when complete..." (96 and 99 of
\* ManifestDrop.tsx): no page goes on saying so when the jobs of the upload have ended,
\* none of its messages was given up and no write is on its way.
AtRest(u) ==
    /\ coming = {}
    /\ \A w \in Worker : Jobs(w) = {}
    /\ \A m \in Message : m[2] = u => status[m] \in {"unsent", "deleted"}
UploadsEndShown ==
    \A u \in Upload : AtRest(u) => row[u].status \notin {"sbom-generated", "scanning"}
=============================================================================
