# LunaTrace: a verification project

TLA+ models of LunaTrace (`src/lunatrace/bsl`), the part of this repository that takes a
snapshot of a repository's dependencies, stores their trees, scans them for
vulnerabilities and reports the result. Every definition is translated from the source;
`PROJECT.json` maps each one to the lines it stands for. TLC checks small instances, TLAPS
proves the theorems for every value of the constants.

## 1. The system

A GitHub webhook or a button starts a **build**. The API server inserts a row in `builds`
and sends a `repository-snapshot` message. A **snapshot job** on a Fargate task clones the
repository, has the CLI generate an SBOM, uploads it to S3, parses the lock files, and
stores the dependency trees in Postgres. S3 announces the new SBOM on a second queue; a
**scan job** there matches it with the vulnerabilities, stores a scan, comments on the pull
request and queues vulnerable edges for static analysis, which a Go worker performs. Other
Go programs fill the package and vulnerability tables the scans and tree queries read.

| Component | State | Operations | Hard part | Correct when | Status |
|---|---|---|---|---|---|
| Dependency graph store: `snapshot/node-package-tree.ts`, `database/dependency-relationship-dag-calculator.ts` | tables `manifest_dependency_node`, `_edge`, `package.package`, `package.release`, `resolved_manifest`; per job the map of unknown nodes and an open transaction | collect trees, ask which ids are known, insert packages, releases, nodes and edges in a transaction, insert manifests in a second one | jobs share rows, the reads are outside the transaction, row locks, redelivery | the committed graph has no holes, a stored manifest loads, jobs end | modelled |
| Queue worker: `workers/queue/handler.ts`, `queue-processors/` | SQS messages with receive counts, jobs being waited for, jobs running on | read, run jobs, race with a timer, delete | jobs outlive the timer and the visibility timeout, tasks die | no message vanishes, none stays for ever | modelled |
| Build pipeline: `activities/snapshot-repository-activity.ts`, `scan-snapshot-activity.ts`, `snapshot/generate-snapshot.ts`, `analysis/scan.ts`, `hasura-api/actions/update-build-status.ts` | S3 objects, `s3_url`, trees, manifests, scans, build log | the jobs' steps | scan and snapshot of one build overlap, status writes are not awaited, every step may fail or repeat | a message is forgotten only with its work stored, reports are true | partly |
| Manifest upload: `activities/snapshot-manifest-activity.ts` | `manifests` rows, one build per upload | presign, S3 event, generate, status writes | repeated events, two jobs writing one status | a file is forgotten only with its SBOM stored, a status is of the build that is shown | modelled |
| GitHub webhooks: `github/webhooks/`, `github/actions/` | `webhook_cache`, builds | verify, cache, queue, dispatch | SQS send not awaited, handler errors swallowed | a webhook is forgotten only after its handler ended; one about something known is served; no second first build | partly |
| Pull request reports: `github/actions/pr-comment-generator.ts` | reviews on GitHub, `existing_github_review_id` | find, add, update, save the id | two scans of one pull request, a crash before the id is saved | a saved id names a review that shows the build, and is found | modelled |
| Static analysis queue: `analysis/static-analysis.ts`, `ingest-worker/pkg/queuefx`, `staticanalysis` | messages, results per edge | look up, queue, analyse, store | lookup before queueing, a panic acknowledges the message | each vulnerable edge of a tree that was found gets a result | modelled |
| npm replicator: `pkg/metadata/replicator` | `npm.revision`, the change feed's sequence | follow, batch, resume | concurrent ranges, resumption at the greatest sequence | no change is skipped | not modelled |
| Package and vulnerability ingesters: `pkg/metadata/ingester`, `pkg/vulnerability` | packages, releases, fetch times | fetch, upsert | an error after the fetch time is stored | fetched means ingested | not modelled |
| Vulnerability dependency tree: `models/vulnerability-dependency-tree` | none (pure) | chains, severity filter, updatability | recursion over shared nodes | agrees with a reference definition | not modelled |
| Login and organization sync; frontend, CLI, CDK; LunaDefend | | | upserts; presentation; a separate product | | not modelled |

Components interact only through Postgres rows, SQS messages and S3 events. Jobs on one task
share nothing but the poll loop that started them.

`PROJECT.json` lists the hazards line by line, with the properties that cover them, or the
reason why none does.

## 2. The modules

    DependencyGraph            what readers of the trees are promised
      ^ implemented by
    DependencyGraphStore       snapshot jobs, tables, transactions
      DependencyGraphStoreProofs, MCDependencyGraphStore

    QueueWorker                the poll loop and SQS
      QueueWorkerProofs
      ^ extended and implemented by
    BuildPipeline              snapshot and scan jobs on two queues
      BuildPipelineProofs, MCBuildPipeline
      ^ extended, with an instance of DependencyGraphStore, and implemented by
    SnapshotSystem             snapshot jobs whose trees go through database sessions
      SnapshotSystemProofs, MCSnapshotSystem
    ManifestUpload             uploads from the browser, on the same two kinds of queue
      ManifestUploadProofs, MCManifestUpload
    WebhookIntake              GitHub's webhooks and installations, up to the snapshot message
      WebhookIntakeProofs, MCWebhookIntake
      ^ extended, with a loop of its own, by
    StaticAnalysis             vulnerable edges, from the scan to the Go task's result
      StaticAnalysisProofs, MCStaticAnalysis

    PullRequestReview          the end of a scan job, on GitHub
      PullRequestReviewProofs, MCPullRequestReview

### DependencyGraphStore (`node-package-tree.ts`)

A *node* is a Merkle hash (`treeHashId`), so `Child` is a function of the node and two
builds with a common subtree share its rows. The lock files of a build are given by `Roots`
and by the walk of their trees: `Rank` is the order in which the walk fills
`dependencyNodeMap`, `HasParent` the nodes whose last visit had a parent. A *job* is one
delivery of a snapshot message; two jobs of one build are a redelivery.

| Action | Code |
|---|---|
| `Start` | `snapshotPinnedDependencies`: collect the trees |
| `ReadRoots`, `ReadNodes` | `findCurrentlyKnownDependencies`, 999 ids (`SliceSize`) per query; known ids leave the map |
| `SelectPackage`, `InsertPackage`, `ReselectPackage` | `upsertAndGetPackageId`: look first, then insert, and look again when another transaction has inserted the row meanwhile |
| `SelectRelease`, `InsertRelease` | `getPackageReleaseId`: look first, then insert or lock |
| `InsertNode` | the `manifest_dependency_node` INSERT, a row at a time: rows of one INSERT are locked one after another |
| `InsertEdges` | `insertEdgesToDatabase`, one step |
| `Commit`, `InsertManifests` | the end of `db.tx`, and the second transaction |
| `Abort` | a failing query or a dying worker |
| `DeadlockVictim` | Postgres aborts a transaction of a cycle (external) |

`WaitsFor(j, k)` says that an INSERT of `j` has the key of an uncommitted row of `k`; it is the
only thing that blocks. Edges go in as one step because they never wait, which is
`EdgesNeverContend`, checked and proved, not assumed. A row that was found is not locked. The
tables have no deletions.

Packages and releases are rows, and locks, of their own: a package is keyed by name, manager and
registry, without the version, so that two versions of a package share its row. The queries for
the nodes of a slice are sent by one `Promise.all` over one connection, which answers them in the order
they came: a node's next query is queued behind those of the others when its last one is
answered. So the slice is asked for in rounds, and a node whose package is known reaches the INSERT
of its release a round before one whose package it has to insert. `Turn` counts the queries a node
has taken (`stmt` is the one it is at, `way` how it came by its package), and `NextStatement` says
which node is next.

### QueueWorker (`handler.ts`)

`status`, `receives`: the message in SQS (external: hidden after a read, visible again when
its timeout expires, dead-lettered after `maxReceiveCount`, 10 in the CDK). `batch[w]` holds
the jobs `Promise.race` waits for, `late[w]` those that the five minute timer gave up on and that
still run. A *delivery* `<<m, n>>` is the n-th read of message `m`. `Succeed` may leave the
message in the queue, because a failed deletion is only logged. `Crash` ends all jobs of a
task.

### BuildPipeline

Extends the worker with the two kinds of job; `step[d]` is how far the job of a delivery is.
Each action is one await of the activity, with its failure as a second disjunct (`GiveUp`).

| Action | Code |
|---|---|
| `Enqueue`, `NoCloneUrl`, `GenerateSbom` | the API server's message; the start of `snapshotRepositoryActivity` |
| `UploadSbom`, `SetS3Url` | `uploadSbomToS3`: S3 announces the object before its url is saved |
| `InsertGraph`, `InsertManifests` | `snapshotPinnedDependencies`, its two transactions |
| `AnalyzeTree` | `staticallyAnalyzeDependencyTree`; its errors are only logged; what it sends is StaticAnalysis' subject |
| `Scan`, `ScannerFails` | `scanSnapshot`: fetch, match and insert; and the scanner's rejection with a string |
| `Report` | the end of `scanSnapshotActivity`; the pull request is another module's subject |
| `Poll`, `Settle`, `Timer`, `Sqs`, `Die` | the worker's steps around the jobs |

Every delivery of a snapshot uploads the SBOM again, over the same S3 object, and each upload
makes an event of its own. `sbom[b]` is the number of the upload that is in S3, `badSbom` the uploads
whose content yields no report: any may be, because `call-cli.ts` ignores how the CLI
ended. A scan job scans what is in S3 when it runs. Fetching, matching and inserting are one
step; a scan of content that was replaced meanwhile concerns an upload that is concluded
(`Concluded`) by being replaced.

`log` holds the states that were sent, since `updateBuildStatus` does not wait, by the message whose
jobs sent them: a row of `build_log` does not tell which upload it is about, but the properties must. It is a
set, so that nothing is said of the order in which states arrive. That a rejected
write ends the process is part of `Die`. Left out are `SnapshotFailed` (some failures
write it and some do not, and nothing depends on it), the states that only tell progress,
and `SnapshotQueued` (written by the API server). `InsertGraph` is one step here and a whole
session in SnapshotSystem; `TreeStep` groups the two steps that module refines. Builds are those of
repositories with a lock file.

A request that is carried out although its answer is lost is, for the steps before the last, the
step followed by the failure of the next one. Two such cases are left out: an INSERT of the manifests
or of the scan whose answer is lost, and a task that dies between the commit of the manifests and the
report, which are one step. They leave more stored than is shown or deleted, which every
property of the pipeline allows.

### SnapshotSystem (both together)

What BuildPipeline and DependencyGraphStore each leave out: a snapshot job's awaits are statements of
a database session, and a session ends otherwise than its job. The module extends the pipeline and
takes the store as an instance in which the jobs are the deliveries of snapshot messages; the
`resolved_manifest` rows are shared. (It is the instance of the store's proof module, so that the
store's theorems can be cited.)

| Action | Code |
|---|---|
| `Query`, `FinishTrees` | a statement of `snapshotPinnedDependencies` is answered; the last one is the COMMIT, or the read that leaves nothing to insert |
| `StoreManifests` | the second transaction |
| `UploadFails` | `uploadWorktreeSnapshot`, before any session |
| `StatementFails` | a failing statement, or Postgres' choice of a deadlock victim: rolled back, and the activity rejects |
| `Disconnect` | Postgres notices that the task of a session has died (external) |

A task that dies (`Die`) leaves its sessions open, with their row locks, until `Disconnect`; the
message may be read again before that, and the new job then waits for the transaction of the old
one. A job the timer gave up on goes on with its session.

### PullRequestReview (`pr-comment-generator.ts`)

What a scan job does after it has sent `ScanCompleted`. A *job* is one scan that comes so far; two
jobs of one build are a repeated scan. A review is named after the job that added it, and `shown`
remembers the builds whose reports it was given.

| Action | Code |
|---|---|
| `Lookup` | `interactWithPR`: the build and its settings, then `findPreviousReviewId` (newest build of the pull request with an id) |
| `Check` | `executePRCheck`; nothing reads the check run again |
| `Add`, `Update` | the two requests of `executePRComment`; GitHub may act and its answer be lost |
| `Save` | `UpdateBuildExistingReviewId` |
| `Stop` | an error, which `scanSnapshotActivity` only logs, or the end of the task |

### ManifestUpload (`snapshot-manifest-activity.ts`, `ManifestDrop.tsx`)

A file dropped on the project page. `row[u]` is its `manifests` row; every delivery of the S3 event
inserts a build of its own, so that a build is `<<u, n>>`, the n-th delivery's, and the row points to
the build of the job that ended last. The scan job finds the row through the build id, and its
writes are not awaited: `coming` holds those that have not reached the table, `sent` all of them.

| Action | Code |
|---|---|
| `InsertManifest`, `PutFile` | the browser: `insertManifest`, then the PUT to the presigned url |
| `MarkProcessing`, `InsertBuild` | the two requests before the `try` of `snapshotManifestActivity` |
| `Generate`, `UploadSbom`, `SetS3Url` | `getFileFromS3` and the CLI; `uploadSbomToS3` |
| `MarkGenerated` | `UpdateManifest` with `sbom-generated` and the build id |
| `CatchError` | the `catch`: status `error`, "last ditch", and the job fails |
| `BeginScan`, `EndScan`, `Arrive` | `updateManifestStatus` in `scanSnapshotActivity`, and its arrival |
| `Poll`, `Settle`, `Timer`, `Sqs`, `Die` | the worker |

### WebhookIntake (`github/webhooks/`, `github/actions/`, `process-github-webhook-activity.ts`)

A message is the delivery id of a webhook. The API server verifies, caches the webhook, and sends the id without
waiting; a worker job reads the row and runs the handler. What a handler throws is logged
and swallowed: `outcome[m]` remembers how the handlers of `m` ended, since the queue does not. Next to it
run the installations from the GUI: `call[<<i, r>>]` is how far installation `i` is with repository
`r`. `ready` and `built` are history: what was there before the webhook, or the installation,
came.

| Action | Code |
|---|---|
| `ReceiveWebhook`, `SendWebhook` | `verifyAndReceive`: the insert into `webhook_cache`, the message nobody awaits |
| `UpsertRepos`, `CountBuilds`, `InsertFirstBuild`, `SendFirstBuild` | `installProjectsFromGithub`, `queueNewReposForSnapshot`, `queueRepositoryForSnapshot` |
| `ServerDies` | an API server that ends with sends and installations under way |
| `ReadCache` | the job's query; a webhook that is not there is an error |
| `HandleOther` | no handler for the event, the action or the branch |
| `FindRepo`, `InsertBuild`, `SendSnapshot` | `pushHandler`, `pullRequestHandler`: `createNewBuild` and the snapshot message |
| `InstallOrg` | `installOrganizationFromGithub`: one upsert with its members |
| `AddUser`, `AddMember` | the organization handler: two requests |
| `Poll`, `Settle`, `Timer`, `Sqs`, `Die` | the worker |

### StaticAnalysis (`static-analysis.ts`, `queuefx/queue.go`, `staticanalysis/dependencyedge.go`)

A message is `<<s, e>>`: scan `s` asks for edge `e`, of whose child it takes the first vulnerability. The snapshot job
and the scans are reduced to what matters here: the commit of the manifests, and the moment at which a
scan asks for the tree. From there on each message is a call nobody waits for (`looking`, `sending`, `lost`).
The Go task reads the queue through gocloud's subscription, which prefetches and deletes in the background
(`acking`); it handles one message at a time, has no timer, and gives a failed message back at
once. `Stored` are the edges with a row: the SQL function behind the tree adds an edge with a zero
id to each root, which no handler finds.

| Action | Code |
|---|---|
| `InsertManifests`, `AnalyzeTree` | the second transaction of the snapshot job; `staticallyAnalyzeDependencyTree` |
| `Lookup`, `SendEdge`, `Lose` | `queueManifestDependencyEdgeForStaticAnalysis`, step by step, or its failure |
| `Prefetch`, `Begin` | `Sub.Receive` |
| `Analyze`, `Invalid`, `Panic`, `FailRecord` | the ends of `dispatchMessage`: a result (which may be `error`), an edge without a row, a recovered panic, an error |
| `Ack`, `Restart`, `Sqs` | the deletion in the background; the end of the task; SQS |

## 3. What the runs show

| Run | States | Shows |
|---|---|---|
| `graph_store` | 85,464 | three concurrent jobs, one of them a redelivery, with failures and deadlock victims, that share a node and two packages in two versions each: `GraphClosed`, `ManifestTreesStored`, `EdgeEndsExist`, `EdgesNeverContend`, `OrderPreventsDeadlock`, and `ImplementsGraph`: the tables behave as `DependencyGraph` |
| `snapshot_system` | 57,555 | two builds or two deliveries of one, with deadlocks, timeouts, and tasks that die with a transaction open: `GraphIsWhole`, `TreesAreKept`, `ShownTreesLoad`, and `EverySessionEnds`, whichever waits for which |
| `graph_deadlock` | (violation) | two jobs deadlock although the code sorts "to help the database avoid deadlocking" |
| `build_pipeline_uploads` | 2,242,024 | a snapshot delivered twice, a late job next to its redelivery, the scans of both uploads in any order, good and bad content: `SnapshotNotLost`, `SnapshotReportsAreTrue`, `ScanNotLost` |
| `build_pipeline_scans` | 35,177 | a scan delivered twice: `NothingVanishes`, `EveryMessageSettles` even if no job ever settles, `EverySbomConcluded` |
| `build_pipeline_reports` | (violation) | a build is shown as scanned after its scanner has failed |
| `pull_request` | 4,438 | two builds of a pull request, one scanned twice, and another pull request: `SavedIsSubmitted`, `ReviewsKeepToTheirPullRequest`, `SavedReviewIsFound` |
| `pull_request_once` | (violation) | two jobs that overlap each add a review |
| `manifest_upload` | 1,097,090 | a file delivered twice, its two builds and their scans: `UploadNotLost`, `StatusIsOfItsBuild` |
| `manifest_upload_shown` | (violation) | a page goes on waiting for a scan that is over |
| `webhook_intake` | 3,602,223 | two webhooks of any kinds about one repository, two installations of it: `WebhookNotLost`, `ReadyWebhooksAreServed`, `BuiltReposAreSkipped` |
| `static_analysis` | 320,396 | scans of two builds that share an edge: `AnalysesNotLost`, `EdgesNotForgotten`, `EdgesAreAnalyzed` |

### Findings

1. *The sort does nothing.* `node-package-tree.ts:418` says "We need to sort these in order to
   help the database avoid deadlocking", but `.sort()` without a comparator leaves the nodes in
   the order of the walk. In `graph_deadlock` one lock file lists package x and then y, the other y
   and then x: each job holds a row that the other's next INSERT has the key of. Postgres aborts a
   victim and SQS delivers its message again, so the build is delayed and reported as failed
   meanwhile, but nothing is corrupted (`GraphClosed` and `EverySessionEnds` hold). A comparator alone would not do.
   `OrderPreventsDeadlock` names four conditions that suffice, and is proved:
   - `SameOrder`: the jobs insert their common nodes in one order, which is what the sort is for;
   - `SameSlices`: a common node is in the same slice of both. Slices are counted (999 nodes) from where the
     unknown ids begin, and the packages and releases of a slice come before its nodes;
   - `OneNodePerPackage`: no two nodes of theirs are versions of one package, or one release below two
     hashes. The first of them locks the package row, wherever the others are in the order: `p@1, q` and
     `q, p@2` are both sorted, and deadlock when p and q are new;
   - `SamePackagesFound`: a package that one job found, no other had to insert. A new package takes
     one query more, or two, which puts the INSERT of its release behind those of later nodes of the slice.

   None can be left out: with any one of the last three dropped from the property, and with the
   first one broken (`graph_deadlock`), TLC finds a circle in the instance of `graph_store`.
   The last two depend on what the builds contain and on what other jobs commit meanwhile; no sort of
   nodes can provide them.
2. *A failed scan counts as a scan.* `scan.ts:90` and `:100` reject with a string. `catchError`
   returns it ("the result OR the error thrown", `try.ts:45`), and `threwError` asks for an `Error`, so
   `scan-snapshot-activity.ts` logs "Successfully scanned snapshot." (147), writes
   `SnapshotScanCompleted` and lets the message be deleted; no row is in `scans`.
   `build_pipeline_reports` shows it. `ScanNotLost` holds only in terms of what the upload's own jobs have
   *shown* (`Concluded`): that is why it speaks of the log and not of `scans`. The rejection is the only
   cause: `ScansAreShownTruly` proves that without it what is shown as scanned has a scan, whatever
   jobs overlap, repeat or die.
3. *A second review.* `pr-comment-generator.ts:105` takes an empty lookup for "the first build on
   this pr", but the lookup (254) and the saved id (120) are several requests apart.
   `pull_request_once` has two jobs that look before either has saved. What does hold is
   `SavedReviewIsFound`: once an id is saved, only jobs that were on their way add another one.
   `OrderedReportsShareAReview` proves that two things would give one review: one report on a
   pull request at a time, and no review whose job goes on or dies before its id is on a build.
   TLC finds two reviews as soon as either is dropped, so that a lock alone is no remedy.
4. *A page that waits for ever.* The manifest job uploads the SBOM, which starts the scan, before it
   writes the build id by which the scan finds the row. A scan that is over by then has
   written to no row, and `UpdateManifest` leaves "sbom-generated", of which `ManifestDrop.tsx:96` says
   "waiting for vulnerabilities scan to begin". `manifest_upload_shown` shows
   it; with `MCMaxReceives` at 1 for both queues, so that nothing is delivered twice, the invariant is
   violated all the same. There is a second cause, the order of writes nobody waits for: a
   "scanning" that arrives after "scanned" stays. `OrderedWritesEndTheWait` proves that there is no third; TLC
   finds a waiting page as soon as either is allowed.

Read, but shown by no run: `node-package-tree.ts:248-250` say that "top nodes" use a custom
namespace and "don't have a parent", while `isTopLevel` is `!!node.parent`, so that the packages below the
top get the project's registry. `PackageOf` does as the code does; no property is about which registry
a package is in.

### Bounds, and why they are enough

- Graph: two builds of one project. A has the roots rA, which depends on x1 and y1, then x1, which depends on z, and
  y1; B has y2 and x2, which depends on z. So z is a common node, and x and y are packages in two versions
  that are listed in opposite orders. A third job
  repeats build A, which the unique key of the manifests and the overlap of a job with its own redelivery
  need. `SliceSize` 3: A's four nodes take two slices, the last of them partial, and the order of
  queries within a slice matters.
  `WalkAssumption` in the MC module computes the walk recursively and compares it with the
  `Rank` and `HasParent` given to the store.
- Pipeline: one build, because jobs of different builds share no row here. Uploads: one task per
  queue, two deliveries of the snapshot, each upload scanned once; a late job next to its redelivery needs
  two deliveries. The constraint `NoLateScan` stops at states in which the timer has given up on a
  scan job, whose further steps are those of a job it still waits for. Scans: one upload, delivered
  twice, without that constraint: a deletion with a stale receipt, a timer
  with part of a batch. The code's limit is 10 reads; the second one already meets everything the
  first has left.
- Snapshots with sessions: one task, two builds that share the node z and a package in two versions, in opposite
  orders, in one slice (the slices are `graph_store`'s subject). `FewReads` allows two reads in all: both builds
  once, which is what a deadlock needs, or one of them twice, which is what a session left open by a dead task
  and its redelivery need. `GoodUploads` leaves out bad SBOMs, which only scans look at, and the second queue is
  not read. The constraints cut off reads and uploads, of which nothing is
  assumed to happen, so that they hide no violation of `EverySessionEnds`.
- Manifest upload: one file, two deliveries, two builds, each scanned once. A third
  delivery would again replace what the second one replaces. `NoReadIsLeft` does not follow a message to the dead
  letter queue, where nothing happens to it any more.
- Webhooks: `FewReads` allows two reads in all, so that either webhook is read twice or both once;
  two installations are what the check before the first build needs to be raced.
- Static analysis: one task with one message at a time (`MaxMessages` 1), two reads per message. Three messages
  are two of one edge, from two scans, and one of an edge without a row. Several tasks and prefetched
  batches are covered by the proofs only; with them TLC does not come to an end.
- Pull request: four jobs; two of one build and one of a later build are what two reviews, a
  repeated scan and an id that travels between builds need, and the other pull request is
  there to be mixed up.

Symmetry is used in `webhook_intake` (webhooks, and installations, are interchangeable, and no property is
temporal) and nowhere else. `CHECK_DEADLOCK FALSE` is set because messages are finitely many: the model, unlike the poll
loop, comes to rest when all are deleted or dead.

### Fairness

- Snapshots with sessions: weak fairness of the statements of a session that has begun, of Postgres' deadlock
  detector and of its discovery of lost connections. A statement is answered unless it waits for a
  lock; nothing makes a message arrive, a job open a session, or a task stay alive.
- Queue and pipeline: weak fairness of the poll loop (`while (true)`), of its timer and of SQS'
  visibility timeout and redrive policy. **Jobs have no fairness**: a clone or an HTTP call may
  hang for ever, and `EveryMessageSettles` and `EverySbomConcluded` hold nevertheless.
- Static analysis: calls are answered, the subscription and its loop go on, SQS does, and **a message
  that is being handled is handled in the end**. The last is an assumption about the registry and
  semgrep, not about the code, which sets no timeout (`http.Get`): with a handler that hangs,
  `EdgesAreAnalyzed` fails, because the loop has no timer.
- Webhooks and manifests: safety only. The message of a webhook may never be sent, which leaves nothing that must
  happen.

## 4. What is proved

Assumptions: `StoreAssumption`, `FiniteAssumption`, `QueueAssumption`, `PipelineAssumption`,
`SystemAssumption`, `UploadAssumption`, `IntakeAssumption`, `StaticAssumption`, `ReviewAssumption`. They
type the constants, and say that the nodes are finitely many; nothing is assumed of the shape of graphs (they may even
be cyclic), of the number of jobs, of the order of the walks. TLC evaluates them in every run.
`FiniteAssumption` is used for the theorems on deadlocks only, where slices are counted.

**DependencyGraphStore** (`DependencyGraphStoreProofs`). `GraphClosed` is not inductive: what
a commit adds is closed only if what the job dropped earlier is known, and stays known. The
invariant `IInv` says so. Its parts:
- `GraphExact`: the committed edges are exactly the committed nodes' edges;
- `WalkClosed(j)`: below the nodes a job will insert there are only such nodes, or committed
  ones. Ids that another job commits between the two reads leave the map, but they are
  committed with everything below them;
- `RootsCovered(j)`: the roots of a build are still to be asked for, in the walk, or known, so
  that the manifest's turn comes only when all are known;
- `NodesPlaced(j)`, `EdgesPlaced(j)`: how far the transaction is;
- `NodesExclusive`: a node is committed or in one open transaction. The wait of a conflicting
  INSERT is what preserves it, and `EdgesNeverContend` follows: an edge starts at a new
  node.

From it: `GraphIsClosed`, `ManifestsLoad` (with `SubtreeLeast`: a tree is the least
closed set that holds its root), `EdgeEnds`, `EdgesExclusive`, and `Refinement`: `Spec`
implements `DependencyGraph`, where `Commit` publishes the inserted nodes, `InsertManifests`
describes a build, and every other step stutters.

*Locks.* `LocksInOrder` says where a transaction is. The order of its statements is: slice, then turn (how many
queries the node has taken; the nodes' own INSERT is last), then rank in the walk. Every package or
release it has locked was inserted for some node in a turn after which all statements that are left come
(`Passed`, `PackagesInOrder`, `ReleasesInOrder`), slices and nodes follow one another
(`SlicesInOrder`, `NodesInOrder`), and `way` tells the truth about the packages (`WaysFit`, `WaysTrue`), which are
committed or in one open transaction (`PackagesExclusive`). `LockOrder` proves it for every job by itself, one
lemma per query (`RunKeepsOrder` and `RunKeepsLocks` are what they share). If
the jobs of a circle agree (`SameOrder`, `SameSlices`, `OneNodePerPackage`, `SamePackagesFound`), each of them waits
for a row that its neighbour has locked, for the same node and in the same turn (`TakenInSameTurn`), hence
before the neighbour's next statement (`LockedBeforeNext`); a job whose statement comes first in the
common order (`FirstPoint`) waits for nobody, so that there is no circle (`NoCircle`). `OrderSuffices` states it
for any common order, `NoDeadlockInOrder` for that of a build's walk, which is the property the run checks.

**QueueWorker** (`QueueWorkerProofs`). `TypeOK` (which bounds the receive counts) and
`NothingVanishes` are inductive together.

**BuildPipeline** (`BuildPipelineProofs`). `PipelineInv` adds to the properties, for each
delivery, what its `step` implies to be stored (`DeliveryInv`). It is needed because a message
is deleted by the last step of a job for what the first ones stored, with other jobs, crashes
and scans in between; it is inductive because nothing that is stored is taken back (`DataGrows`). The one
thing that is overwritten is `sbom[b]`: a job whose upload was replaced has nothing left to
conclude, and since an upload's number is that of its delivery, whose event was never sent before,
the number does not come back. What other uploads' jobs have shown does not count: `Concluded(b, n)` looks at
the states sent by the jobs of upload n.
`PipelineIsQueueWorker` shows that the pipeline refines `QueueWorker`, whose theorems
therefore hold of it. `ScansAreShownTruly` assumes one thing of the steps, that no scanner exits before its
build has a scan, and needs to know of the jobs between their scan and their report
that a scan is stored (`ScanReportInv`).

**SnapshotSystem** (`SnapshotSystemProofs`). It refines both of its parts, `SystemIsPipeline` and
`SystemIsStore`, step by step and without an invariant: the statements of a session are
stutters of the pipeline until its transaction ends, the steps of queue, tasks and scans are
stutters of the store, and `Disconnect` is an `Abort` of a job the pipeline has forgotten. So all
theorems of both hold of it (`PartsInvariant`), and one conjunct relates them, `GraphRooted`: the roots of a
build in `graph` are committed. It is kept because a job reaches "manifest" only with its roots
known (`RootsCovered`), and nodes are never taken back. With `GraphIsClosed` and `SubtreeLeast`
it gives `GraphsAreWhole`; with `SnapshotsAreKept` and `SnapshotReportsTrue` of the
pipeline, `TreesKept` and `ShownTreesCanBeLoaded`.

**PullRequestReview** (`PullRequestReviewProofs`). `ReviewInv` adds to the properties that an id in a
job's hands names a review of its pull request (`JobInv`): ids are read from builds, used for
submissions and written to other builds, so none of the properties is inductive alone.
`SavedReviewsAreFound` proves the action property from it. `OrderedReportsShareAReview` has
`OneReportAtATime` and `ReviewsAreRecorded` as hypotheses, which the code does not keep (finding 3);
under them a job that is about to add a review has overlooked none (`FirstReview`).

**ManifestUpload** (`ManifestUploadProofs`). `UploadNotLost` speaks of the row, which every delivery
rewrites: it is kept because the row only ever points to a build whose job has stored
everything (`UploadInv`), whichever job points it there. `StatusIsOfItsBuild` needs the other half: until the row
points to a build, no write of its scan matches, and pointing it to a build replaces the status.
`OrderedWritesEndTheWait` has `PointedBeforeScan` and `ArriveInOrder` as hypotheses on steps, which the code does
not keep (finding 4). It joins two facts: a scan's message is deleted only after the end of the scan was
reported (`ScanEndsReported`, of every behaviour), and a row that waits was told of no end
(`RowWaitsRightly`, under the hypotheses). The hypotheses are sufficient and not the weakest: the second one also
excludes a scan that reports an error, is repeated and says "scanning" again, which does no harm.

**WebhookIntake** (`WebhookIntakeProofs`). `IntakeInv` says of each delivery what its step
implies (`JobInv`), of each webhook what its outcome implies (`HookInv`), and of each installation what its
progress implies (`CallInv`); rows and logged outcomes only grow (`DataGrows`), which carries all three over the steps of
others.

**Refinement.** `PipelineIsQueueWorker`, `UploadIsQueueWorker` and `IntakeIsQueueWorker` show that the three are
queue workers: jobs that end without errors are those of `Succeed`, all others of `Fail`.

**StaticAnalysis** (`StaticAnalysisProofs`). A message is followed from the scan on: it is looked up, being sent, or in
the queue. `AckInv` says why a deletion may take it away: the edge of a delivery that is to be
deleted has a result, or its handler panicked. One lemma, `NothingLost`, then covers every step of queue and
task, from two facts about the step: results are overwritten but not removed
(`ResultsKeep`), and messages leave the queue only by such a deletion (`QueueKeeps`).

**Only model-checked:** `EverySessionEnds`, `EveryMessageSettles`, `EverySbomConcluded`, `EdgesAreAnalyzed`: liveness
under fairness is out of the prover's reach. The violations are TLC's. That the recursive walk of the MC
modules gives the `Rank` and `HasParent` of the store is checked for their instance only.

## 5. Not modelled, and what is left

- *npm replicator.* At this commit the statement of every insert is malformed (`%S` in
  `npm.go:39`), so that no revision is stored: batches, retries and resumption reach no state in which
  what they keep could be told. That a retry skips what it could not store (`:224`) and that
  `InitialReplication` never returns (`:314`) are listed as hazards.
- *Package and vulnerability ingesters.* Upserts, run from the command line, that share only
  `package` and `release` rows with the jobs, and could take part in their deadlocks. `sql.go:48` stores the time of a "successful fetch" before
  releases and dependencies; an abstract "fetched implies ingested" would be the next module.
- *Vulnerability dependency tree.* A pure function of one query's rows. The edges to vulnerable
  children are a constant of StaticAnalysis. Its chains and the reachability of a node (the last edge
  wins, `vulnerability-dependency-tree.ts:102`) would be a module of functions against reference
  definitions.
- *GitHub webhooks* are modelled but for the repository handler, which writes the name of a
  repository and of its project in two requests that renames may interleave, and for the verification
  of signatures.
- *Login and organization sync* (independent upserts; `auth-user-to-orgs.ts` and
  `get-orgs-for-user.ts` are not used any more), parsers of lock files, grype and the CLI
  (one outcome each), the frontend but for `ManifestDrop.tsx`, the CDK beyond the redrive policy.
- *LunaDefend* shares no code or state with LunaTrace and would be a project of its own.

What is left to prove: that `SnapshotSystem` with `StaticAnalysis` in place of `AnalyzeTree`, whose messages
the scan jobs of the pipeline would send, still keeps its edges. Today that composition is argued above,
not checked.
