------------------------- MODULE SnapshotSystem -------------------------
(***************************************************************************)
(* snapshotRepositoryActivity with its database: BuildPipeline, whose jobs *)
(* write the trees in the sessions of DependencyGraphStore.  A snapshot    *)
(* job that reaches "graph" opens a session of its own, named after the    *)
(* delivery, and goes on when its transaction is committed or nothing was  *)
(* left to insert.  The two share the resolved_manifest rows.              *)
(*                                                                         *)
(* A task that dies takes its jobs with it, but not their sessions:        *)
(* Postgres keeps the transaction and its row locks until it notices that  *)
(* the connection is gone.  Meanwhile the message may be read again, and   *)
(* the new job meets the locks of the old one.                             *)
(***************************************************************************)
EXTENDS BuildPipeline

CONSTANTS Project, Public, Node, Child, Package, Version, Roots, Rank, HasParent, SliceSize

ASSUME SystemAssumption ==
    /\ Child \in [Node -> SUBSET Node]
    /\ Roots \in [Build -> SUBSET Node]
    /\ Rank \in [Build -> [Node -> Nat]]
    /\ HasParent \in [Build -> SUBSET Node]
    /\ SliceSize \in Nat \ {0}
    /\ IsFiniteSet(Node)

SnapshotJob == {d \in Delivery : IsSnapshot(d)}
JobBuild == [d \in SnapshotJob |-> BuildOfJob(d)]

VARIABLES node, edge, package, release, pc, unread, todo, stmt, way, placed, tx

\* Build and manifest are the pipeline's.
Store == INSTANCE DependencyGraphStoreProofs WITH Job <- SnapshotJob, BuildOf <- JobBuild

sessionVars ==
    <<node, edge, package, release, pc, unread, todo, stmt, way, placed, tx>>
systemVars == <<vars, sessionVars>>

SystemInit == PipelineInit /\ Store!Init
-----------------------------------------------------------------------------
(* The steps of snapshotPinnedDependencies.                                *)

\* The job awaits a statement of its session; more are to come.
Query(w, d) ==
    /\ At(w, d, "graph")
    /\ Store!Step(d)
    /\ pc'[d] # "manifest"
    /\ UNCHANGED vars

FinishTreesUnawaited(w, d) ==
    /\ InsertGraph(w, d) /\ step'[d] = "manifest"
    /\ Store!Step(d)

\* The statement was the COMMIT, or there was nothing (left) to insert.
FinishTrees(w, d) ==
    /\ InsertGraph(w, d) /\ step'[d] = "manifest"
    /\ Store!Step(d) /\ pc'[d] = "manifest"

\* The second transaction; it fails on the unique key in both models or in none.
StoreManifests(w, d) == InsertManifests(w, d) /\ Store!InsertManifests(d)

\* The worktree cannot be uploaded: no session was opened.
UploadFails(w, d) ==
    /\ At(w, d, "graph") /\ pc[d] = "idle"
    /\ GiveUp(w, d, {})
    /\ UNCHANGED sessionVars

\* A statement fails, or Postgres has chosen the transaction to end a deadlock;
\* db.tx rolls back and rejects, and so does the activity.
StatementFails(w, d) ==
    /\ At(w, d, "graph") \/ At(w, d, "manifest")
    /\ Store!Abort(d) \/ Store!DeadlockVictim(d)
    /\ GiveUp(w, d, {})

\* Postgres notices that the task of the job is gone, and rolls back.
Disconnect(d) ==
    /\ \A w \in Worker : d \notin Jobs(w)
    /\ Store!Abort(d)
    /\ UNCHANGED vars

Session(w, d) ==
    \/ Query(w, d) \/ FinishTrees(w, d) \/ StoreManifests(w, d)
    \/ UploadFails(w, d) \/ StatementFails(w, d)
-----------------------------------------------------------------------------
\* The other steps of jobs, and those of tasks and SQS, touch no session.
SystemNext ==
    \/ QueueStep /\ UNCHANGED sessionVars
    \/ \E w \in Worker : \E d \in Jobs(w) : OtherStep(w, d) /\ UNCHANGED sessionVars
    \/ \E w \in Worker : \E d \in SnapshotJob : Session(w, d)
    \/ \E d \in SnapshotJob : Disconnect(d)

SystemSpec == SystemInit /\ [][SystemNext]_systemVars

\* Statements are answered; Postgres looks for deadlocks and for lost connections.
\* Nothing says that a message arrives, that a job opens a session, or that a task
\* stays alive.
SystemFairness ==
    \A d \in SnapshotJob :
        /\ WF_systemVars(pc[d] \notin {"idle", "done", "failed"} /\ \E w \in Worker :
              Query(w, d) \/ FinishTrees(w, d) \/ StoreManifests(w, d))
        /\ WF_systemVars(\E w \in Worker :
              At(w, d, "graph") /\ Store!DeadlockVictim(d) /\ GiveUp(w, d, {}))
        /\ WF_systemVars(Disconnect(d))

FairSystemSpec == SystemSpec /\ SystemFairness
-----------------------------------------------------------------------------
\* The roots of b and everything below them can be loaded, with the edges.
WholeTrees(b) ==
    \A r \in Roots[b] : \A n \in Store!Subtree[r] :
        n \in node /\ \A c \in Child[n] : <<n, c>> \in edge

\* What the pipeline takes for the trees of a build are whole trees: a job goes on
\* from "graph" only when all is committed, be it by jobs of other builds.
GraphIsWhole == \A b \in graph : WholeTrees(b)

\* The queue forgets a build only with its trees whole in the tables, whichever
\* deliveries wrote the parts, died with locks held, or were rolled back.
TreesAreKept ==
    \A b \in Build : status[SnapshotMsg(b)] = "deleted" => b \in manifest /\ WholeTrees(b)

\* What is shown as a completed snapshot can be loaded.
ShownTreesLoad ==
    \A b \in Build :
        "SnapshotCompleted" \in log[SnapshotMsg(b)] => b \in manifest /\ WholeTrees(b)

\* A session that has begun ends, with its transaction closed, even if its task
\* dies and whatever others wait for it.
EverySessionEnds ==
    \A d \in SnapshotJob :
        pc[d] = "roots" ~> pc[d] \in {"done", "failed"} /\ tx[d] = Store!NoRows
=============================================================================
