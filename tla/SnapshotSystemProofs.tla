----------------------- MODULE SnapshotSystemProofs -----------------------
(***************************************************************************)
(* The composition is both of its parts, so that what is proved of either  *)
(* holds of it; and the parts mean the same trees.                         *)
(***************************************************************************)
EXTENDS SnapshotSystem, BuildPipelineProofs

\* A snapshot delivery is of a build.
LEMMA JobBuildType == JobBuild \in [SnapshotJob -> Build]
  BY DeliveryBuild DEF JobBuild, SnapshotJob

\* The sessions are those of a store: its assumptions hold of the composition.
LEMMA StoreConstants == Store!StoreAssumption /\ Store!FiniteAssumption
<1>1. /\ JobBuild \in [SnapshotJob -> Build]
      /\ Child \in [Node -> SUBSET Node]
      /\ Roots \in [Build -> SUBSET Node]
      /\ Rank \in [Build -> [Node -> Nat]]
      /\ HasParent \in [Build -> SUBSET Node]
      /\ SliceSize \in Nat \ {0}
  BY JobBuildType, SystemAssumption
<1>2. Store!StoreAssumption
  BY <1>1
<1>3. Store!FiniteAssumption
  BY SystemAssumption DEF IsFiniteSet, Store!IsFiniteSet
<1> QED
  BY <1>2, <1>3

\* Only snapshot jobs have sessions, and only while a task runs them.
LEMMA SessionIsJobStep ==
    ASSUME NEW w \in Worker, NEW d \in SnapshotJob, Session(w, d)
    PROVE  UNCHANGED vars \/ (d \in Jobs(w) /\ TreeStep(w, d))
<1>1. CASE Query(w, d)
  BY <1>1 DEF Query
<1>2. CASE FinishTrees(w, d)
  BY <1>2 DEF FinishTrees, TreeStep, InsertGraph, At
<1>3. CASE StoreManifests(w, d)
  BY <1>3 DEF StoreManifests, TreeStep, InsertManifests, At
<1>4. CASE UploadFails(w, d)
  BY <1>4 DEF UploadFails, TreeStep, InsertGraph, At
<1>5. CASE StatementFails(w, d)
  BY <1>5 DEF StatementFails, TreeStep, InsertGraph, InsertManifests, At
<1> QED
  BY <1>1, <1>2, <1>3, <1>4, <1>5 DEF Session

\* Statements of a session are steps of the pipeline's jobs, or unseen by it.
LEMMA SystemStepIsPipelineStep == [SystemNext]_systemVars => [PipelineNext]_vars
<1> SUFFICES ASSUME [SystemNext]_systemVars PROVE [PipelineNext]_vars
  OBVIOUS
<1>1. CASE QueueStep
  BY <1>1 DEF PipelineNext
<1>2. ASSUME NEW w \in Worker, NEW d \in Jobs(w), OtherStep(w, d) PROVE PipelineNext
  BY <1>2 DEF PipelineNext
<1>3. ASSUME NEW w \in Worker, NEW d \in SnapshotJob, Session(w, d) PROVE [PipelineNext]_vars
  BY <1>3, SessionIsJobStep DEF PipelineNext
<1>4. ASSUME NEW d \in SnapshotJob, Disconnect(d) PROVE UNCHANGED vars
  BY <1>4 DEF Disconnect
<1>5. CASE UNCHANGED systemVars
  BY <1>5 DEF systemVars
<1> QED
  BY <1>1, <1>2, <1>3, <1>4, <1>5 DEF SystemNext

\* The rest of the pipeline leaves the manifests alone, the store's only rows there.
LEMMA ElsewhereKeepsManifests ==
    ASSUME \/ QueueStep
           \/ \E w \in Worker : \E d \in Jobs(w) : OtherStep(w, d)
    PROVE  manifest' = manifest
<1>1. CASE QueueStep
  BY <1>1 DEF QueueStep, Enqueue, Sqs, Poll, Timer, Die, dataVars
<1>2. ASSUME NEW w, NEW d, OtherStep(w, d) PROVE manifest' = manifest
  BY <1>2 DEF OtherStep, NoCloneUrl, GenerateSbom, UploadSbom, SetS3Url, AnalyzeTree, Scan,
              ScannerFails, Report, Settle, GiveUp, dataVars
<1> QED
  BY <1>1, <1>2

\* Every step of the system is one of the store's, or changes none of its tables
\* and sessions.
LEMMA SystemStepIsStoreStep == [SystemNext]_systemVars => [Store!Next]_(Store!vars)
<1> SUFFICES ASSUME [SystemNext]_systemVars PROVE [Store!Next]_(Store!vars)
  OBVIOUS
<1>1. ASSUME UNCHANGED sessionVars, manifest' = manifest PROVE UNCHANGED Store!vars
  BY <1>1 DEF sessionVars, Store!vars
<1>2. CASE /\ \/ QueueStep
              \/ \E w \in Worker : \E d \in Jobs(w) : OtherStep(w, d)
           /\ UNCHANGED sessionVars
  BY <1>1, <1>2, ElsewhereKeepsManifests
<1>3. ASSUME NEW w \in Worker, NEW d \in SnapshotJob, Session(w, d)
      PROVE  [Store!Next]_(Store!vars)
  <2>1. CASE UploadFails(w, d)
    BY <1>1, <2>1 DEF UploadFails, GiveUp, dataVars
  <2>2. CASE Query(w, d) \/ FinishTrees(w, d)
    BY <2>2 DEF Query, FinishTrees, Store!Next
  <2>3. CASE StoreManifests(w, d)
    BY <2>3 DEF StoreManifests, Store!Next, Store!Step
  <2>4. CASE StatementFails(w, d)
    BY <2>4 DEF StatementFails, Store!Next
  <2> QED
    BY <1>3, <2>1, <2>2, <2>3, <2>4 DEF Session
<1>4. ASSUME NEW d \in SnapshotJob, Disconnect(d) PROVE Store!Next
  BY <1>4 DEF Disconnect, Store!Next
<1>5. CASE UNCHANGED systemVars
  BY <1>1, <1>5 DEF systemVars, vars, dataVars
<1> QED
  BY <1>2, <1>3, <1>4, <1>5 DEF SystemNext
-----------------------------------------------------------------------------
\* The pipeline with its database is the pipeline: queries are steps it does not
\* see, and a transaction is the one step it takes it for.
THEOREM SystemIsPipeline == SystemSpec => PipelineSpec
<1>1. SystemInit => PipelineInit
  BY DEF SystemInit
<1> QED
  BY <1>1, SystemStepIsPipelineStep, PTL DEF SystemSpec, PipelineSpec

\* The sessions of the jobs, with deaths, redeliveries and timeouts as the queue
\* makes them, are the jobs of a store.
THEOREM SystemIsStore == SystemSpec => Store!Spec
<1>1. SystemInit => Store!Init
  BY DEF SystemInit
<1> QED
  BY <1>1, SystemStepIsStoreStep, PTL DEF SystemSpec, Store!Spec

\* What is proved of the parts.
LEMMA PartsInvariant == SystemSpec => [](PipelineInv /\ Store!TypeOK /\ Store!IInv)
  BY SystemIsPipeline, SystemIsStore, PipelineInvariant, StoreConstants,
     Store!TypeCorrect, Store!Invariant, PTL
-----------------------------------------------------------------------------
\* The roots of a build in graph are stored.
GraphRooted == \A b \in graph : Roots[b] \subseteq node

\* No job takes a node away.
LEMMA NodesStay ==
    ASSUME [Store!Next]_(Store!vars)
    PROVE  node \subseteq node'
  BY DEF Store!Next, Store!Step, Store!Start, Store!ReadRoots, Store!ReadNodes, Store!SelectPackage,
         Store!InsertPackage, Store!ReselectPackage, Store!SelectRelease, Store!InsertRelease,
         Store!InsertNode, Store!InsertEdges, Store!Commit, Store!InsertManifests,
         Store!Abort, Store!DeadlockVictim, Store!Rollback, Store!tables, Store!vars

\* Only a job that goes on to its manifests puts a build in graph.
LEMMA GraphGrows ==
    ASSUME [SystemNext]_systemVars, graph' # graph
    PROVE  \E d \in SnapshotJob : pc'[d] = "manifest" /\ graph' = graph \cup {JobBuild[d]}
<1>1. ASSUME NEW w \in Worker, NEW d \in SnapshotJob, Session(w, d)
      PROVE  pc'[d] = "manifest" /\ graph' = graph \cup {JobBuild[d]}
  <2>1. FinishTrees(w, d)
    BY <1>1 DEF Session, Query, StoreManifests, InsertManifests, UploadFails, StatementFails, GiveUp,
                vars, dataVars
  <2> QED
    BY <2>1 DEF FinishTrees, InsertGraph, GiveUp, dataVars, JobBuild
<1>2. ~QueueStep
  BY DEF QueueStep, Enqueue, Sqs, Poll, Timer, Die, dataVars
<1>3. ASSUME NEW w, NEW d, OtherStep(w, d) PROVE FALSE
  BY <1>3 DEF OtherStep, NoCloneUrl, GenerateSbom, UploadSbom, SetS3Url, AnalyzeTree, Scan,
              ScannerFails, Report, Settle, GiveUp, dataVars
<1>4. ~UNCHANGED vars
  BY DEF vars, dataVars
<1> QED
  BY <1>1, <1>2, <1>3, <1>4 DEF SystemNext, Disconnect, systemVars

\* Stored roots have whole trees below them.
LEMMA RootsHaveTrees ==
    ASSUME Store!TypeOK, Store!IInv, NEW b \in Build, Roots[b] \subseteq node
    PROVE  WholeTrees(b)
<1> SUFFICES ASSUME NEW r \in Roots[b], NEW n \in Store!Subtree[r]
             PROVE  n \in node /\ \A c \in Child[n] : <<n, c>> \in edge
  BY DEF WholeTrees
<1>1. /\ r \in node /\ node \in SUBSET Node
      /\ \A p \in node : Child[p] \subseteq node
      /\ edge = Store!EdgesOf(node)
  BY DEF Store!TypeOK, Store!IInv, Store!GraphExact
<1>2. Store!Subtree[r] \subseteq node
  BY <1>1, StoreConstants, Store!SubtreeLeast
<1> QED
  BY <1>1, <1>2 DEF Store!EdgesOf

\* A job has seen all roots of its build known, or stored them, before it goes on.
LEMMA GraphRootedStays ==
    ASSUME GraphRooted, Store!IInv', [SystemNext]_systemVars
    PROVE  GraphRooted'
<1>1. node \subseteq node'
  BY SystemStepIsStoreStep, NodesStay
<1>2. CASE graph' = graph
  BY <1>1, <1>2 DEF GraphRooted
<1>3. CASE graph' # graph
  <2>1. PICK d \in SnapshotJob : pc'[d] = "manifest" /\ graph' = graph \cup {JobBuild[d]}
    BY <1>3, GraphGrows
  <2>2. Roots[JobBuild[d]] \subseteq node'
    BY <2>1 DEF Store!IInv, Store!JobInv, Store!RootsCovered
  <2> QED
    BY <1>1, <2>1, <2>2 DEF GraphRooted
<1> QED
  BY <1>2, <1>3

\* What the pipeline takes for stored trees are whole trees.
THEOREM GraphsAreWhole == SystemSpec => []GraphIsWhole
<1>1. SystemInit => GraphRooted
  BY DEF SystemInit, PipelineInit, GraphRooted
<1>2. SystemSpec => []GraphRooted
  BY <1>1, PartsInvariant, GraphRootedStays, PTL DEF SystemSpec
<1>3. PipelineInv /\ Store!TypeOK /\ Store!IInv /\ GraphRooted => GraphIsWhole
  BY RootsHaveTrees DEF GraphRooted, GraphIsWhole, PipelineInv, PipelineTypeOK
<1> QED
  BY <1>2, <1>3, PartsInvariant, PTL

\* A build leaves the queue only with its trees whole in the tables.
THEOREM TreesKept == SystemSpec => []TreesAreKept
<1>1. PipelineInv /\ GraphIsWhole => TreesAreKept
  BY DEF PipelineInv, SnapshotNotLost, GraphIsWhole, TreesAreKept
<1> QED
  BY <1>1, PartsInvariant, GraphsAreWhole, PTL

\* What is shown as a completed snapshot can be loaded.
THEOREM ShownTreesCanBeLoaded == SystemSpec => []ShownTreesLoad
<1>1. PipelineInv /\ GraphIsWhole => ShownTreesLoad
  BY DEF PipelineInv, PipelineTypeOK, SnapshotReportsAreTrue, GraphIsWhole, ShownTreesLoad
<1> QED
  BY <1>1, PartsInvariant, GraphsAreWhole, PTL
=============================================================================
