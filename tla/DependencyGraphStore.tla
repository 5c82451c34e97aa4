---------------------- MODULE DependencyGraphStore ----------------------
(***************************************************************************)
(* snapshot/node-package-tree.ts: snapshot jobs write the dependency trees *)
(* of builds into shared Postgres tables.  A node's id is the Merkle hash  *)
(* of its subtree, so jobs share rows: a job asks which ids are known      *)
(* (autocommitted reads), drops them, and inserts the rest in one READ     *)
(* COMMITTED transaction, packages, releases and nodes as its walk of the  *)
(* trees visited them.  An INSERT ... ON CONFLICT waits for the            *)
(* transaction that holds an uncommitted row of the same key.              *)
(*                                                                         *)
(* A Job is one delivery of a snapshot message, so two jobs of one build   *)
(* are a redelivery, concurrent or later.                                  *)
(***************************************************************************)
EXTENDS Naturals, FiniteSets

CONSTANTS
    Build,       \* builds of repositories that have a lock file
    Job,
    BuildOf,     \* BuildOf[j]: the build whose trees job j inserts
    Project,     \* Project[b]: the project of build b
    Public,      \* the customRegistry '' of packageData
    Node,        \* treeHashId values
    Child,       \* Child[n]: the hashes n's own hash was made from
    Package,     \* Package[n]: name and manager of n's package
    Version,     \* Version[n]: which release of it n is
    Roots,       \* Roots[b]: pkgGraph.dependencies of b, over its lock files
    Rank,        \* Rank[b][n]: when the walk of b first put n in the node map
    HasParent,   \* HasParent[b]: nodes whose last visit by the walk had a parent
    SliceSize    \* rows per query, 999 in the code

\* The smallest set of nodes that contains n and every child of a member.
Subtree == [n \in Node |->
    {m \in Node : \A S \in SUBSET Node :
        (n \in S /\ \A p \in S : Child[p] \subseteq S) => m \in S}]

ASSUME StoreAssumption ==
    /\ BuildOf \in [Job -> Build]
    /\ Child \in [Node -> SUBSET Node]
    /\ Roots \in [Build -> SUBSET Node]
    /\ Rank \in [Build -> [Node -> Nat]]
    /\ HasParent \in [Build -> SUBSET Node]
    /\ SliceSize \in Nat \ {0}

\* Trees are finite, and so are 256 bit hashes.
ASSUME FiniteAssumption == IsFiniteSet(Node)

VARIABLES
    node, edge, package, release, manifest,   \* committed rows
    pc,        \* where the job is
    unread,    \* ids findCurrentlyKnownDependencies still has to ask for
    todo,      \* keys of dependencyNodeMap
    stmt,      \* the statement the transaction is at for a node's release id
    way,       \* how it came by the id of a node's package
    placed,    \* nodes the transaction has run the INSERT for
    tx         \* rows the job's open transaction has inserted or locked

vars == <<node, edge, package, release, manifest, pc, unread, todo, stmt, way, placed, tx>>
tables == <<node, edge, package, release, manifest>>

NoRows == [package |-> {}, release |-> {}, node |-> {}, edge |-> {}]
Statement == {"package", "addPackage", "reselect", "release", "addRelease", "done"}
Way == {"none", "found", "inserted", "met"}
PC == {"idle", "roots", "nodes", "insert", "commit", "manifest", "done", "failed"}

\* isTopLevel is `!!node.parent`: the nodes that DO have a parent get the
\* project's own registry, although "top nodes don't have a parent" (line 250).
PackageOf(b, n) ==
    <<Package[n], IF n \in HasParent[b] THEN Project[b] ELSE Public>>
ReleaseOf(b, n) == <<PackageOf(b, n), Version[n]>>

PackageKey == {PackageOf(b, n) : b \in Build, n \in Node}
ReleaseKey == {ReleaseOf(b, n) : b \in Build, n \in Node}

EdgesOf(N) == {e \in Node \X Node : e[1] \in N /\ e[2] \in Child[e[1]]}

Init ==
    /\ node = {} /\ edge = {} /\ package = {} /\ release = {} /\ manifest = {}
    /\ pc = [j \in Job |-> "idle"]
    /\ unread = [j \in Job |-> {}]
    /\ todo = [j \in Job |-> {}]
    /\ stmt = [j \in Job |-> [n \in Node |-> "package"]]
    /\ way = [j \in Job |-> [n \in Node |-> "none"]]
    /\ placed = [j \in Job |-> {}]
    /\ tx = [j \in Job |-> NoRows]
-----------------------------------------------------------------------------
(* The reads, each a statement of its own outside the transaction.         *)

\* snapshotPinnedDependencies: the trees are collected, the roots are asked for.
\* A lock file that did not parse contributes no root.
Start(j) ==
    /\ pc[j] = "idle"
    /\ unread' = [unread EXCEPT ![j] = Roots[BuildOf[j]]]
    /\ pc' = [pc EXCEPT ![j] = IF Roots[BuildOf[j]] = {} THEN "manifest" ELSE "roots"]
    /\ UNCHANGED <<tables, todo, stmt, way, placed, tx>>

\* One query asks for a full slice of ids, the last one for what is left.
IsSlice(S, ids) ==
    /\ S # {}
    /\ S \subseteq ids
    /\ Cardinality(S) = SliceSize \/ (S = ids /\ Cardinality(S) < SliceSize)

\* What a query on manifest_dependency_node sees: committed rows only.
VisibleDirty(S) == S \cap (node \cup UNION {tx[k].node : k \in Job})
Visible(S) == S \cap node

\* The trees under the unknown roots make up dependencyNodeMap.
ReadRootsShallow(j, S) ==
    /\ pc[j] = "roots" /\ IsSlice(S, unread[j])
    /\ LET left  == unread[j] \ S
           found == todo[j] \cup (S \ Visible(S))
       IN  /\ todo' = [todo EXCEPT ![j] = found]
           /\ unread' = [unread EXCEPT ![j] = IF left # {} THEN left ELSE found]
           /\ pc' = [pc EXCEPT ![j] = IF left # {} THEN "roots"
                                      ELSE IF found = {} THEN "manifest" ELSE "nodes"]
    /\ UNCHANGED <<tables, stmt, way, placed, tx>>

ReadRoots(j, S) ==
    /\ pc[j] = "roots" /\ IsSlice(S, unread[j])
    /\ LET left  == unread[j] \ S
           found == todo[j] \cup UNION {Subtree[r] : r \in S \ Visible(S)}
       IN  /\ todo' = [todo EXCEPT ![j] = found]
           /\ unread' = [unread EXCEPT ![j] = IF left # {} THEN left ELSE found]
           /\ pc' = [pc EXCEPT ![j] = IF left # {} THEN "roots"
                                      ELSE IF found = {} THEN "manifest" ELSE "nodes"]
    /\ UNCHANGED <<tables, stmt, way, placed, tx>>

\* Known ids leave the map; nothing left means nothing to insert.
ReadNodes(j, S) ==
    /\ pc[j] = "nodes" /\ IsSlice(S, unread[j])
    /\ LET left == unread[j] \ S
           kept == todo[j] \ Visible(S)
       IN  /\ todo' = [todo EXCEPT ![j] = kept]
           /\ unread' = [unread EXCEPT ![j] = left]
           /\ pc' = [pc EXCEPT ![j] = IF left # {} THEN "nodes"
                                      ELSE IF kept = {} THEN "manifest" ELSE "insert"]
    /\ UNCHANGED <<tables, stmt, way, placed, tx>>
-----------------------------------------------------------------------------
(* The transaction.                                                        *)

\* `Array.from(dependencyNodeMap.values()).sort()` has no comparator, so it
\* leaves the objects in the order the walk put them in the map.
Before(j, m, n) == Rank[BuildOf[j]][m] < Rank[BuildOf[j]][n]

SliceNo(j, n) == Cardinality({m \in todo[j] : Before(j, m, n)}) \div SliceSize

\* How many queries n's release id has taken before this statement: a package that
\* was not found takes an INSERT, and one that another inserted meanwhile two more.
Lag == [w \in Way |-> IF w = "met" THEN 2 ELSE IF w = "inserted" THEN 1 ELSE 0]
Sent == [s \in Statement |-> IF s \in {"package", "reselect"} THEN 0
                             ELSE IF s \in {"addPackage", "release"} THEN 1
                             ELSE IF s = "addRelease" THEN 2 ELSE 3]
Turn(j, n) == Lag[way[j][n]] + Sent[stmt[j][n]]

\* insertNodesToDatabase runs the queries of all nodes of a slice (Promise.all) on
\* one connection, first come first served: a node's next query is queued when its
\* last is answered, behind those of the others.
NextStatementUnordered(j, n, s) ==
    /\ pc[j] = "insert"
    /\ n \in todo[j] /\ stmt[j][n] = s
    /\ \A m \in todo[j] : SliceNo(j, m) < SliceNo(j, n) => m \in placed[j]

NextStatement(j, n, s) ==
    /\ pc[j] = "insert"
    /\ n \in todo[j] /\ stmt[j][n] = s
    /\ \A m \in todo[j] :
        /\ SliceNo(j, m) < SliceNo(j, n) => m \in placed[j]
        /\ SliceNo(j, m) = SliceNo(j, n) /\ stmt[j][m] # "done" =>
              \/ Turn(j, n) < Turn(j, m)
              \/ Turn(j, n) = Turn(j, m) /\ ~Before(j, m, n)

\* The INSERT of a slice's nodes waits for all their releases.
NextNode(j, n) ==
    /\ pc[j] = "insert"
    /\ n \in todo[j] \ placed[j]
    /\ \A m \in todo[j] :
        /\ SliceNo(j, m) <= SliceNo(j, n) => stmt[j][m] = "done"
        /\ Before(j, m, n) => m \in placed[j]

\* The row that is to be inserted for n has the key of an uncommitted row of k.
PackageTaken(j, n, k) == j # k /\ PackageOf(BuildOf[j], n) \in tx[k].package
ReleaseTaken(j, n, k) == j # k /\ ReleaseOf(BuildOf[j], n) \in tx[k].release
NodeTaken(j, n, k) == j # k /\ n \in tx[k].node

\* j's next statement waits for the transaction of k to end.
WaitsFor(j, k) ==
    \/ \E n \in Node : PackageTaken(j, n, k) /\ NextStatement(j, n, "addPackage")
    \/ \E n \in Node : ReleaseTaken(j, n, k) /\ NextStatement(j, n, "addRelease")
    \/ \E n \in Node : NodeTaken(j, n, k) /\ NextNode(j, n)

\* upsertAndGetPackageId looks for the row first.
SelectPackage(j, n) ==
    /\ NextStatement(j, n, "package")
    /\ LET found == PackageOf(BuildOf[j], n) \in package \cup tx[j].package
       IN  /\ stmt' = [stmt EXCEPT ![j][n] = IF found THEN "release" ELSE "addPackage"]
           /\ way' = [way EXCEPT ![j][n] = IF found THEN "found" ELSE "none"]
    /\ UNCHANGED <<tables, pc, unread, todo, placed, tx>>

\* INSERT ... ON CONFLICT DO NOTHING returns no id when the row is there by now.
InsertPackage(j, n) ==
    /\ NextStatement(j, n, "addPackage")
    /\ \A k \in Job : ~PackageTaken(j, n, k)
    /\ LET key == PackageOf(BuildOf[j], n)
           met == key \in package \cup tx[j].package
       IN  /\ tx' = [tx EXCEPT ![j].package = @ \cup ({key} \ package)]
           /\ stmt' = [stmt EXCEPT ![j][n] = IF met THEN "reselect" ELSE "release"]
           /\ way' = [way EXCEPT ![j][n] = IF met THEN "met" ELSE "inserted"]
    /\ UNCHANGED <<tables, pc, unread, todo, placed>>

ReselectPackage(j, n) ==
    /\ NextStatement(j, n, "reselect")
    /\ stmt' = [stmt EXCEPT ![j][n] = "release"]
    /\ UNCHANGED <<tables, pc, unread, todo, way, placed, tx>>

\* getPackageReleaseId.
SelectRelease(j, n) ==
    /\ NextStatement(j, n, "release")
    /\ stmt' = [stmt EXCEPT ![j][n] =
          IF ReleaseOf(BuildOf[j], n) \in release \cup tx[j].release
          THEN "done" ELSE "addRelease"]
    /\ UNCHANGED <<tables, pc, unread, todo, way, placed, tx>>

\* INSERT ... ON CONFLICT DO UPDATE also locks a row that was committed meanwhile.
InsertRelease(j, n) ==
    /\ NextStatement(j, n, "addRelease")
    /\ \A k \in Job : ~ReleaseTaken(j, n, k)
    /\ tx' = [tx EXCEPT ![j].release = @ \cup {ReleaseOf(BuildOf[j], n)}]
    /\ stmt' = [stmt EXCEPT ![j][n] = "done"]
    /\ UNCHANGED <<tables, pc, unread, todo, way, placed>>

\* INSERT INTO manifest_dependency_node ... ON CONFLICT DO NOTHING, a row at a time.
InsertNode(j, n) ==
    /\ NextNode(j, n)
    /\ \A k \in Job : ~NodeTaken(j, n, k)
    /\ tx' = [tx EXCEPT ![j].node = @ \cup ({n} \ node)]
    /\ placed' = [placed EXCEPT ![j] = @ \cup {n}]
    /\ UNCHANGED <<tables, pc, unread, todo, stmt, way>>

InsertEdgesUnawaited(j) ==
    /\ pc[j] = "insert"
    /\ tx' = [tx EXCEPT ![j].edge = EdgesOf(todo[j]) \ edge]
    /\ pc' = [pc EXCEPT ![j] = "commit"]
    /\ UNCHANGED <<tables, unread, todo, stmt, way, placed>>

\* insertEdgesToDatabase, after the nodes: the edges of every node of the map.
InsertEdges(j) ==
    /\ pc[j] = "insert"
    /\ placed[j] = todo[j]
    /\ tx' = [tx EXCEPT ![j].edge = EdgesOf(todo[j]) \ edge]
    /\ pc' = [pc EXCEPT ![j] = "commit"]
    /\ UNCHANGED <<tables, unread, todo, stmt, way, placed>>

\* What the activity had in its variables is gone when it goes on, or fails.
Forget(j) ==
    /\ unread' = [unread EXCEPT ![j] = {}]
    /\ todo' = [todo EXCEPT ![j] = {}]
    /\ stmt' = [stmt EXCEPT ![j] = [n \in Node |-> "package"]]
    /\ way' = [way EXCEPT ![j] = [n \in Node |-> "none"]]
    /\ placed' = [placed EXCEPT ![j] = {}]

CommitLeaky(j) ==
    /\ pc[j] = "commit"
    /\ package' = package \cup tx[j].package
    /\ release' = release \cup tx[j].release
    /\ node' = node \cup tx[j].node
    /\ edge' = edge \cup tx[j].edge
    /\ pc' = [pc EXCEPT ![j] = "manifest"]
    /\ Forget(j)
    /\ UNCHANGED <<manifest, tx>>

Commit(j) ==
    /\ pc[j] = "commit"
    /\ package' = package \cup tx[j].package
    /\ release' = release \cup tx[j].release
    /\ node' = node \cup tx[j].node
    /\ edge' = edge \cup tx[j].edge
    /\ tx' = [tx EXCEPT ![j] = NoRows]
    /\ pc' = [pc EXCEPT ![j] = "manifest"]
    /\ Forget(j)
    /\ UNCHANGED manifest

InsertManifestsOfJob(j) ==
    /\ pc[j] = "manifest"
    /\ manifest' = manifest \cup {j}
    /\ pc' = [pc EXCEPT ![j] = "done"]
    /\ UNCHANGED <<node, edge, package, release, unread, todo, stmt, way, placed, tx>>

\* insertPackageManifestsIntoDatabase: `one` rejects when ON CONFLICT DO NOTHING
\* returns no row, so a second job of the build fails here.
InsertManifests(j) ==
    /\ pc[j] = "manifest"
    /\ \/ /\ BuildOf[j] \notin manifest
          /\ manifest' = manifest \cup {BuildOf[j]}
          /\ pc' = [pc EXCEPT ![j] = "done"]
       \/ /\ BuildOf[j] \in manifest
          /\ pc' = [pc EXCEPT ![j] = "failed"]
          /\ UNCHANGED manifest
    /\ UNCHANGED <<node, edge, package, release, unread, todo, stmt, way, placed, tx>>
-----------------------------------------------------------------------------
(* Failures.  Either way the transaction is rolled back.                   *)

Rollback(j) ==
    /\ pc' = [pc EXCEPT ![j] = "failed"]
    /\ tx' = [tx EXCEPT ![j] = NoRows]
    /\ Forget(j)
    /\ UNCHANGED tables

\* The worker dies or a query fails.
Abort(j) ==
    /\ pc[j] \in {"roots", "nodes", "insert", "commit", "manifest"}
    /\ Rollback(j)

\* Transactions that wait for each other in a cycle.
Cycle(S) ==
    /\ S # {}
    /\ \A j \in S : (\E k \in S : WaitsFor(j, k)) /\ (\E k \in S : WaitsFor(k, j))

\* Postgres looks for a cycle when a wait lasts, and aborts a transaction of it.
DeadlockVictim(j) ==
    /\ \E k \in Job : WaitsFor(j, k)
    /\ \E S \in SUBSET Job : j \in S /\ Cycle(S)
    /\ Rollback(j)

Step(j) ==
    \/ Start(j)
    \/ \E S \in SUBSET unread[j] : ReadRoots(j, S) \/ ReadNodes(j, S)
    \/ \E n \in todo[j] :
        \/ SelectPackage(j, n) \/ InsertPackage(j, n) \/ ReselectPackage(j, n)
        \/ SelectRelease(j, n) \/ InsertRelease(j, n)
        \/ InsertNode(j, n)
    \/ InsertEdges(j)
    \/ Commit(j)
    \/ InsertManifests(j)

Next == \E j \in Job : Step(j) \/ Abort(j) \/ DeadlockVictim(j)

Spec == Init /\ [][Next]_vars
-----------------------------------------------------------------------------
TypeOK ==
    /\ node \subseteq Node
    /\ edge \subseteq Node \X Node
    /\ package \subseteq PackageKey
    /\ release \subseteq ReleaseKey
    /\ manifest \subseteq Build
    /\ pc \in [Job -> PC]
    /\ unread \in [Job -> SUBSET Node]
    /\ todo \in [Job -> SUBSET Node]
    /\ stmt \in [Job -> [Node -> Statement]]
    /\ way \in [Job -> [Node -> Way]]
    /\ placed \in [Job -> SUBSET Node]
    /\ tx \in [Job -> [package: SUBSET PackageKey, release: SUBSET ReleaseKey,
                       node: SUBSET Node, edge: SUBSET (Node \X Node)]]

\* A reader that follows the committed graph from any committed node finds
\* every dependency and every edge: skipping known ids (lines 395-397) never
\* leaves a hole, whatever the other jobs commit, abort or have in flight.
GraphClosed ==
    \A p \in node : Child[p] \subseteq node /\ \A c \in Child[p] : <<p, c>> \in edge

\* A stored manifest can be loaded as complete trees, although its rows are
\* written by another transaction than the nodes', and perhaps by another job.
ManifestTreesStored ==
    \A b \in manifest : \A r \in Roots[b] : Subtree[r] \subseteq node

\* When a job inserts its edges, both ends of each exist: no foreign key of
\* manifest_dependency_edge can fail, also for children it skipped as known.
EdgeEndsExist ==
    \A j \in Job : pc[j] = "insert" /\ placed[j] = todo[j] =>
        \A e \in EdgesOf(todo[j]) : {e[1], e[2]} \subseteq node \cup tx[j].node

\* Edge inserts never wait: once two open transactions are past their nodes they
\* have no new edge in common, so only the order of the other rows can
\* deadlock (the code sorts the edges).
EdgesNeverContend ==
    \A j, k \in Job :
        j # k /\ pc[j] = "insert" /\ placed[j] = todo[j] =>
            EdgesOf(todo[j]) \cap tx[k].edge = {}

\* "We need to sort these in order to help the database avoid deadlocking"
\* (line 418): node inserts of two jobs never wait for each other.
DeadlockFree == \A S \in SUBSET Job : ~Cycle(S)

\* What the sort is to achieve, and what it takes besides: the jobs insert their
\* common nodes in one order and in the same slices, no two nodes are versions of
\* one package, and the jobs found the same packages known.
SameOrder(S, ord) ==
    /\ \A j \in S : \A m, n \in todo[j] : Before(j, m, n) <=> ord[m] < ord[n]
    /\ \A j, k \in S : \A m \in todo[j], n \in todo[k] : m # n => ord[m] # ord[n]
SameSlices(S) ==
    \A j, k \in S : \A n \in todo[j] \cap todo[k] : SliceNo(j, n) = SliceNo(k, n)
OneNodePerPackage(S) ==
    \A j, k \in S : \A m \in todo[j], n \in todo[k] :
        PackageOf(BuildOf[j], m) = PackageOf(BuildOf[k], n) => m = n
SamePackagesFound(S) ==
    \A j, k \in S : \A n \in todo[j] \cap todo[k] :
        way[j][n] = "found" => way[k][n] \in {"found", "none"}

\* Jobs that agree in these four never wait for each other in a circle, whatever
\* else they found committed.  Without the second a later slice of one is an earlier
\* one of the other; without the third they lock the package for different nodes;
\* without the fourth the new packages' releases come after those of later nodes.
OrderPreventsDeadlock ==
    \A S \in SUBSET Job : Cycle(S) => \A b \in Build :
        ~(SameOrder(S, Rank[b]) /\ SameSlices(S) /\ OneNodePerPackage(S) /\ SamePackagesFound(S))

\* The tables behave as the abstract dependency graph.
Graph == INSTANCE DependencyGraph
            WITH Node <- Node, Child <- Child, Build <- Build, Roots <- Roots,
                 node <- node, edge <- edge, manifest <- manifest
ImplementsGraph == Graph!GSpec
=============================================================================
