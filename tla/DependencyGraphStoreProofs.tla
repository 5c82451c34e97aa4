-------------------- MODULE DependencyGraphStoreProofs --------------------
(***************************************************************************)
(* What holds of DependencyGraphStore for any builds, jobs and graphs.     *)
(***************************************************************************)
EXTENDS DependencyGraphStore, TLAPS, FiniteSetTheorems, WellFoundedInduction

\* The committed edges are exactly those of the committed nodes.
GraphExact ==
    /\ \A p \in node : Child[p] \subseteq node
    /\ edge = EdgesOf(node)

ManifestRooted == \A b \in manifest : Roots[b] \subseteq node

\* Below the nodes a job will insert there are only such nodes, or known ones.
WalkClosed(j) ==
    pc[j] \in {"idle", "roots", "nodes", "insert", "commit"} =>
        \A p \in todo[j] : Child[p] \subseteq todo[j] \cup node

RootsCovered(j) ==
    /\ pc[j] = "roots" => Roots[BuildOf[j]] \subseteq unread[j] \cup todo[j] \cup node
    /\ pc[j] \in {"nodes", "insert", "commit"} => Roots[BuildOf[j]] \subseteq todo[j] \cup node
    /\ pc[j] = "manifest" => Roots[BuildOf[j]] \subseteq node

\* How far the transaction's inserts of nodes are.
NodesPlaced(j) ==
    /\ placed[j] \subseteq todo[j]
    /\ tx[j].node \subseteq placed[j]
    /\ pc[j] \in {"idle", "roots", "nodes"} => placed[j] = {}
    /\ pc[j] \in {"insert", "commit"} => placed[j] \subseteq node \cup tx[j].node
    /\ pc[j] = "commit" => placed[j] = todo[j]

EdgesPlaced(j) ==
    /\ pc[j] \notin {"insert", "commit"} => tx[j].node = {}
    /\ pc[j] # "commit" => tx[j].edge = {}
    /\ pc[j] = "commit" => /\ EdgesOf(todo[j]) \subseteq edge \cup tx[j].edge
                           /\ tx[j].edge \subseteq EdgesOf(tx[j].node)

\* A node is committed, or in at most one open transaction.
NodesExclusive ==
    \A j \in Job : /\ tx[j].node \cap node = {}
                   /\ \A k \in Job : j # k => tx[j].node \cap tx[k].node = {}

JobInv(j) == WalkClosed(j) /\ RootsCovered(j) /\ NodesPlaced(j) /\ EdgesPlaced(j)

IInv ==
    /\ GraphExact
    /\ ManifestRooted
    /\ \A j \in Job : JobInv(j)
    /\ NodesExclusive
-----------------------------------------------------------------------------
\* The walk of a tree reaches its root and, with a node, the nodes below it, as
\* recursePackageGraph visits every dependency of every package.
LEMMA SubtreeClosed ==
    ASSUME NEW r \in Node
    PROVE  /\ r \in Subtree[r]
           /\ Subtree[r] \subseteq Node
           /\ \A p \in Subtree[r] : Child[p] \subseteq Subtree[r]
<1> DEFINE Closed(S) == r \in S /\ \A p \in S : Child[p] \subseteq S
<1>1. Subtree[r] = {m \in Node : \A S \in SUBSET Node : Closed(S) => m \in S}
  BY DEF Subtree
<1>2. r \in Subtree[r] /\ Subtree[r] \subseteq Node
  BY <1>1
<1>3. ASSUME NEW p \in Subtree[r], NEW c \in Child[p] PROVE c \in Subtree[r]
  <2>1. p \in Node /\ c \in Node
    BY <1>1, StoreAssumption
  <2>2. ASSUME NEW S \in SUBSET Node, Closed(S) PROVE c \in S
    BY <1>1, <2>2
  <2> QED
    BY <1>1, <2>1, <2>2
<1> QED
  BY <1>2, <1>3

\* Nothing else is in a subtree: a closed set of stored nodes that holds the root
\* holds the tree that loadTree reads.
LEMMA SubtreeLeast ==
    ASSUME NEW S \in SUBSET Node, NEW r \in S, \A p \in S : Child[p] \subseteq S
    PROVE  Subtree[r] \subseteq S
  BY DEF Subtree

\* insertEdges needs no case distinction between old and new nodes.
LEMMA EdgesOfUnion ==
    ASSUME NEW M \in SUBSET Node, NEW N \in SUBSET Node
    PROVE  EdgesOf(M \cup N) = EdgesOf(M) \cup EdgesOf(N)
  BY DEF EdgesOf

\* Keys are of their sets, whatever node of whichever build they are for.
LEMMA KeyTypes ==
    ASSUME NEW j \in Job, NEW n \in Node
    PROVE  /\ PackageOf(BuildOf[j], n) \in PackageKey
           /\ ReleaseOf(BuildOf[j], n) \in ReleaseKey
  BY StoreAssumption DEF PackageKey, ReleaseKey

\* What an open transaction has inserted.
Rows == [package: SUBSET PackageKey, release: SUBSET ReleaseKey,
         node: SUBSET Node, edge: SUBSET (Node \X Node)]

\* Every table row, job variable and program counter keeps its type.
THEOREM TypeCorrect == Spec => []TypeOK
<1>1. Init => TypeOK
  BY DEF Init, TypeOK, PC, NoRows, Statement, Way
<1>2. TypeOK /\ [Next]_vars => TypeOK'
  <2> SUFFICES ASSUME TypeOK, [Next]_vars PROVE TypeOK'
    OBVIOUS
  <2> USE DEF TypeOK, PC
  <2>0. [n \in Node |-> "package"] \in [Node -> Statement] /\ [n \in Node |-> "none"] \in [Node -> Way]
    BY DEF Statement, Way
  <2>12. ASSUME NEW j \in Job, Forget(j)
         PROVE  /\ unread' \in [Job -> SUBSET Node] /\ todo' \in [Job -> SUBSET Node]
                /\ stmt' \in [Job -> [Node -> Statement]] /\ way' \in [Job -> [Node -> Way]]
                /\ placed' \in [Job -> SUBSET Node]
    BY <2>0, <2>12 DEF Forget
  <2>1. ASSUME NEW j \in Job, Start(j) PROVE TypeOK'
    BY <2>1, StoreAssumption DEF Start, tables
  <2>2. ASSUME NEW j \in Job, NEW S \in SUBSET unread[j], ReadRoots(j, S) PROVE TypeOK'
    <3>1. UNION {Subtree[r] : r \in S \ Visible(S)} \subseteq Node
      BY SubtreeClosed
    <3> QED
      BY <2>2, <3>1 DEF ReadRoots, tables
  <2>3. ASSUME NEW j \in Job, NEW S \in SUBSET unread[j], ReadNodes(j, S) PROVE TypeOK'
    BY <2>3 DEF ReadNodes, tables
  <2>4. ASSUME NEW j \in Job, NEW n \in todo[j],
               SelectPackage(j, n) \/ ReselectPackage(j, n) \/ SelectRelease(j, n)
        PROVE  TypeOK'
    <3>1. CASE SelectPackage(j, n)
      BY <3>1 DEF SelectPackage, tables, Statement, Way
    <3>2. CASE ReselectPackage(j, n)
      BY <3>2 DEF ReselectPackage, tables, Statement
    <3>3. CASE SelectRelease(j, n)
      BY <3>3 DEF SelectRelease, tables, Statement
    <3> QED
      BY <2>4, <3>1, <3>2, <3>3
  <2>11. ASSUME NEW j \in Job, NEW n \in todo[j], InsertPackage(j, n) \/ InsertRelease(j, n)
         PROVE  TypeOK'
    <3>2. stmt' \in [Job -> [Node -> Statement]] /\ way' \in [Job -> [Node -> Way]]
      <4>1. CASE InsertPackage(j, n)
        BY <4>1 DEF InsertPackage, Statement, Way
      <4>2. CASE InsertRelease(j, n)
        BY <4>2 DEF InsertRelease, Statement
      <4> QED
        BY <2>11, <4>1, <4>2
    <3>3. tx' \in [Job -> Rows]
      <4>1. tx \in [Job -> Rows]
        BY DEF Rows
      <4>2. \E row \in Rows : tx' = [tx EXCEPT ![j] = row]
        <5>1. CASE InsertPackage(j, n)
          <6>1. [tx[j] EXCEPT !.package = @ \cup ({PackageOf(BuildOf[j], n)} \ package)] \in Rows
            BY KeyTypes DEF Rows
          <6>2. tx' = [tx EXCEPT ![j] =
                        [tx[j] EXCEPT !.package = @ \cup ({PackageOf(BuildOf[j], n)} \ package)]]
            BY <5>1 DEF InsertPackage
          <6> QED
            BY <6>1, <6>2
        <5>2. CASE InsertRelease(j, n)
          <6>1. [tx[j] EXCEPT !.release = @ \cup {ReleaseOf(BuildOf[j], n)}] \in Rows
            BY KeyTypes DEF Rows
          <6>2. tx' = [tx EXCEPT ![j] =
                        [tx[j] EXCEPT !.release = @ \cup {ReleaseOf(BuildOf[j], n)}]]
            BY <5>2 DEF InsertRelease
          <6> QED
            BY <6>1, <6>2
        <5> QED
          BY <2>11, <5>1, <5>2
      <4> QED
        BY <4>1, <4>2
    <3>4. UNCHANGED <<tables, pc, unread, todo, placed>>
      BY <2>11 DEF InsertPackage, InsertRelease
    <3> QED
      BY <3>2, <3>3, <3>4 DEF tables, Rows
  <2>5. ASSUME NEW j \in Job, NEW n \in todo[j], InsertNode(j, n) PROVE TypeOK'
    <3>1. n \in Node
      OBVIOUS
    <3>2. [tx[j] EXCEPT !.node = @ \cup ({n} \ node)] \in Rows
      BY <3>1 DEF Rows
    <3>3. tx' \in [Job -> Rows]
      <4>1. tx \in [Job -> Rows]
        BY DEF Rows
      <4>2. tx' = [tx EXCEPT ![j] = [tx[j] EXCEPT !.node = @ \cup ({n} \ node)]]
        BY <2>5 DEF InsertNode
      <4> QED
        BY <3>2, <4>1, <4>2
    <3>4. placed' \in [Job -> SUBSET Node]
      BY <2>5, <3>1 DEF InsertNode
    <3> QED
      BY <2>5, <3>3, <3>4 DEF InsertNode, tables, Rows
  <2>6. ASSUME NEW j \in Job, InsertEdges(j) PROVE TypeOK'
    <3>1. EdgesOf(todo[j]) \ edge \in SUBSET (Node \X Node)
      BY DEF EdgesOf
    <3>2. [tx[j] EXCEPT !.edge = EdgesOf(todo[j]) \ edge] \in Rows
      BY <3>1 DEF Rows
    <3>3. tx' \in [Job -> Rows]
      <4>1. tx \in [Job -> Rows]
        BY DEF Rows
      <4>2. tx' = [tx EXCEPT ![j] = [tx[j] EXCEPT !.edge = EdgesOf(todo[j]) \ edge]]
        BY <2>6 DEF InsertEdges
      <4> QED
        BY <3>2, <4>1, <4>2
    <3>4. pc' \in [Job -> PC]
      BY <2>6 DEF InsertEdges
    <3> QED
      BY <2>6, <3>3, <3>4 DEF InsertEdges, tables, Rows
  <2>7. ASSUME NEW j \in Job, Commit(j) PROVE TypeOK'
    BY <2>7, <2>12 DEF Commit, NoRows
  <2>8. ASSUME NEW j \in Job, InsertManifests(j) PROVE TypeOK'
    <3>1. manifest' \subseteq Build
      <4>1. BuildOf[j] \in Build
        BY StoreAssumption
      <4> QED
        BY <2>8, <4>1 DEF InsertManifests
    <3>2. pc' \in [Job -> PC]
      BY <2>8 DEF InsertManifests
    <3> QED
      BY <2>8, <3>1, <3>2 DEF InsertManifests
  <2>9. ASSUME NEW j \in Job, Rollback(j) PROVE TypeOK'
    BY <2>9, <2>12 DEF Rollback, tables, NoRows
  <2>10. CASE UNCHANGED vars
    BY <2>10 DEF vars
  <2> QED
    BY <2>1, <2>2, <2>3, <2>4, <2>5, <2>6, <2>7, <2>8, <2>9, <2>10, <2>11
    DEF Next, Step, Abort, DeadlockVictim
<1> QED
  BY <1>1, <1>2, PTL DEF Spec
-----------------------------------------------------------------------------
\* The other jobs' variables, and the tables this invariant speaks of, stay.
OthersStay(j) ==
    /\ UNCHANGED <<node, edge, manifest>>
    /\ \A k \in Job \ {j} :
        /\ pc'[k] = pc[k] /\ unread'[k] = unread[k] /\ todo'[k] = todo[k]
        /\ placed'[k] = placed[k] /\ tx'[k] = tx[k]

\* A step of one job's own variables need only be looked at for that job.
LEMMA LocalStep ==
    ASSUME IInv, NEW j \in Job, OthersStay(j), JobInv(j)',
           tx'[j].node \cap node = {},
           \A k \in Job \ {j} : tx'[j].node \cap tx[k].node = {}
    PROVE  IInv'
<1>1. GraphExact' /\ ManifestRooted'
  BY DEF IInv, OthersStay, GraphExact, ManifestRooted, EdgesOf
<1>2. ASSUME NEW k \in Job, k # j PROVE JobInv(k)'
  <2>1. JobInv(k)
    BY DEF IInv
  <2> QED
    BY <1>2, <2>1 DEF OthersStay, JobInv, WalkClosed, RootsCovered, NodesPlaced,
                      EdgesPlaced, EdgesOf
<1>3. NodesExclusive'
  BY DEF IInv, OthersStay, NodesExclusive
<1> QED
  BY <1>1, <1>2, <1>3 DEF IInv

\* When a job's own transaction keeps its nodes, or drops them, they stay exclusive.
LEMMA LocalStepKeepingNodes ==
    ASSUME IInv, NEW j \in Job, OthersStay(j), JobInv(j)',
           tx'[j].node \subseteq tx[j].node
    PROVE  IInv'
<1>1. tx[j].node \cap node = {} /\ \A k \in Job \ {j} : tx[j].node \cap tx[k].node = {}
  BY DEF IInv, NodesExclusive
<1>2. tx'[j].node \cap node = {} /\ \A k \in Job \ {j} : tx'[j].node \cap tx[k].node = {}
  BY <1>1
<1> QED
  BY <1>2, LocalStep

\* Empty tables are closed.
LEMMA InitIInv == Init => IInv
  BY DEF Init, IInv, GraphExact, ManifestRooted, JobInv, WalkClosed, RootsCovered,
         NodesPlaced, EdgesPlaced, NodesExclusive, NoRows, EdgesOf

\* A job starts with the trees of its build and no transaction.
LEMMA StartIInv ==
    ASSUME TypeOK, IInv, NEW j \in Job, Start(j)
    PROVE  IInv'
<1>1. OthersStay(j) /\ tx' = tx
  BY DEF Start, OthersStay, tables, TypeOK
<1>2. JobInv(j)
  BY DEF IInv
<1>3. JobInv(j)'
  <2>1. pc'[j] = IF Roots[BuildOf[j]] = {} THEN "manifest" ELSE "roots"
    BY DEF Start, TypeOK
  <2>2. unread'[j] = Roots[BuildOf[j]] /\ UNCHANGED <<tables, todo, placed, tx>>
    BY DEF Start, TypeOK
  <2>3. pc[j] = "idle"
    BY DEF Start
  <2> QED
    BY <1>2, <2>1, <2>2, <2>3 DEF JobInv, WalkClosed, RootsCovered, NodesPlaced,
                                  EdgesPlaced, tables
<1> QED
  BY <1>1, <1>3, LocalStepKeepingNodes

\* Whole trees are added for the unknown roots, so the walk stays closed, and a
\* root that was asked for is now in the walk or known.
LEMMA ReadRootsIInv ==
    ASSUME TypeOK, IInv, NEW j \in Job, NEW S \in SUBSET unread[j], ReadRoots(j, S)
    PROVE  IInv'
<1> DEFINE left == unread[j] \ S
           new == UNION {Subtree[r] : r \in S \ Visible(S)}
           found == todo[j] \cup new
<1>1. OthersStay(j) /\ tx' = tx
  BY DEF ReadRoots, OthersStay, tables, TypeOK
<1>2. JobInv(j) /\ pc[j] = "roots"
  BY DEF IInv, ReadRoots
<1>3. /\ todo'[j] = found
      /\ pc'[j] = IF left # {} THEN "roots" ELSE IF found = {} THEN "manifest" ELSE "nodes"
      /\ unread'[j] = IF left # {} THEN left ELSE found
      /\ UNCHANGED <<node, edge, placed, tx>>
  BY DEF ReadRoots, tables, TypeOK
<1>4. S \subseteq new \cup node
  <2>1. ASSUME NEW r \in S, r \notin node PROVE r \in Subtree[r]
    BY SubtreeClosed DEF TypeOK
  <2> QED
    BY <2>1 DEF Visible
<1>5. \A p \in found : Child[p] \subseteq found \cup node
  <2>1. ASSUME NEW p \in new PROVE Child[p] \subseteq new
    <3>1. PICK r \in S \ Visible(S) : p \in Subtree[r]
      OBVIOUS
    <3> QED
      BY <3>1, SubtreeClosed DEF TypeOK
  <2>2. \A p \in todo[j] : Child[p] \subseteq todo[j] \cup node
    BY <1>2 DEF JobInv, WalkClosed
  <2> QED
    BY <2>1, <2>2
<1>6. Roots[BuildOf[j]] \subseteq left \cup found \cup node
  BY <1>2, <1>4 DEF JobInv, RootsCovered
<1> HIDE DEF left, new, found
<1>7. WalkClosed(j)' /\ RootsCovered(j)'
  BY <1>3, <1>5, <1>6 DEF WalkClosed, RootsCovered
<1>8. NodesPlaced(j)' /\ EdgesPlaced(j)'
  BY <1>2, <1>3 DEF JobInv, NodesPlaced, EdgesPlaced
<1> QED
  BY <1>1, <1>7, <1>8, LocalStepKeepingNodes DEF JobInv

\* Only committed nodes leave the walk.
LEMMA ReadNodesIInv ==
    ASSUME TypeOK, IInv, NEW j \in Job, NEW S \in SUBSET unread[j], ReadNodes(j, S)
    PROVE  IInv'
<1> DEFINE left == unread[j] \ S
           kept == todo[j] \ Visible(S)
<1>1. OthersStay(j) /\ tx' = tx
  BY DEF ReadNodes, OthersStay, tables, TypeOK
<1>2. JobInv(j) /\ pc[j] = "nodes"
  BY DEF IInv, ReadNodes
<1>3. /\ todo'[j] = kept
      /\ pc'[j] = IF left # {} THEN "nodes" ELSE IF kept = {} THEN "manifest" ELSE "insert"
      /\ UNCHANGED <<node, edge, placed, tx>>
  BY DEF ReadNodes, tables, TypeOK
<1>4. todo[j] \subseteq kept \cup node /\ kept \subseteq todo[j]
  BY DEF Visible
<1> HIDE DEF left, kept
<1>5. WalkClosed(j)' /\ RootsCovered(j)'
  BY <1>2, <1>3, <1>4 DEF JobInv, WalkClosed, RootsCovered
<1>6. NodesPlaced(j)' /\ EdgesPlaced(j)'
  BY <1>2, <1>3 DEF JobInv, NodesPlaced, EdgesPlaced
<1> QED
  BY <1>1, <1>5, <1>6, LocalStepKeepingNodes DEF JobInv

\* Looking packages and releases up, and storing them, changes no node or edge.
LEMMA ReleaseIdIInv ==
    ASSUME TypeOK, IInv, NEW j \in Job, NEW n \in todo[j],
           \/ SelectPackage(j, n) \/ InsertPackage(j, n) \/ ReselectPackage(j, n)
           \/ SelectRelease(j, n) \/ InsertRelease(j, n)
    PROVE  IInv'
<1>1. OthersStay(j)
  BY DEF SelectPackage, InsertPackage, ReselectPackage, SelectRelease, InsertRelease,
         OthersStay, tables, TypeOK
<1>2. JobInv(j)
  BY DEF IInv
<1>3. /\ tx'[j].node = tx[j].node /\ tx'[j].edge = tx[j].edge
      /\ UNCHANGED <<node, edge, pc, unread, todo, placed>>
  BY DEF SelectPackage, InsertPackage, ReselectPackage, SelectRelease, InsertRelease,
         tables, TypeOK
<1>4. JobInv(j)'
  BY <1>2, <1>3 DEF JobInv, WalkClosed, RootsCovered, NodesPlaced, EdgesPlaced
<1> QED
  BY <1>1, <1>3, <1>4, LocalStepKeepingNodes

\* The wait for a conflicting INSERT is what keeps the new row exclusive.
LEMMA InsertNodeIInv ==
    ASSUME TypeOK, IInv, NEW j \in Job, NEW n \in todo[j], InsertNode(j, n)
    PROVE  IInv'
<1>1. OthersStay(j)
  BY DEF InsertNode, OthersStay, tables, TypeOK
<1>2. JobInv(j)
  BY DEF IInv
<1>3. pc[j] = "insert" /\ n \in todo[j] /\ n \in Node
  BY DEF InsertNode, NextNode, TypeOK
<1>4. /\ tx'[j].node = tx[j].node \cup ({n} \ node)
      /\ tx'[j].edge = tx[j].edge
      /\ placed'[j] = placed[j] \cup {n}
      /\ UNCHANGED <<node, edge, pc, unread, todo>>
  BY DEF InsertNode, tables, TypeOK
<1>5. JobInv(j)'
  <2>1. WalkClosed(j)' /\ RootsCovered(j)'
    BY <1>2, <1>4 DEF JobInv, WalkClosed, RootsCovered
  <2>2. NodesPlaced(j)'
    BY <1>2, <1>3, <1>4 DEF JobInv, NodesPlaced
  <2>3. EdgesPlaced(j)'
    BY <1>2, <1>3, <1>4 DEF JobInv, EdgesPlaced
  <2> QED
    BY <2>1, <2>2, <2>3 DEF JobInv
<1>6. \A k \in Job \ {j} : n \notin tx[k].node
  BY DEF InsertNode, NodeTaken
<1>7. tx'[j].node \cap node = {} /\ \A k \in Job \ {j} : tx'[j].node \cap tx[k].node = {}
  BY <1>4, <1>6 DEF IInv, NodesExclusive
<1> QED
  BY <1>1, <1>5, <1>7, LocalStep

\* A new edge starts at a new node: those of known nodes are known.
LEMMA InsertEdgesIInv ==
    ASSUME TypeOK, IInv, NEW j \in Job, InsertEdges(j)
    PROVE  IInv'
<1>1. OthersStay(j)
  BY DEF InsertEdges, OthersStay, tables, TypeOK
<1>2. JobInv(j) /\ GraphExact
  BY DEF IInv
<1>3. /\ tx'[j].node = tx[j].node
      /\ tx'[j].edge = EdgesOf(todo[j]) \ edge
      /\ pc[j] = "insert" /\ pc'[j] = "commit" /\ placed[j] = todo[j]
      /\ UNCHANGED <<node, edge, unread, todo, placed>>
  BY DEF InsertEdges, tables, TypeOK
<1>4. EdgesOf(todo[j]) \ edge \subseteq EdgesOf(tx[j].node)
  <2>1. todo[j] \subseteq node \cup tx[j].node
    BY <1>2, <1>3 DEF JobInv, NodesPlaced
  <2>2. edge = EdgesOf(node)
    BY <1>2 DEF GraphExact
  <2> QED
    BY <2>1, <2>2 DEF EdgesOf
<1>5. JobInv(j)'
  <2>1. WalkClosed(j)' /\ RootsCovered(j)' /\ NodesPlaced(j)'
    BY <1>2, <1>3 DEF JobInv, WalkClosed, RootsCovered, NodesPlaced
  <2>2. EdgesPlaced(j)'
    BY <1>3, <1>4 DEF EdgesPlaced, EdgesOf
  <2> QED
    BY <2>1, <2>2 DEF JobInv
<1> QED
  BY <1>1, <1>3, <1>5, LocalStepKeepingNodes

\* What a commit does to the tables: the nodes come with all their edges, and
\* with the nodes below them.
LEMMA CommitPublishes ==
    ASSUME TypeOK, IInv, NEW j \in Job, Commit(j)
    PROVE  /\ \A p \in tx[j].node : Child[p] \subseteq node \cup tx[j].node
           /\ node' = node \cup tx[j].node
           /\ edge' = edge \cup EdgesOf(tx[j].node)
<1>1. JobInv(j) /\ pc[j] = "commit"
  BY DEF IInv, Commit
<1>2. placed[j] = todo[j] /\ tx[j].node \subseteq todo[j] /\ todo[j] \subseteq node \cup tx[j].node
  BY <1>1 DEF JobInv, NodesPlaced
<1>3. \A p \in tx[j].node : Child[p] \subseteq node \cup tx[j].node
  BY <1>1, <1>2 DEF JobInv, WalkClosed
<1>4. EdgesOf(tx[j].node) \subseteq edge \cup tx[j].edge
  <2>1. EdgesOf(tx[j].node) \subseteq EdgesOf(todo[j])
    BY <1>2 DEF EdgesOf
  <2> QED
    BY <1>1, <2>1 DEF JobInv, EdgesPlaced
<1>5. tx[j].edge \subseteq EdgesOf(tx[j].node)
  BY <1>1 DEF JobInv, EdgesPlaced
<1> QED
  BY <1>3, <1>4, <1>5 DEF Commit

\* A commit adds closed trees to a closed graph, and takes no row of another job.
LEMMA CommitIInv ==
    ASSUME TypeOK, IInv, NEW j \in Job, Commit(j)
    PROVE  IInv'
<1>1. /\ pc[j] = "commit" /\ pc' = [pc EXCEPT ![j] = "manifest"]
      /\ tx' = [tx EXCEPT ![j] = NoRows]
      /\ todo' = [todo EXCEPT ![j] = {}] /\ unread' = [unread EXCEPT ![j] = {}]
      /\ placed' = [placed EXCEPT ![j] = {}]
      /\ UNCHANGED manifest
  BY DEF Commit, Forget
<1>2. JobInv(j) /\ GraphExact /\ ManifestRooted /\ NodesExclusive
  BY DEF IInv
<1>3. GraphExact'
  <2>1. \A p \in node' : Child[p] \subseteq node'
    BY <1>2, CommitPublishes DEF GraphExact
  <2>2. EdgesOf(node \cup tx[j].node) = EdgesOf(node) \cup EdgesOf(tx[j].node)
    BY EdgesOfUnion DEF TypeOK
  <2>3. edge' = EdgesOf(node \cup tx[j].node)
    BY <1>2, <2>2, CommitPublishes DEF GraphExact
  <2>4. EdgesOf(node)' = EdgesOf(node \cup tx[j].node)
    BY CommitPublishes DEF EdgesOf
  <2> QED
    BY <2>1, <2>3, <2>4 DEF GraphExact
<1>4. node \subseteq node' /\ edge \subseteq edge'
  BY CommitPublishes
<1>5. ManifestRooted'
  BY <1>1, <1>2, <1>4 DEF ManifestRooted
<1>6. JobInv(j)'
  <2>1. Roots[BuildOf[j]] \subseteq node'
    BY <1>1, <1>2, CommitPublishes DEF JobInv, RootsCovered, NodesPlaced
  <2>2. pc'[j] = "manifest" /\ tx'[j] = NoRows /\ todo'[j] = {} /\ placed'[j] = {}
    BY <1>1 DEF TypeOK
  <2>3. NodesPlaced(j)' /\ EdgesPlaced(j)'
    BY <1>1, <1>2, <2>2 DEF JobInv, NodesPlaced, EdgesPlaced, NoRows
  <2> QED
    BY <2>1, <2>2, <2>3 DEF JobInv, WalkClosed, RootsCovered
<1>7. ASSUME NEW k \in Job, k # j PROVE JobInv(k)'
  <2>1. JobInv(k)
    BY DEF IInv
  <2>2. /\ pc'[k] = pc[k] /\ tx'[k] = tx[k]
        /\ todo'[k] = todo[k] /\ unread'[k] = unread[k] /\ placed'[k] = placed[k]
    BY <1>1, <1>7 DEF TypeOK
  <2>3. WalkClosed(k)' /\ RootsCovered(k)'
    BY <1>1, <1>4, <2>1, <2>2 DEF JobInv, WalkClosed, RootsCovered
  <2>4. NodesPlaced(k)'
    BY <1>1, <1>4, <2>1, <2>2 DEF JobInv, NodesPlaced
  <2>5. EdgesPlaced(k)'
    BY <1>1, <1>4, <2>1, <2>2 DEF JobInv, EdgesPlaced, EdgesOf
  <2> QED
    BY <2>3, <2>4, <2>5 DEF JobInv
<1>8. NodesExclusive'
  <2>1. \A k \in Job : tx'[k] = IF k = j THEN NoRows ELSE tx[k]
    BY <1>1 DEF TypeOK
  <2> QED
    BY <1>2, <2>1, CommitPublishes DEF NodesExclusive, NoRows
<1> QED
  BY <1>3, <1>5, <1>6, <1>7, <1>8 DEF IInv

\* A job writes its manifests when all its trees are stored.
LEMMA InsertManifestsIInv ==
    ASSUME TypeOK, IInv, NEW j \in Job, InsertManifests(j)
    PROVE  IInv'
<1>1. /\ pc[j] = "manifest" /\ manifest' \in {manifest, manifest \cup {BuildOf[j]}}
      /\ \E p \in {"done", "failed"} : pc' = [pc EXCEPT ![j] = p]
      /\ UNCHANGED <<node, edge, unread, todo, placed, tx>>
  BY DEF InsertManifests
<1>2. GraphExact'
  BY <1>1 DEF IInv, GraphExact, EdgesOf
<1>3. ManifestRooted'
  <2>1. Roots[BuildOf[j]] \subseteq node
    BY <1>1 DEF IInv, JobInv, RootsCovered
  <2> QED
    BY <1>1, <2>1 DEF IInv, ManifestRooted
<1>4. ASSUME NEW k \in Job PROVE JobInv(k)'
  <2>1. JobInv(k)
    BY DEF IInv
  <2>2. k # j => pc'[k] = pc[k]
    BY <1>1 DEF TypeOK
  <2>3. pc'[j] \in {"done", "failed"}
    BY <1>1 DEF TypeOK
  <2>4. WalkClosed(k)' /\ RootsCovered(k)'
    BY <1>1, <2>1, <2>2, <2>3 DEF JobInv, WalkClosed, RootsCovered
  <2>5. NodesPlaced(k)' /\ EdgesPlaced(k)'
    BY <1>1, <2>1, <2>2, <2>3 DEF JobInv, NodesPlaced, EdgesPlaced, EdgesOf
  <2> QED
    BY <2>4, <2>5 DEF JobInv
<1>5. NodesExclusive'
  BY <1>1 DEF IInv, NodesExclusive
<1> QED
  BY <1>2, <1>3, <1>4, <1>5 DEF IInv

\* A transaction that is rolled back leaves nothing the others rely on.
LEMMA RollbackIInv ==
    ASSUME TypeOK, IInv, NEW j \in Job, Rollback(j)
    PROVE  IInv'
<1>1. OthersStay(j)
  BY DEF Rollback, Forget, OthersStay, tables, TypeOK
<1>2. JobInv(j)
  BY DEF IInv
<1>3. pc'[j] = "failed" /\ tx'[j] = NoRows /\ todo'[j] = {} /\ placed'[j] = {}
  BY DEF Rollback, Forget, TypeOK
<1>4. JobInv(j)'
  BY <1>2, <1>3 DEF JobInv, WalkClosed, RootsCovered, NodesPlaced, EdgesPlaced, NoRows
<1> QED
  BY <1>1, <1>3, <1>4, LocalStepKeepingNodes DEF NoRows

\* Steps outside the store change none of its variables.
LEMMA StutterIInv ==
    ASSUME IInv, UNCHANGED vars
    PROVE  IInv'
  BY DEF vars, IInv, GraphExact, ManifestRooted, JobInv, WalkClosed, RootsCovered,
         NodesPlaced, EdgesPlaced, NodesExclusive, EdgesOf

\* The invariant the results below follow from: jobs that read committed ids only
\* and hold their new rows exclusively compose to a closed graph.
THEOREM Invariant == Spec => []IInv
<1>1. TypeOK /\ IInv /\ [Next]_vars => IInv'
  BY StartIInv, ReadRootsIInv, ReadNodesIInv, ReleaseIdIInv, InsertNodeIInv,
     InsertEdgesIInv, CommitIInv, InsertManifestsIInv, RollbackIInv, StutterIInv
  DEF Next, Step, Abort, DeadlockVictim
<1> QED
  BY <1>1, InitIInv, TypeCorrect, PTL DEF Spec
-----------------------------------------------------------------------------
\* Dropping the ids that are known never leaves a hole in the committed graph.
THEOREM GraphIsClosed == Spec => []GraphClosed
<1>1. TypeOK /\ IInv => GraphClosed
  <2> SUFFICES ASSUME TypeOK, IInv, NEW p \in node, NEW c \in Child[p]
               PROVE  c \in node /\ <<p, c>> \in edge
    BY DEF GraphClosed
  <2>1. c \in node /\ p \in Node /\ edge = EdgesOf(node)
    BY DEF IInv, GraphExact, TypeOK
  <2> QED
    BY <2>1 DEF EdgesOf, TypeOK
<1> QED
  BY <1>1, TypeCorrect, Invariant, PTL

\* A manifest that is stored can be loaded as complete trees.
THEOREM ManifestsLoad == Spec => []ManifestTreesStored
<1>1. TypeOK /\ IInv => ManifestTreesStored
  <2> SUFFICES ASSUME TypeOK, IInv, NEW b \in manifest, NEW r \in Roots[b]
               PROVE  Subtree[r] \subseteq node
    BY DEF ManifestTreesStored
  <2>1. r \in node /\ node \in SUBSET Node /\ \A p \in node : Child[p] \subseteq node
    BY DEF IInv, ManifestRooted, GraphExact, TypeOK
  <2> QED
    BY <2>1, SubtreeLeast
<1> QED
  BY <1>1, TypeCorrect, Invariant, PTL

\* No insert of an edge fails on a foreign key.
THEOREM EdgeEnds == Spec => []EdgeEndsExist
<1>1. IInv => EdgeEndsExist
  <2> SUFFICES ASSUME IInv, NEW j \in Job, pc[j] = "insert", placed[j] = todo[j],
                      NEW e \in EdgesOf(todo[j])
               PROVE  {e[1], e[2]} \subseteq node \cup tx[j].node
    BY DEF EdgeEndsExist
  <2>1. JobInv(j)
    BY DEF IInv
  <2>2. todo[j] \subseteq node \cup tx[j].node
    BY <2>1 DEF JobInv, NodesPlaced
  <2>3. e[1] \in todo[j] /\ e[2] \in todo[j] \cup node
    BY <2>1 DEF JobInv, WalkClosed, EdgesOf
  <2> QED
    BY <2>2, <2>3
<1> QED
  BY <1>1, Invariant, PTL

\* Inserts of edges never wait for each other, so they cannot be in a deadlock.
THEOREM EdgesExclusive == Spec => []EdgesNeverContend
<1>1. IInv => EdgesNeverContend
  <2> SUFFICES ASSUME IInv, NEW j \in Job, NEW k \in Job, j # k,
                      pc[j] = "insert", placed[j] = todo[j],
                      NEW e \in EdgesOf(todo[j]), e \in tx[k].edge
               PROVE  FALSE
    BY DEF EdgesNeverContend
  <2>1. JobInv(j) /\ JobInv(k)
    BY DEF IInv
  <2>2. e[1] \in node \cup tx[j].node
    BY <2>1 DEF JobInv, NodesPlaced, EdgesOf
  <2>3. e[1] \in tx[k].node
    BY <2>1 DEF JobInv, EdgesPlaced, EdgesOf
  <2> QED
    BY <2>2, <2>3 DEF IInv, NodesExclusive
<1> QED
  BY <1>1, Invariant, PTL

\* The tables, written by concurrent transactions that fail, wait and are
\* repeated, behave as a graph that only grows by closed sets of nodes.
THEOREM Refinement == Spec => ImplementsGraph
<1>1. Init => Graph!GInit
  BY DEF Init, Graph!GInit
<1>2. TypeOK /\ IInv /\ [Next]_vars => [Graph!GNext]_<<node, edge, manifest>>
  <2> SUFFICES ASSUME TypeOK, IInv, [Next]_vars
               PROVE  Graph!GNext \/ UNCHANGED <<node, edge, manifest>>
    OBVIOUS
  <2>1. ASSUME NEW j \in Job, Commit(j) PROVE Graph!GNext
    <3>1. Graph!Publish(tx[j].node)
      BY <2>1, CommitPublishes DEF Commit, Graph!Publish, EdgesOf, Graph!EdgesOf
    <3>2. tx[j].node \in SUBSET Node
      BY DEF TypeOK
    <3> QED
      BY <3>1, <3>2 DEF Graph!GNext
  <2>2. ASSUME NEW j \in Job, InsertManifests(j)
        PROVE  Graph!GNext \/ UNCHANGED <<node, edge, manifest>>
    <3>1. Roots[BuildOf[j]] \subseteq node /\ BuildOf[j] \in Build
      BY <2>2, StoreAssumption DEF InsertManifests, IInv, JobInv, RootsCovered
    <3>2. CASE BuildOf[j] \notin manifest
      <4>1. Graph!Describe(BuildOf[j])
        BY <2>2, <3>1, <3>2 DEF InsertManifests, Graph!Describe
      <4> QED
        BY <3>1, <4>1 DEF Graph!GNext
    <3>3. CASE BuildOf[j] \in manifest
      BY <2>2, <3>3 DEF InsertManifests
    <3> QED
      BY <3>2, <3>3
  <2>3. ASSUME NEW j \in Job,
               \/ Start(j) \/ InsertEdges(j) \/ Rollback(j)
               \/ \E S \in SUBSET unread[j] : ReadRoots(j, S) \/ ReadNodes(j, S)
               \/ \E n \in todo[j] :
                    \/ SelectPackage(j, n) \/ InsertPackage(j, n) \/ ReselectPackage(j, n)
                    \/ SelectRelease(j, n) \/ InsertRelease(j, n) \/ InsertNode(j, n)
        PROVE  UNCHANGED <<node, edge, manifest>>
    BY <2>3 DEF Start, InsertEdges, Rollback, ReadRoots, ReadNodes, SelectPackage,
                InsertPackage, ReselectPackage, SelectRelease, InsertRelease, InsertNode, tables
  <2> QED
    BY <2>1, <2>2, <2>3 DEF Next, Step, Abort, DeadlockVictim, vars
<1> QED
  BY <1>1, <1>2, TypeCorrect, Invariant, PTL DEF Spec, ImplementsGraph, Graph!GSpec
-----------------------------------------------------------------------------
(* The order in which a transaction comes by its locks: slice by slice, in *)
(* a slice by how many queries a node took before, and in the order of the *)
(* walk where these are equal; after all of them the slice's nodes.        *)

\* The counts of queries, spelled out.
LEMMA Counts ==
    /\ Lag["none"] = 0 /\ Lag["found"] = 0 /\ Lag["inserted"] = 1 /\ Lag["met"] = 2
    /\ Sent["package"] = 0 /\ Sent["addPackage"] = 1 /\ Sent["reselect"] = 0
    /\ Sent["release"] = 1 /\ Sent["addRelease"] = 2 /\ Sent["done"] = 3
    /\ \A w \in Way : Lag[w] \in Nat /\ Lag[w] <= 2
    /\ \A s \in Statement : Sent[s] \in Nat
  BY DEF Lag, Way, Sent, Statement

\* A turn is a number, zero for the first query.
LEMMA TurnType ==
    ASSUME TypeOK, NEW j \in Job, NEW n \in Node
    PROVE  Turn(j, n) \in Nat
<1>1. way[j][n] \in Way /\ stmt[j][n] \in Statement
  BY DEF TypeOK
<1> QED
  BY <1>1, Counts DEF Turn

\* Asking for the releases of a slice begins when the slices before are inserted;
\* a node is inserted after the releases of its slice and the nodes before it.
SlicesInOrder(j) ==
    \A m, n \in todo[j] :
        stmt[j][n] # "package" /\ SliceNo(j, m) < SliceNo(j, n) => m \in placed[j]
NodesInOrder(j) ==
    \A n \in placed[j], m \in todo[j] :
        /\ SliceNo(j, m) <= SliceNo(j, n) => stmt[j][m] = "done"
        /\ Before(j, m, n) => m \in placed[j]

\* How the transaction came by the id of a package says where it is with it now.
WaysFit(j) ==
    \A n \in Node :
        /\ stmt[j][n] \in {"package", "addPackage"} => way[j][n] = "none"
        /\ stmt[j][n] = "reselect" => way[j][n] = "met"
        /\ stmt[j][n] \in {"release", "addRelease", "done"} => way[j][n] # "none"
WaysTrue(j) ==
    \A n \in todo[j] :
        /\ way[j][n] = "inserted" => PackageOf(BuildOf[j], n) \in tx[j].package
        /\ way[j][n] = "met" => PackageOf(BuildOf[j], n) \in package \cup tx[j].package

\* What is left to ask in the slice comes after the query that n had at turn t.
Passed(j, t, n) ==
    \A m \in todo[j] : SliceNo(j, m) = SliceNo(j, n) /\ stmt[j][m] # "done" =>
        t < Turn(j, m) \/ (t = Turn(j, m) /\ m # n /\ ~Before(j, m, n))

\* A package or release that is locked was inserted for a node, in its turn.
PackagesInOrder(j) ==
    \A p \in tx[j].package : \E n \in todo[j] :
        PackageOf(BuildOf[j], n) = p /\ way[j][n] = "inserted" /\ Passed(j, 1, n)
ReleasesInOrder(j) ==
    \A r \in tx[j].release : \E n \in todo[j] :
        /\ ReleaseOf(BuildOf[j], n) = r /\ stmt[j][n] = "done"
        /\ Passed(j, 2 + Lag[way[j][n]], n)

LockInv(j) ==
    /\ pc[j] \in {"idle", "roots", "nodes"} =>
            /\ stmt[j] = [n \in Node |-> "package"] /\ way[j] = [n \in Node |-> "none"]
            /\ placed[j] = {} /\ tx[j].package = {} /\ tx[j].release = {}
    /\ pc[j] = "insert" =>
            /\ SlicesInOrder(j) /\ NodesInOrder(j) /\ WaysFit(j) /\ WaysTrue(j)
            /\ PackagesInOrder(j) /\ ReleasesInOrder(j)

\* A package is committed, or in at most one open transaction.
PackagesExclusive ==
    \A j \in Job : /\ tx[j].package \cap package = {}
                   /\ \A k \in Job : j # k => tx[j].package \cap tx[k].package = {}

LocksInOrder == PackagesExclusive /\ \A j \in Job : LockInv(j)

\* A job's locks are in order as long as its own variables stay.
LEMMA LockInvStays ==
    ASSUME NEW j \in Job, LockInv(j), package \subseteq package',
           tx'[j].package = tx[j].package, tx'[j].release = tx[j].release,
           pc'[j] = pc[j], todo'[j] = todo[j], stmt'[j] = stmt[j],
           way'[j] = way[j], placed'[j] = placed[j]
    PROVE  LockInv(j)'
<1>1. /\ SlicesInOrder(j) => SlicesInOrder(j)'
      /\ NodesInOrder(j) => NodesInOrder(j)'
  BY DEF SlicesInOrder, NodesInOrder, SliceNo, Before
<1>2. /\ WaysFit(j) => WaysFit(j)'
      /\ WaysTrue(j) => WaysTrue(j)'
  BY DEF WaysFit, WaysTrue
<1>3. \A t, n : Passed(j, t, n) => Passed(j, t, n)'
  BY DEF Passed, SliceNo, Before, Turn
<1>4. /\ PackagesInOrder(j) => PackagesInOrder(j)'
      /\ ReleasesInOrder(j) => ReleasesInOrder(j)'
  BY <1>3 DEF PackagesInOrder, ReleasesInOrder
<1> QED
  BY <1>1, <1>2, <1>4 DEF LockInv

\* Before a transaction begins there is nothing to order.
LEMMA LockInvTrivial ==
    ASSUME NEW j \in Job, LockInv(j), pc[j] \in {"idle", "roots", "nodes"},
           todo'[j] \subseteq Node, stmt'[j] = stmt[j], way'[j] = way[j],
           placed'[j] = placed[j], tx'[j] = tx[j]
    PROVE  LockInv(j)'
<1>1. /\ stmt'[j] = [n \in Node |-> "package"] /\ way'[j] = [n \in Node |-> "none"]
      /\ placed'[j] = {} /\ tx'[j].package = {} /\ tx'[j].release = {}
  BY DEF LockInv
<1>2. \A n \in Node : stmt'[j][n] = "package" /\ way'[j][n] = "none"
  BY <1>1
<1> QED
  BY <1>1, <1>2 DEF LockInv, SlicesInOrder, NodesInOrder, WaysFit, WaysTrue, PackagesInOrder,
                    ReleasesInOrder

\* What the queries for a release id have in common: the one whose turn it is runs,
\* and the node's next has a later turn.
StatementRun(j, n) ==
    /\ \E s \in Statement \ {"done"} : NextStatement(j, n, s)
    /\ pc'[j] = "insert" /\ todo'[j] = todo[j] /\ placed'[j] = placed[j]
    /\ \A m \in Node \ {n} : stmt'[j][m] = stmt[j][m] /\ way'[j][m] = way[j][m]
    /\ stmt'[j][n] \in Statement \ {"package"}
    /\ Turn(j, n)' \in Nat /\ Turn(j, n) < Turn(j, n)'
    /\ package' = package

\* Such a query keeps the order: it passes its turn, and no turn that was passed
\* comes again.
LEMMA RunKeepsOrder ==
    ASSUME TypeOK, NEW j \in Job, LockInv(j), NEW n \in todo[j], StatementRun(j, n)
    PROVE  /\ SlicesInOrder(j)' /\ NodesInOrder(j)'
           /\ \A t \in Nat : t = Turn(j, n) => Passed(j, t, n)'
           /\ \A t \in Nat, m \in todo[j] : Passed(j, t, m) => Passed(j, t, m)'
<1>1. PICK s \in Statement \ {"done"} : NextStatement(j, n, s)
  BY DEF StatementRun
<1>2. /\ pc[j] = "insert" /\ stmt[j][n] # "done" /\ n \in Node /\ todo[j] \subseteq Node
      /\ SlicesInOrder(j) /\ NodesInOrder(j)
  BY <1>1 DEF NextStatement, LockInv, TypeOK
<1>3. /\ todo'[j] = todo[j] /\ placed'[j] = placed[j]
      /\ \A m \in Node : SliceNo(j, m)' = SliceNo(j, m)
      /\ \A m, p \in Node : Before(j, m, p)' = Before(j, m, p)
  BY DEF StatementRun, SliceNo, Before
<1>4. \A m \in Node \ {n} : stmt'[j][m] = stmt[j][m] /\ Turn(j, m)' = Turn(j, m)
  BY DEF StatementRun, Turn
<1>5. Turn(j, n) \in Nat /\ Turn(j, n)' \in Nat /\ Turn(j, n) < Turn(j, n)'
  BY <1>2, TurnType DEF StatementRun
<1>6. \A m \in todo[j] : SliceNo(j, m) < SliceNo(j, n) => m \in placed[j]
  BY <1>1 DEF NextStatement
<1>7. SlicesInOrder(j)'
  <2> SUFFICES ASSUME NEW m \in todo[j], NEW q \in todo[j],
                      stmt'[j][q] # "package", SliceNo(j, m) < SliceNo(j, q)
               PROVE  m \in placed[j]
    BY <1>2, <1>3 DEF SlicesInOrder
  <2> QED
    BY <1>2, <1>4, <1>6 DEF SlicesInOrder
<1>8. NodesInOrder(j)'
  <2> SUFFICES ASSUME NEW q \in placed[j], NEW m \in todo[j]
               PROVE  /\ SliceNo(j, m) <= SliceNo(j, q) => stmt'[j][m] = "done"
                      /\ Before(j, m, q) => m \in placed[j]
    BY <1>2, <1>3 DEF NodesInOrder, TypeOK
  <2>1. /\ SliceNo(j, m) <= SliceNo(j, q) => stmt[j][m] = "done"
        /\ Before(j, m, q) => m \in placed[j]
    BY <1>2 DEF NodesInOrder
  <2>2. m # n => stmt'[j][m] = stmt[j][m]
    BY <1>2, <1>4
  <2> QED
    BY <1>2, <2>1, <2>2
<1>9. ASSUME NEW t \in Nat, t = Turn(j, n) PROVE Passed(j, t, n)'
  <2> SUFFICES ASSUME NEW q \in todo[j], SliceNo(j, q) = SliceNo(j, n), stmt'[j][q] # "done"
               PROVE  t < Turn(j, q)' \/ (t = Turn(j, q)' /\ q # n /\ ~Before(j, q, n))
    BY <1>2, <1>3 DEF Passed
  <2>1. CASE q = n
    BY <1>5, <1>9, <2>1
  <2>2. CASE q # n
    BY <1>1, <1>2, <1>4, <1>9, <2>2 DEF NextStatement
  <2> QED
    BY <2>1, <2>2
<1>10. ASSUME NEW t \in Nat, NEW m \in todo[j], Passed(j, t, m) PROVE Passed(j, t, m)'
  <2> SUFFICES ASSUME NEW q \in todo[j], SliceNo(j, q) = SliceNo(j, m), stmt'[j][q] # "done"
               PROVE  t < Turn(j, q)' \/ (t = Turn(j, q)' /\ q # m /\ ~Before(j, q, m))
    BY <1>2, <1>3 DEF Passed
  <2>1. CASE q = n
    BY <1>2, <1>5, <1>10, <2>1 DEF Passed
  <2>2. CASE q # n
    BY <1>2, <1>4, <1>10, <2>2 DEF Passed
  <2> QED
    BY <2>1, <2>2
<1> QED
  BY <1>7, <1>8, <1>9, <1>10

\* A query that inserts a row does so in its turn, so the locks stay in order.
LEMMA RunKeepsLocks ==
    ASSUME TypeOK, NEW j \in Job, LockInv(j), NEW n \in todo[j], StatementRun(j, n),
           WaysFit(j)', WaysTrue(j)',
           way[j][n] # "none" => way'[j][n] = way[j][n],
           \A p \in tx'[j].package \ tx[j].package :
              p = PackageOf(BuildOf[j], n) /\ way'[j][n] = "inserted" /\ Turn(j, n) = 1,
           \A r \in tx'[j].release \ tx[j].release :
              /\ r = ReleaseOf(BuildOf[j], n) /\ stmt'[j][n] = "done"
              /\ Turn(j, n) = 2 + Lag[way'[j][n]]
    PROVE  LockInv(j)'
<1>1. /\ pc[j] = "insert" /\ stmt[j][n] # "done" /\ n \in Node /\ todo[j] \subseteq Node
      /\ PackagesInOrder(j) /\ ReleasesInOrder(j)
  BY DEF StatementRun, NextStatement, LockInv, TypeOK
<1>2. /\ todo'[j] = todo[j] /\ pc'[j] = "insert"
      /\ \A m \in Node \ {n} : stmt'[j][m] = stmt[j][m] /\ way'[j][m] = way[j][m]
  BY DEF StatementRun
<1>3. Turn(j, n) \in Nat /\ \A w \in Way : Lag[w] \in Nat
  BY <1>1, TurnType, Counts
<1>4. ASSUME NEW p \in tx'[j].package
      PROVE  \E m \in todo[j] :
                PackageOf(BuildOf[j], m) = p /\ way'[j][m] = "inserted" /\ Passed(j, 1, m)'
  <2>1. CASE p \in tx[j].package
    <3>1. PICK m \in todo[j] :
            PackageOf(BuildOf[j], m) = p /\ way[j][m] = "inserted" /\ Passed(j, 1, m)
      BY <1>1, <2>1 DEF PackagesInOrder
    <3>2. way'[j][m] = "inserted"
      BY <1>1, <1>2, <3>1
    <3>3. Passed(j, 1, m)'
      BY <3>1, RunKeepsOrder
    <3> QED
      BY <3>1, <3>2, <3>3
  <2>2. CASE p \notin tx[j].package
    BY <2>2, RunKeepsOrder
  <2> QED
    BY <2>1, <2>2
<1>5. ASSUME NEW r \in tx'[j].release
      PROVE  \E m \in todo[j] : /\ ReleaseOf(BuildOf[j], m) = r /\ stmt'[j][m] = "done"
                                /\ Passed(j, 2 + Lag[way[j][m]], m)'
  <2>1. CASE r \in tx[j].release
    <3>1. PICK m \in todo[j] : /\ ReleaseOf(BuildOf[j], m) = r /\ stmt[j][m] = "done"
                              /\ Passed(j, 2 + Lag[way[j][m]], m)
      BY <1>1, <2>1 DEF ReleasesInOrder
    <3>2. m # n /\ m \in Node
      BY <1>1, <3>1
    <3>3. stmt'[j][m] = "done" /\ way'[j][m] = way[j][m]
      BY <1>2, <3>1, <3>2
    <3>4. ASSUME NEW t \in Nat, t = 2 + Lag[way[j][m]] PROVE Passed(j, t, m)'
      BY <3>1, <3>4, RunKeepsOrder
    <3>5. 2 + Lag[way[j][m]] \in Nat
      BY <1>3, <3>2 DEF TypeOK
    <3> QED
      BY <3>1, <3>3, <3>4, <3>5
  <2>2. CASE r \notin tx[j].release
    BY <1>3, <2>2, RunKeepsOrder
  <2> QED
    BY <2>1, <2>2
<1>6. PackagesInOrder(j)' /\ ReleasesInOrder(j)'
  BY <1>2, <1>4, <1>5 DEF PackagesInOrder, ReleasesInOrder
<1> QED
  BY <1>2, <1>6, RunKeepsOrder DEF LockInv

\* What holds of the node whose query runs, and how its turn is counted before and after.
LEMMA RunningNode ==
    ASSUME TypeOK, NEW j \in Job, LockInv(j), NEW n \in todo[j],
           NEW s \in Statement \ {"done"}, NextStatement(j, n, s)
    PROVE  /\ n \in Node /\ pc[j] = "insert" /\ stmt[j][n] = s
           /\ WaysFit(j) /\ WaysTrue(j)
           /\ way[j][n] \in Way
           /\ Turn(j, n) = Lag[way[j][n]] + Sent[s]
           /\ Turn(j, n)' = Lag[way'[j][n]] + Sent[stmt'[j][n]]
  BY DEF NextStatement, LockInv, Turn, TypeOK

\* The first query: found takes no further one for the package.
LEMMA SelectPackageLocks ==
    ASSUME TypeOK, NEW j \in Job, LockInv(j), NEW n \in todo[j], SelectPackage(j, n)
    PROVE  LockInv(j)'
<1>1. NextStatement(j, n, "package") /\ "package" \in Statement \ {"done"}
  BY DEF SelectPackage, Statement
<1>2. n \in Node /\ stmt[j][n] = "package" /\ way[j][n] = "none"
  BY <1>1, RunningNode DEF WaysFit
<1>3. /\ \/ stmt'[j][n] = "release" /\ way'[j][n] = "found"
         \/ stmt'[j][n] = "addPackage" /\ way'[j][n] = "none"
      /\ \A m \in Node \ {n} : stmt'[j][m] = stmt[j][m] /\ way'[j][m] = way[j][m]
      /\ UNCHANGED <<package, pc, todo, placed, tx>>
  BY <1>2 DEF SelectPackage, tables, TypeOK
<1>4. Turn(j, n) = 0 /\ Turn(j, n)' = 1
  BY <1>1, <1>2, <1>3, RunningNode, Counts
<1>5. StatementRun(j, n)
  BY <1>1, <1>3, <1>4, RunningNode DEF StatementRun, Statement
<1>6. WaysFit(j)'
  BY <1>1, <1>2, <1>3, RunningNode DEF WaysFit
<1>7. WaysTrue(j)'
  BY <1>1, <1>2, <1>3, RunningNode DEF WaysTrue, TypeOK
<1> QED
  BY <1>2, <1>3, <1>5, <1>6, <1>7, RunKeepsLocks

\* A package is locked in the second turn; the one that is met was committed, or is
\* the transaction's own.
LEMMA InsertPackageLocks ==
    ASSUME TypeOK, NEW j \in Job, LockInv(j), NEW n \in todo[j], InsertPackage(j, n)
    PROVE  LockInv(j)'
<1>1. NextStatement(j, n, "addPackage") /\ "addPackage" \in Statement \ {"done"}
  BY DEF InsertPackage, Statement
<1>2. n \in Node /\ stmt[j][n] = "addPackage" /\ way[j][n] = "none"
  BY <1>1, RunningNode DEF WaysFit
<1>3. /\ \/ /\ stmt'[j][n] = "reselect" /\ way'[j][n] = "met"
            /\ PackageOf(BuildOf[j], n) \in package \cup tx[j].package
         \/ /\ stmt'[j][n] = "release" /\ way'[j][n] = "inserted"
            /\ PackageOf(BuildOf[j], n) \notin package
      /\ tx'[j].package = tx[j].package \cup ({PackageOf(BuildOf[j], n)} \ package)
      /\ tx'[j].release = tx[j].release
      /\ \A m \in Node \ {n} : stmt'[j][m] = stmt[j][m] /\ way'[j][m] = way[j][m]
      /\ UNCHANGED <<package, pc, todo, placed>>
  BY <1>2 DEF InsertPackage, tables, TypeOK
<1>4. Turn(j, n) = 1 /\ Turn(j, n)' = 2
  BY <1>1, <1>2, <1>3, RunningNode, Counts
<1>5. StatementRun(j, n)
  BY <1>1, <1>3, <1>4, RunningNode DEF StatementRun, Statement
<1>6. WaysFit(j)'
  BY <1>1, <1>2, <1>3, RunningNode DEF WaysFit
<1>7. WaysTrue(j)'
  BY <1>1, <1>2, <1>3, RunningNode DEF WaysTrue, TypeOK
<1>8. \A p \in tx'[j].package \ tx[j].package :
        p = PackageOf(BuildOf[j], n) /\ way'[j][n] = "inserted"
  BY <1>3
<1> QED
  BY <1>2, <1>3, <1>4, <1>5, <1>6, <1>7, <1>8, RunKeepsLocks

\* The query after a conflict.
LEMMA ReselectPackageLocks ==
    ASSUME TypeOK, NEW j \in Job, LockInv(j), NEW n \in todo[j], ReselectPackage(j, n)
    PROVE  LockInv(j)'
<1>1. NextStatement(j, n, "reselect") /\ "reselect" \in Statement \ {"done"}
  BY DEF ReselectPackage, Statement
<1>2. n \in Node /\ stmt[j][n] = "reselect" /\ way[j][n] = "met"
  BY <1>1, RunningNode DEF WaysFit
<1>3. /\ stmt'[j][n] = "release"
      /\ \A m \in Node \ {n} : stmt'[j][m] = stmt[j][m]
      /\ UNCHANGED <<package, pc, todo, way, placed, tx>>
  BY <1>2 DEF ReselectPackage, tables, TypeOK
<1>4. Turn(j, n) = 2 /\ Turn(j, n)' = 3
  BY <1>1, <1>2, <1>3, RunningNode, Counts
<1>5. StatementRun(j, n)
  BY <1>1, <1>3, <1>4, RunningNode DEF StatementRun, Statement
<1>6. WaysFit(j)'
  BY <1>1, <1>2, <1>3, RunningNode DEF WaysFit
<1>7. WaysTrue(j)'
  BY <1>1, <1>3, RunningNode DEF WaysTrue
<1> QED
  BY <1>3, <1>5, <1>6, <1>7, RunKeepsLocks

\* A release that is found takes no lock.
LEMMA SelectReleaseLocks ==
    ASSUME TypeOK, NEW j \in Job, LockInv(j), NEW n \in todo[j], SelectRelease(j, n)
    PROVE  LockInv(j)'
<1>1. NextStatement(j, n, "release") /\ "release" \in Statement \ {"done"}
  BY DEF SelectRelease, Statement
<1>2. n \in Node /\ stmt[j][n] = "release" /\ way[j][n] # "none" /\ way[j][n] \in Way
  BY <1>1, RunningNode DEF WaysFit
<1>3. /\ stmt'[j][n] \in {"addRelease", "done"}
      /\ \A m \in Node \ {n} : stmt'[j][m] = stmt[j][m]
      /\ UNCHANGED <<package, pc, todo, way, placed, tx>>
  BY <1>2 DEF SelectRelease, tables, TypeOK
<1>4. Turn(j, n) = Lag[way[j][n]] + 1 /\ Turn(j, n)' \in {Lag[way[j][n]] + 2, Lag[way[j][n]] + 3}
  BY <1>1, <1>2, <1>3, RunningNode, Counts
<1>5. Turn(j, n)' \in Nat /\ Turn(j, n) < Turn(j, n)'
  BY <1>2, <1>4, Counts
<1>6. StatementRun(j, n)
  BY <1>1, <1>3, <1>5, RunningNode DEF StatementRun, Statement
<1>7. WaysFit(j)'
  BY <1>1, <1>2, <1>3, RunningNode DEF WaysFit
<1>8. WaysTrue(j)'
  BY <1>1, <1>3, RunningNode DEF WaysTrue
<1> QED
  BY <1>3, <1>6, <1>7, <1>8, RunKeepsLocks

\* A release is locked in the turn after that.
LEMMA InsertReleaseLocks ==
    ASSUME TypeOK, NEW j \in Job, LockInv(j), NEW n \in todo[j], InsertRelease(j, n)
    PROVE  LockInv(j)'
<1>1. NextStatement(j, n, "addRelease") /\ "addRelease" \in Statement \ {"done"}
  BY DEF InsertRelease, Statement
<1>2. n \in Node /\ stmt[j][n] = "addRelease" /\ way[j][n] # "none" /\ way[j][n] \in Way
  BY <1>1, RunningNode DEF WaysFit
<1>3. /\ stmt'[j][n] = "done"
      /\ \A m \in Node \ {n} : stmt'[j][m] = stmt[j][m]
      /\ tx'[j].package = tx[j].package
      /\ tx'[j].release = tx[j].release \cup {ReleaseOf(BuildOf[j], n)}
      /\ UNCHANGED <<package, pc, todo, way, placed>>
  BY <1>2 DEF InsertRelease, tables, TypeOK
<1>4. Turn(j, n) = Lag[way[j][n]] + 2 /\ Turn(j, n)' = Lag[way[j][n]] + 3
  BY <1>1, <1>2, <1>3, RunningNode, Counts
<1>5. /\ Turn(j, n)' \in Nat /\ Turn(j, n) < Turn(j, n)'
      /\ Turn(j, n) = 2 + Lag[way'[j][n]]
  BY <1>2, <1>3, <1>4, Counts
<1>6. StatementRun(j, n)
  BY <1>1, <1>3, <1>5, RunningNode DEF StatementRun, Statement
<1>7. WaysFit(j)'
  BY <1>1, <1>2, <1>3, RunningNode DEF WaysFit
<1>8. WaysTrue(j)'
  BY <1>1, <1>3, RunningNode DEF WaysTrue
<1> QED
  BY <1>3, <1>5, <1>6, <1>7, <1>8, RunKeepsLocks

\* The next node comes after those before it, and after all releases of its slice.
LEMMA InsertNodeLocks ==
    ASSUME TypeOK, NEW j \in Job, LockInv(j), NEW n \in todo[j], InsertNode(j, n)
    PROVE  LockInv(j)'
<1>1. /\ pc[j] = "insert" /\ pc'[j] = "insert"
      /\ \A m \in todo[j] : /\ SliceNo(j, m) <= SliceNo(j, n) => stmt[j][m] = "done"
                            /\ Before(j, m, n) => m \in placed[j]
  BY DEF InsertNode, NextNode, TypeOK
<1>2. /\ placed'[j] = placed[j] \cup {n}
      /\ tx'[j].package = tx[j].package /\ tx'[j].release = tx[j].release
      /\ UNCHANGED <<package, todo, stmt, way>>
  BY DEF InsertNode, tables, TypeOK
<1>3. \A m \in Node : SliceNo(j, m)' = SliceNo(j, m)
  BY <1>2 DEF SliceNo, Before
<1>4. SlicesInOrder(j)'
  BY <1>1, <1>2, <1>3 DEF LockInv, SlicesInOrder, TypeOK
<1>5. NodesInOrder(j)'
  BY <1>1, <1>2, <1>3 DEF LockInv, NodesInOrder, Before, TypeOK
<1>6. WaysFit(j)' /\ WaysTrue(j)'
  BY <1>1, <1>2 DEF LockInv, WaysFit, WaysTrue
<1>7. \A t, m : Passed(j, t, m) => Passed(j, t, m)'
  BY <1>2 DEF Passed, SliceNo, Before, Turn
<1>8. PackagesInOrder(j)' /\ ReleasesInOrder(j)'
  BY <1>1, <1>2, <1>7 DEF LockInv, PackagesInOrder, ReleasesInOrder
<1> QED
  BY <1>1, <1>4, <1>5, <1>6, <1>8 DEF LockInv

\* The wait for a conflicting INSERT keeps a new package row exclusive.
LEMMA PackagesStayExclusive ==
    ASSUME TypeOK, PackagesExclusive, [Next]_vars
    PROVE  PackagesExclusive' /\ package \subseteq package'
<1>1. ASSUME UNCHANGED package, \A j \in Job : tx'[j].package \subseteq tx[j].package
      PROVE  PackagesExclusive' /\ package \subseteq package'
  BY <1>1 DEF PackagesExclusive
<1>2. ASSUME NEW j \in Job, NEW n \in todo[j], InsertPackage(j, n)
      PROVE  PackagesExclusive' /\ package \subseteq package'
  <2>1. /\ \A k \in Job : k # j => PackageOf(BuildOf[j], n) \notin tx[k].package
        /\ tx'[j].package = tx[j].package \cup ({PackageOf(BuildOf[j], n)} \ package)
        /\ \A k \in Job : k # j => tx'[k] = tx[k]
        /\ UNCHANGED package
    BY <1>2 DEF InsertPackage, PackageTaken, tables, TypeOK
  <2> QED
    BY <2>1 DEF PackagesExclusive
<1>3. ASSUME NEW j \in Job, Commit(j)
      PROVE  PackagesExclusive' /\ package \subseteq package'
  <2>1. /\ package' = package \cup tx[j].package
        /\ \A k \in Job : tx'[k] = IF k = j THEN NoRows ELSE tx[k]
    BY <1>3 DEF Commit, TypeOK
  <2> QED
    BY <2>1 DEF PackagesExclusive, NoRows
<1>4. ASSUME NEW j \in Job,
             \/ Start(j) \/ InsertManifests(j) \/ InsertEdges(j) \/ Rollback(j)
             \/ \E S \in SUBSET unread[j] : ReadRoots(j, S) \/ ReadNodes(j, S)
             \/ \E n \in todo[j] : \/ SelectPackage(j, n) \/ ReselectPackage(j, n)
                                   \/ SelectRelease(j, n) \/ InsertRelease(j, n) \/ InsertNode(j, n)
      PROVE  UNCHANGED package /\ \A k \in Job : tx'[k].package \subseteq tx[k].package
  <2>1. UNCHANGED package
    BY <1>4 DEF Start, InsertManifests, InsertEdges, Rollback, ReadRoots, ReadNodes, SelectPackage,
                ReselectPackage, SelectRelease, InsertRelease, InsertNode, tables
  <2>2. CASE tx' = tx
    BY <2>1, <2>2
  <2>3. CASE InsertEdges(j) \/ Rollback(j) \/ \E n \in todo[j] : InsertRelease(j, n) \/ InsertNode(j, n)
    <3>1. \A k \in Job : tx'[k].package \subseteq tx[k].package
      <4>1. CASE InsertEdges(j)
        BY <4>1 DEF InsertEdges, TypeOK
      <4>2. CASE Rollback(j)
        <5>1. \A k \in Job : tx'[k] = IF k = j THEN NoRows ELSE tx[k]
          BY <4>2 DEF Rollback, TypeOK
        <5> QED
          BY <5>1 DEF NoRows
      <4>3. ASSUME NEW n \in todo[j], InsertRelease(j, n) \/ InsertNode(j, n)
            PROVE  \A k \in Job : tx'[k].package \subseteq tx[k].package
        <5>1. tx'[j].package = tx[j].package /\ \A k \in Job : k # j => tx'[k] = tx[k]
          BY <4>3 DEF InsertRelease, InsertNode, TypeOK
        <5> QED
          BY <5>1
      <4> QED
        BY <2>3, <4>1, <4>2, <4>3
    <3> QED
      BY <2>1, <3>1
  <2> QED
    BY <1>4, <2>2, <2>3 DEF Start, InsertManifests, ReadRoots, ReadNodes, SelectPackage,
                            ReselectPackage, SelectRelease
<1>5. UNCHANGED vars => UNCHANGED package /\ \A k \in Job : tx'[k].package \subseteq tx[k].package
  BY DEF vars
<1> QED
  BY <1>1, <1>2, <1>3, <1>4, <1>5 DEF Next, Step, Abort, DeadlockVictim

\* The next statement of each transaction comes after all that it has locked.
THEOREM LockOrder == Spec => []LocksInOrder
<1>1. Init => LocksInOrder
  BY DEF Init, LocksInOrder, LockInv, PackagesExclusive, NoRows
<1>2. TypeOK /\ LocksInOrder /\ [Next]_vars => LocksInOrder'
  <2> SUFFICES ASSUME TypeOK, LocksInOrder, [Next]_vars, NEW k \in Job PROVE LockInv(k)'
    BY PackagesStayExclusive DEF LocksInOrder
  <2>1. LockInv(k) /\ package \subseteq package'
    BY PackagesStayExclusive DEF LocksInOrder
  <2>2. ASSUME NEW j \in Job, Start(j) PROVE LockInv(k)'
    <3>1. CASE j = k
      BY <2>1, <2>2, <3>1, LockInvTrivial DEF Start, TypeOK
    <3>2. CASE j # k
      BY <2>1, <2>2, <3>2, LockInvStays DEF Start, TypeOK
    <3> QED
      BY <3>1, <3>2
  <2>3. ASSUME NEW j \in Job, NEW S \in SUBSET unread[j], ReadRoots(j, S) \/ ReadNodes(j, S)
        PROVE  LockInv(k)'
    <3>1. CASE j = k
      <4>1. todo'[k] \subseteq Node
        BY <2>3, <3>1, SubtreeClosed DEF ReadRoots, ReadNodes, TypeOK
      <4> QED
        BY <2>1, <2>3, <3>1, <4>1, LockInvTrivial DEF ReadRoots, ReadNodes
    <3>2. CASE j # k
      BY <2>1, <2>3, <3>2, LockInvStays DEF ReadRoots, ReadNodes, TypeOK
    <3> QED
      BY <3>1, <3>2
  <2>4. ASSUME NEW j \in Job, NEW n \in todo[j],
               \/ SelectPackage(j, n) \/ InsertPackage(j, n) \/ ReselectPackage(j, n)
               \/ SelectRelease(j, n) \/ InsertRelease(j, n) \/ InsertNode(j, n)
        PROVE  LockInv(k)'
    <3>1. CASE j = k
      BY <2>1, <2>4, <3>1, SelectPackageLocks, InsertPackageLocks, ReselectPackageLocks,
         SelectReleaseLocks, InsertReleaseLocks, InsertNodeLocks
    <3>2. CASE j # k
      BY <2>1, <2>4, <3>2, LockInvStays
      DEF SelectPackage, InsertPackage, ReselectPackage, SelectRelease, InsertRelease,
          InsertNode, TypeOK
    <3> QED
      BY <3>1, <3>2
  <2>5. ASSUME NEW j \in Job, InsertEdges(j) \/ Commit(j) \/ InsertManifests(j) \/ Rollback(j)
        PROVE  LockInv(k)'
    <3>1. CASE j = k
      <4>1. pc'[k] \in {"commit", "manifest", "done", "failed"}
        BY <2>5, <3>1 DEF InsertEdges, Commit, InsertManifests, Rollback, TypeOK
      <4> QED
        BY <4>1 DEF LockInv
    <3>2. CASE j # k
      BY <2>1, <2>5, <3>2, LockInvStays
      DEF InsertEdges, Commit, InsertManifests, Rollback, Forget, TypeOK
    <3> QED
      BY <3>1, <3>2
  <2>6. CASE UNCHANGED vars
    BY <2>1, <2>6, LockInvStays DEF vars
  <2> QED
    BY <2>2, <2>3, <2>4, <2>5, <2>6 DEF Next, Step, Abort, DeadlockVictim
<1> QED
  BY <1>1, <1>2, TypeCorrect, PTL DEF Spec
-----------------------------------------------------------------------------
(* Circles of waits                                                        *)

\* A set of naturals has a least element: the initial segments below its elements
\* are finite sets, whose inclusion is well-founded.
LEMMA LeastNatural ==
    ASSUME NEW S \in SUBSET Nat, S # {}
    PROVE  \E m \in S : \A n \in S : m <= n
<1> DEFINE T == {1..n : n \in S}
<1>1. T \subseteq FiniteSubsetsOf(Nat) /\ T # {}
  <2>1. ASSUME NEW n \in S PROVE IsFiniteSet(1..n) /\ 1..n \in SUBSET Nat
    BY FS_Interval
  <2> QED
    BY <2>1 DEF FiniteSubsetsOf
<1>2. PICK x \in T : \A y \in T : <<y, x>> \notin StrictSubsetOrdering(Nat)
  BY <1>1, FS_StrictSubsetOrderingWellFounded, WFMin
<1>3. PICK m \in S : x = 1..m
  OBVIOUS
<1>4. ASSUME NEW n \in S PROVE m <= n
  <2>1. <<1..n, 1..m>> \notin StrictSubsetOrdering(Nat)
    BY <1>2, <1>3
  <2>2. ~(1..n \subseteq 1..m /\ 1..n # 1..m)
    BY <2>1 DEF StrictSubsetOrdering
  <2>3. n < m => 1..n \subseteq 1..m /\ m \in 1..m /\ m \notin 1..n
    OBVIOUS
  <2> QED
    BY <2>2, <2>3
<1> QED
  BY <1>4

\* When a statement comes in a transaction: its slice, its turn in the slice (that of
\* the nodes' INSERT is the last), and its place in the order of the nodes.
Precedes(a, b) ==
    \/ a[1] < b[1]
    \/ a[1] = b[1] /\ a[2] < b[2]
    \/ a[1] = b[1] /\ a[2] = b[2] /\ a[3] < b[3]

Points == Nat \X Nat \X Nat

\* Of the statements some jobs are at, one is preceded by no other.
LEMMA FirstPoint ==
    ASSUME NEW T \in SUBSET Points, T # {}
    PROVE  \E t \in T : \A u \in T : ~Precedes(u, t)
<1>1. PICK a \in Nat : /\ \E t \in T : t[1] = a
                       /\ \A t \in T : a <= t[1]
  <2> DEFINE A == {t[1] : t \in T}
  <2>1. A \subseteq Nat /\ A # {}
    BY DEF Points
  <2>2. PICK a \in A : \A n \in A : a <= n
    BY <2>1, LeastNatural
  <2> QED
    BY <2>1, <2>2
<1>2. PICK b \in Nat : /\ \E t \in T : t[1] = a /\ t[2] = b
                       /\ \A t \in T : t[1] = a => b <= t[2]
  <2> DEFINE B == {t[2] : t \in {u \in T : u[1] = a}}
  <2>1. B \subseteq Nat /\ B # {}
    BY <1>1 DEF Points
  <2>2. PICK b \in B : \A n \in B : b <= n
    BY <2>1, LeastNatural
  <2> QED
    BY <2>1, <2>2
<1>3. PICK c \in Nat : /\ \E t \in T : t[1] = a /\ t[2] = b /\ t[3] = c
                       /\ \A t \in T : t[1] = a /\ t[2] = b => c <= t[3]
  <2> DEFINE C == {t[3] : t \in {u \in T : u[1] = a /\ u[2] = b}}
  <2>1. C \subseteq Nat /\ C # {}
    BY <1>2 DEF Points
  <2>2. PICK c \in C : \A n \in C : c <= n
    BY <2>1, LeastNatural
  <2> QED
    BY <2>1, <2>2
<1>4. PICK t \in T : t[1] = a /\ t[2] = b /\ t[3] = c
  BY <1>3
<1>5. ASSUME NEW u \in T PROVE ~Precedes(u, t)
  <2>1. u[1] \in Nat /\ u[2] \in Nat /\ u[3] \in Nat
    BY DEF Points
  <2> QED
    BY <1>1, <1>2, <1>3, <1>4, <2>1 DEF Precedes
<1> QED
  BY <1>5

\* Slices are numbered: a walk is finite.
LEMMA SliceNoType ==
    ASSUME TypeOK, NEW j \in Job, NEW n \in Node
    PROVE  SliceNo(j, n) \in Nat
<1>1. {m \in todo[j] : Before(j, m, n)} \in SUBSET Node
  BY DEF TypeOK
<1>2. Cardinality({m \in todo[j] : Before(j, m, n)}) \in Nat
  BY <1>1, FiniteAssumption, FS_Subset, FS_CardinalityType
<1>3. \A c \in Nat, d \in Nat \ {0} : c \div d \in Nat
  OBVIOUS
<1> QED
  BY <1>2, <1>3, StoreAssumption DEF SliceNo

\* The statement that j sends next is for n, and can wait: the INSERT of its package,
\* of its release, or of n itself.
NodeTurn == 5
NextInsert(j, t, n) ==
    \/ t = 1 /\ NextStatement(j, n, "addPackage")
    \/ t = 2 + Lag[way[j][n]] /\ NextStatement(j, n, "addRelease")
    \/ t = NodeTurn /\ NextNode(j, n)

\* j has locked a row in turn t of n.
HasLocked(j, t, n) ==
    /\ n \in todo[j] /\ stmt[j][n] # "package"
    /\ \/ t = 1 /\ Passed(j, t, n)
       \/ t = 2 + Lag[way[j][n]] /\ stmt[j][n] = "done" /\ Passed(j, t, n)
       \/ t = NodeTurn /\ n \in placed[j]

\* A statement that can wait is for a node that is not in place yet.
LEMMA NextInsertType ==
    ASSUME TypeOK, NEW j \in Job, LockInv(j), NEW t, NEW n \in Node, NextInsert(j, t, n)
    PROVE  /\ pc[j] = "insert" /\ n \in todo[j] /\ n \notin placed[j]
           /\ t \in Nat /\ t <= NodeTurn
           /\ t # NodeTurn => /\ stmt[j][n] # "done" /\ t = Turn(j, n)
<1>1. pc[j] = "insert" /\ n \in todo[j]
  BY DEF NextInsert, NextStatement, NextNode
<1>2. way[j][n] \in Way /\ NodesInOrder(j) /\ WaysFit(j)
  BY <1>1 DEF LockInv, TypeOK
<1>3. CASE t = 1 /\ NextStatement(j, n, "addPackage")
  <2>1. stmt[j][n] = "addPackage" /\ way[j][n] = "none"
    BY <1>2, <1>3 DEF NextStatement, WaysFit
  <2>2. n \notin placed[j]
    BY <1>1, <1>2, <2>1, SliceNoType DEF NodesInOrder
  <2> QED
    BY <1>1, <1>3, <2>1, <2>2, Counts DEF Turn, NodeTurn
<1>4. CASE t = 2 + Lag[way[j][n]] /\ NextStatement(j, n, "addRelease")
  <2>1. stmt[j][n] = "addRelease"
    BY <1>4 DEF NextStatement
  <2>2. n \notin placed[j]
    BY <1>1, <1>2, <2>1, SliceNoType DEF NodesInOrder
  <2>3. Lag[way[j][n]] \in Nat /\ Lag[way[j][n]] <= 2
    BY <1>2, Counts
  <2>4. t = Turn(j, n)
    BY <1>4, <2>1, <2>3, Counts DEF Turn
  <2> QED
    BY <1>1, <1>4, <2>1, <2>2, <2>3, <2>4 DEF NodeTurn
<1>5. CASE t = NodeTurn /\ NextNode(j, n)
  BY <1>1, <1>5 DEF NextNode, NodeTurn
<1> QED
  BY <1>3, <1>4, <1>5 DEF NextInsert

\* What k has locked, it has locked before the statement it is at.
LEMMA LockedBeforeNext ==
    ASSUME TypeOK, NEW k \in Job, LockInv(k),
           NEW ord \in [Node -> Nat], SameOrder({k}, ord),
           NEW h, NEW n \in Node, NextInsert(k, h, n),
           NEW g \in Nat, NEW m \in Node, HasLocked(k, g, m)
    PROVE  Precedes(<<SliceNo(k, m), g, ord[m]>>, <<SliceNo(k, n), h, ord[n]>>)
<1>1. /\ pc[k] = "insert" /\ n \in todo[k] /\ n \notin placed[k] /\ h \in Nat /\ h <= NodeTurn
      /\ h # NodeTurn => stmt[k][n] # "done" /\ h = Turn(k, n)
  BY NextInsertType
<1>2. SliceNo(k, m) \in Nat /\ SliceNo(k, n) \in Nat /\ ord[m] \in Nat /\ ord[n] \in Nat
  BY SliceNoType
<1>3. m \in todo[k] /\ stmt[k][m] # "package" /\ SlicesInOrder(k) /\ NodesInOrder(k)
  BY <1>1 DEF HasLocked, LockInv
<1>4. ~(SliceNo(k, n) < SliceNo(k, m))
  BY <1>1, <1>3 DEF SlicesInOrder
<1>5. ASSUME m # n, ~Before(k, n, m) PROVE ord[m] < ord[n]
  BY <1>1, <1>2, <1>3, <1>5 DEF SameOrder
<1>6. CASE SliceNo(k, m) = SliceNo(k, n) /\ g # NodeTurn
  <2>1. Passed(k, g, m) /\ g < NodeTurn
    <3>1. way[k][m] \in Way
      BY DEF TypeOK
    <3> QED
      BY <1>6, <3>1, Counts DEF HasLocked, NodeTurn
  <2>2. CASE h = NodeTurn
    BY <1>6, <2>1, <2>2 DEF Precedes
  <2>3. CASE h # NodeTurn
    <3>1. g < h \/ (g = h /\ n # m /\ ~Before(k, n, m))
      BY <1>1, <1>6, <2>1, <2>3 DEF Passed
    <3> QED
      BY <1>5, <1>6, <3>1 DEF Precedes
  <2> QED
    BY <2>2, <2>3
<1>7. CASE SliceNo(k, m) = SliceNo(k, n) /\ g = NodeTurn
  <2>1. m \in placed[k]
    <3>1. way[k][m] \in Way
      BY DEF TypeOK
    <3> QED
      BY <1>7, <3>1, Counts DEF HasLocked, NodeTurn
  <2>2. stmt[k][n] = "done" /\ ~Before(k, n, m) /\ m # n
    BY <1>1, <1>2, <1>3, <1>7, <2>1 DEF NodesInOrder
  <2>3. h = NodeTurn
    BY <1>1, <2>2
  <2> QED
    BY <1>5, <1>7, <2>2, <2>3 DEF Precedes
<1>8. CASE SliceNo(k, m) < SliceNo(k, n)
  BY <1>8 DEF Precedes
<1> QED
  BY <1>2, <1>4, <1>6, <1>7, <1>8

\* A row of k that a statement of j in the same set waits for, k has locked for the
\* same node and in the same turn: a package found by neither was inserted by one of
\* them, which would exclude the other, or by a third job for both.
LEMMA TakenInSameTurn ==
    ASSUME TypeOK, IInv, LocksInOrder, NEW S \in SUBSET Job,
           OneNodePerPackage(S), SamePackagesFound(S),
           NEW j \in S, NEW k \in S, NEW n \in Node, pc[k] = "insert",
           \/ PackageTaken(j, n, k) /\ NextStatement(j, n, "addPackage")
           \/ ReleaseTaken(j, n, k) /\ NextStatement(j, n, "addRelease")
           \/ NodeTaken(j, n, k) /\ NextNode(j, n)
    PROVE  \E t \in Nat : NextInsert(j, t, n) /\ HasLocked(k, t, n) /\ n \in todo[j]
<1>1. /\ pc[j] = "insert" /\ n \in todo[j] /\ j # k
      /\ todo[j] \subseteq Node /\ todo[k] \subseteq Node
  BY DEF NextStatement, NextNode, PackageTaken, ReleaseTaken, NodeTaken, TypeOK
<1>2. /\ WaysFit(j) /\ WaysTrue(j) /\ WaysFit(k) /\ WaysTrue(k)
      /\ PackagesInOrder(k) /\ ReleasesInOrder(k) /\ NodesInOrder(k)
      /\ PackagesExclusive
  BY <1>1 DEF LocksInOrder, LockInv
<1>3. CASE PackageTaken(j, n, k) /\ NextStatement(j, n, "addPackage")
  <2>1. PICK m \in todo[k] : /\ PackageOf(BuildOf[k], m) = PackageOf(BuildOf[j], n)
                             /\ way[k][m] = "inserted" /\ Passed(k, 1, m)
    BY <1>2, <1>3 DEF PackageTaken, PackagesInOrder
  <2>2. m = n
    BY <1>1, <2>1 DEF OneNodePerPackage
  <2>3. stmt[k][n] # "package"
    BY <1>1, <1>2, <2>1, <2>2 DEF WaysFit
  <2>4. NextInsert(j, 1, n) /\ HasLocked(k, 1, n)
    BY <1>3, <2>1, <2>2, <2>3 DEF NextInsert, HasLocked
  <2> QED
    BY <1>1, <2>4
<1>4. CASE ReleaseTaken(j, n, k) /\ NextStatement(j, n, "addRelease")
  <2>1. PICK m \in todo[k] : /\ ReleaseOf(BuildOf[k], m) = ReleaseOf(BuildOf[j], n)
                             /\ stmt[k][m] = "done" /\ Passed(k, 2 + Lag[way[k][m]], m)
    BY <1>2, <1>4 DEF ReleaseTaken, ReleasesInOrder
  <2>2. PackageOf(BuildOf[k], m) = PackageOf(BuildOf[j], n)
    BY <2>1 DEF ReleaseOf
  <2>3. m = n
    BY <1>1, <2>1, <2>2 DEF OneNodePerPackage
  <2>4. /\ way[j][n] \in {"found", "inserted", "met"}
        /\ way[k][n] \in {"found", "inserted", "met"}
    BY <1>1, <1>2, <1>4, <2>1, <2>3 DEF WaysFit, NextStatement, TypeOK, Way
  <2>5. way[j][n] = "found" <=> way[k][n] = "found"
    BY <1>1, <2>1, <2>3, <2>4 DEF SamePackagesFound
  <2>6. ~(way[j][n] = "inserted" /\ way[k][n] = "met")
    BY <1>1, <1>2, <2>1, <2>2, <2>3 DEF WaysTrue, PackagesExclusive
  <2>7. ~(way[j][n] = "met" /\ way[k][n] = "inserted")
    BY <1>1, <1>2, <2>1, <2>2, <2>3 DEF WaysTrue, PackagesExclusive
  <2>8. way[j][n] = way[k][n]
    BY <2>4, <2>5, <2>6, <2>7
  <2>9. 2 + Lag[way[j][n]] \in Nat
    BY <1>1, Counts DEF TypeOK
  <2>10. NextInsert(j, 2 + Lag[way[j][n]], n) /\ HasLocked(k, 2 + Lag[way[j][n]], n)
    BY <1>4, <2>1, <2>3, <2>8 DEF NextInsert, HasLocked
  <2> QED
    BY <1>1, <2>9, <2>10
<1>5. CASE NodeTaken(j, n, k) /\ NextNode(j, n)
  <2>1. n \in placed[k] /\ n \in todo[k]
    BY <1>5 DEF NodeTaken, IInv, JobInv, NodesPlaced
  <2>2. stmt[k][n] = "done"
    BY <1>1, <1>2, <2>1, SliceNoType DEF NodesInOrder
  <2>3. NextInsert(j, NodeTurn, n) /\ HasLocked(k, NodeTurn, n)
    BY <1>5, <2>1, <2>2 DEF NextInsert, HasLocked
  <2> QED
    BY <1>1, <2>3 DEF NodeTurn
<1> QED
  BY <1>3, <1>4, <1>5

\* Jobs that agree on the order, the slices, the nodes of packages and the packages
\* known never wait for each other in a circle: the first statement of the circle
\* would wait for nobody.
LEMMA NoCircle ==
    ASSUME TypeOK, IInv, LocksInOrder, NEW ord \in [Node -> Nat], NEW S \in SUBSET Job,
           SameOrder(S, ord), SameSlices(S), OneNodePerPackage(S), SamePackagesFound(S)
    PROVE  ~Cycle(S)
<1> SUFFICES ASSUME Cycle(S) PROVE FALSE
  OBVIOUS
<1> DEFINE Point(j, t, n) == <<SliceNo(j, n), t, ord[n]>>
           Q == {q \in S \X Nat \X Node : NextInsert(q[1], q[2], q[3])}
           T == {Point(q[1], q[2], q[3]) : q \in Q}
<1>0. ASSUME NEW j \in S, NEW t \in Nat, NEW n \in Node, NextInsert(j, t, n)
      PROVE  Point(j, t, n) \in T
  <2>1. <<j, t, n>> \in Q
    BY <1>0
  <2> QED
    BY <2>1
<1>1. T \subseteq Points
  BY SliceNoType DEF Points
<1>2. ASSUME NEW j \in S, NEW k \in S, WaitsFor(j, k), pc[k] = "insert"
      PROVE  \E t \in Nat, n \in Node :
                NextInsert(j, t, n) /\ HasLocked(k, t, n) /\ SliceNo(j, n) = SliceNo(k, n)
  <2>1. PICK n \in Node : \/ PackageTaken(j, n, k) /\ NextStatement(j, n, "addPackage")
                          \/ ReleaseTaken(j, n, k) /\ NextStatement(j, n, "addRelease")
                          \/ NodeTaken(j, n, k) /\ NextNode(j, n)
    BY <1>2 DEF WaitsFor
  <2>2. PICK t \in Nat : NextInsert(j, t, n) /\ HasLocked(k, t, n) /\ n \in todo[j]
    BY <1>2, <2>1, TakenInSameTurn
  <2>3. SliceNo(j, n) = SliceNo(k, n)
    BY <2>2 DEF SameSlices, HasLocked
  <2> QED
    BY <2>2, <2>3
<1>3. ASSUME NEW k \in S, NEW h \in Nat, NEW n \in Node, NextInsert(k, h, n)
      PROVE  \E u \in T : Precedes(u, Point(k, h, n))
  <2>1. PICK j \in S : WaitsFor(j, k)
    BY DEF Cycle
  <2>2. pc[k] = "insert" /\ LockInv(k) /\ SameOrder({k}, ord)
    BY <1>3, NextInsertType DEF LocksInOrder, SameOrder
  <2>3. PICK t \in Nat, m \in Node :
           NextInsert(j, t, m) /\ HasLocked(k, t, m) /\ SliceNo(j, m) = SliceNo(k, m)
    BY <1>2, <2>1, <2>2
  <2>4. Precedes(Point(k, t, m), Point(k, h, n))
    BY <1>3, <2>2, <2>3, LockedBeforeNext
  <2>5. Point(j, t, m) \in T
    BY <1>0, <2>3
  <2> QED
    BY <2>3, <2>4, <2>5
<1>4. T # {}
  <2>1. PICK k \in S : TRUE
    BY DEF Cycle
  <2>2. PICK j \in S, i \in S : WaitsFor(j, k) /\ WaitsFor(k, i)
    BY DEF Cycle
  <2>3. pc[k] = "insert"
    BY <2>2 DEF WaitsFor, NextStatement, NextNode
  <2>4. PICK t \in Nat, n \in Node : NextInsert(j, t, n)
    BY <1>2, <2>2, <2>3
  <2> QED
    BY <1>0, <2>4
<1>5. PICK t \in T : \A u \in T : ~Precedes(u, t)
  BY <1>1, <1>4, FirstPoint
<1>6. PICK k \in S, h \in Nat, n \in Node : NextInsert(k, h, n) /\ t = Point(k, h, n)
  BY <1>5
<1> QED
  BY <1>3, <1>5, <1>6

\* No circle of waits among jobs that insert their common nodes in one order and in the
\* same slices, with one node per package and the same packages found: what it would
\* take, besides the sort of line 418, to avoid deadlocks.
THEOREM OrderSuffices ==
    ASSUME NEW ord \in [Node -> Nat]
    PROVE  Spec => [](\A S \in SUBSET Job :
                        SameOrder(S, ord) /\ SameSlices(S) /\ OneNodePerPackage(S)
                            /\ SamePackagesFound(S) => ~Cycle(S))
<1>1. TypeOK /\ IInv /\ LocksInOrder => \A S \in SUBSET Job :
          SameOrder(S, ord) /\ SameSlices(S) /\ OneNodePerPackage(S)
              /\ SamePackagesFound(S) => ~Cycle(S)
  BY NoCircle
<1> QED
  BY <1>1, TypeCorrect, Invariant, LockOrder, PTL

\* With the order of the walks, in particular: deliveries of one build without two
\* versions of a package do not deadlock when they have read the same ids as known and
\* found the same packages.
THEOREM NoDeadlockInOrder == Spec => []OrderPreventsDeadlock
<1>1. TypeOK /\ IInv /\ LocksInOrder => OrderPreventsDeadlock
  BY NoCircle, StoreAssumption DEF OrderPreventsDeadlock
<1> QED
  BY <1>1, TypeCorrect, Invariant, LockOrder, PTL

=============================================================================
