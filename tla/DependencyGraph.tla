------------------------ MODULE DependencyGraph ------------------------
(***************************************************************************)
(* What the dependency graph tables promise the readers of a snapshot      *)
(* (loadTree, the GraphQL API): a node is published together with its      *)
(* edges, never before the nodes under it, and a build's manifests name    *)
(* only root nodes that are published.  How transactions of concurrent     *)
(* snapshot jobs achieve it is DependencyGraphStore.                       *)
(***************************************************************************)
CONSTANTS Node,   \* treeHashId values
          Child,  \* Child[n]: the hashes of the dependencies of n
          Build,
          Roots   \* Roots[b]: the root dependencies of build b

VARIABLES node,      \* rows of manifest_dependency_node
          edge,      \* rows of manifest_dependency_edge
          manifest   \* builds whose resolved_manifest rows are stored

EdgesOf(N) == {e \in Node \X Node : e[1] \in N /\ e[2] \in Child[e[1]]}

GInit == node = {} /\ edge = {} /\ manifest = {}

\* Publish a set of nodes and all their edges; the nodes under them are among
\* those published or were published before.
Publish(N) ==
    /\ \A p \in N : Child[p] \subseteq node \cup N
    /\ node' = node \cup N
    /\ edge' = edge \cup EdgesOf(N)
    /\ UNCHANGED manifest

\* Name the roots of a build, once, when they are published.
Describe(b) ==
    /\ b \notin manifest
    /\ Roots[b] \subseteq node
    /\ manifest' = manifest \cup {b}
    /\ UNCHANGED <<node, edge>>

GNext == \/ \E N \in SUBSET Node : Publish(N)
         \/ \E b \in Build : Describe(b)

GSpec == GInit /\ [][GNext]_<<node, edge, manifest>>
=============================================================================
