\* Safety, refinement and freedom from circular waits of concurrent graph inserts.
CONSTANTS
    Build <- MCBuild
    Job <- MCJob
    BuildOf <- MCBuildOf
    Project <- MCProject
    Public = "public"
    Node <- MCNode
    Child <- MCChild
    Package <- MCPackage
    Version <- MCVersion
    Roots <- MCRoots
    Rank <- MCRank
    HasParent <- MCHasParent
    SliceSize = 3
SPECIFICATION Spec
INVARIANTS
    TypeOK
    GraphClosed
    ManifestTreesStored
    EdgeEndsExist
    EdgesNeverContend
    OrderPreventsDeadlock
PROPERTIES
    ImplementsGraph
\* Every job ends and no further message is delivered.
CHECK_DEADLOCK FALSE
