\* What the sort of line 418 is said to avoid.
CONSTANTS
    Build <- MCBuild
    Job <- MCJob
    BuildOf <- MCBuildOf
    Project <- MCProject
    Public = "public"
    Node <- MCNode
    Child <- MCChild
    Package <- MCPackage
    Version <- MCVersion
    Roots <- MCRoots
    Rank <- MCRank
    HasParent <- MCHasParent
    SliceSize = 3
SPECIFICATION Spec
INVARIANTS
    DeadlockFree
\* Every job ends and no further message is delivered.
CHECK_DEADLOCK FALSE
