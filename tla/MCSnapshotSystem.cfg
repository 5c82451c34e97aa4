\* Snapshot jobs of two builds, or two of one, and their database sessions.
CONSTANTS
    Queue <- MCQueue
    Worker = {"w"}
    Message <- MCMessage
    QueueOf <- MCQueueOf
    Polls <- MCPolls
    MaxMessages = 2
    MaxReceives <- MCMaxReceives
    Build <- MCBuild
    Project <- MCProject
    Public = "public"
    Node <- MCNode
    Child <- MCChild
    Package <- MCPackage
    Version <- MCVersion
    Roots <- MCRoots
    Rank <- MCRank
    HasParent <- MCHasParent
    SliceSize = 3
SPECIFICATION FairSystemSpec
INVARIANTS
    TreesAreKept
    ShownTreesLoad
    GraphIsWhole
CONSTRAINTS
    FewReads
    GoodUploads
PROPERTIES
    EverySessionEnds
\* The messages are finitely many: in the end all are deleted or dead.
CHECK_DEADLOCK FALSE
