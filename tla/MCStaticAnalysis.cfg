\* Two scans that queue the same edge, and messages that are delivered twice.
CONSTANTS
    e = e
    r = r
    s1 = s1
    s2 = s2
    b1 = b1
    b2 = b2
    Queue = {"static-analysis"}
    Worker = {w1}
    Message <- MCMessage
    QueueOf <- MCQueueOf
    Polls <- MCPolls
    MaxMessages = 1
    MaxReceives <- MCMaxReceives
    Build = {b1, b2}
    Scan = {s1, s2}
    BuildOf <- MCBuildOf
    Edge = {e, r}
    Vulnerable <- MCVulnerable
    Stored = {e}
    Finding <- MCFinding
SPECIFICATION FairStaticSpec
INVARIANTS
    StaticTypeOK
    AnalysesNotLost
    EdgesNotForgotten
PROPERTIES
    EdgesAreAnalyzed
\* All scans done, all messages deleted or dead.
CHECK_DEADLOCK FALSE
