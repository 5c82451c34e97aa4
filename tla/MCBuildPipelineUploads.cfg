\* A snapshot that is delivered twice, and the scans of both uploads.
CONSTANTS
    b = b
    w1 = w1
    s1 = s1
    Queue <- MCQueue
    Worker = {w1, s1}
    Message <- MCMessage
    QueueOf <- MCQueueOf
    Polls <- MCPolls
    MaxMessages = 2
    MaxReceives <- MCSnapshotsRepeat
    Build = {b}
SPECIFICATION PipelineSpec
INVARIANTS
    PipelineTypeOK
    SnapshotNotLost
    SnapshotReportsAreTrue
    ScanNotLost
CONSTRAINTS
    NoLateScan
\* The messages are finitely many: in the end all are deleted or dead.
CHECK_DEADLOCK FALSE
