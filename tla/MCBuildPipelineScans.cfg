\* One upload, with a scan that is delivered twice and may overlap itself.
CONSTANTS
    b = b
    w1 = w1
    s1 = s1
    Queue <- MCQueue
    Worker = {w1, s1}
    Message <- MCMessage
    QueueOf <- MCQueueOf
    Polls <- MCPolls
    MaxMessages = 2
    MaxReceives <- MCScansRepeat
    Build = {b}
SPECIFICATION FairPipelineSpec
INVARIANTS
    TypeOK
    NothingVanishes
PROPERTIES
    EveryMessageSettles
    EverySbomConcluded
\* The messages are finitely many: in the end all are deleted or dead.
CHECK_DEADLOCK FALSE
