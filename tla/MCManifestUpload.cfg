\* A file whose S3 event is delivered twice, and the scans of both its builds.
CONSTANTS
    u = u
    w1 = w1
    s1 = s1
    Queue <- MCQueue
    Worker = {w1, s1}
    Message <- MCMessage
    QueueOf <- MCQueueOf
    Polls <- MCPolls
    MaxMessages = 2
    MaxReceives <- MCMaxReceives
    Upload = {u}
SPECIFICATION UploadSpec
INVARIANTS
    UploadTypeOK
    UploadNotLost
    StatusIsOfItsBuild
CONSTRAINTS
    NoReadIsLeft
\* The messages are finitely many: in the end all are deleted or dead.
CHECK_DEADLOCK FALSE
