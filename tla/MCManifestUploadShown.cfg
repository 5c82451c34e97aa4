\* What the upload page is left saying.
CONSTANTS
    u = u
    w1 = w1
    s1 = s1
    Queue <- MCQueue
    Worker = {w1, s1}
    Message <- MCMessage
    QueueOf <- MCQueueOf
    Polls <- MCPolls
    MaxMessages = 2
    MaxReceives <- MCMaxReceives
    Upload = {u}
SPECIFICATION UploadSpec
INVARIANTS
    UploadsEndShown
CONSTRAINTS
    NoReadIsLeft
\* The messages are finitely many: in the end all are deleted or dead.
CHECK_DEADLOCK FALSE
