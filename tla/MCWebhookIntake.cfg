\* Two webhooks of any kinds next to two installations.
CONSTANTS
    h1 = h1
    h2 = h2
    r = r
    o = o
    i1 = i1
    i2 = i2
    w1 = w1
    Queue = {"webhook"}
    Worker = {w1}
    Message = {h1, h2}
    QueueOf <- MCQueueOf
    Polls <- MCPolls
    MaxMessages = 2
    MaxReceives <- MCMaxReceives
    Repo = {r}
    Org = {o}
    RepoOf <- MCRepoOf
    OrgOf <- MCOrgOf
    Install = {i1, i2}
    Selected <- MCSelected
SPECIFICATION IntakeSpec
INVARIANTS
    IntakeTypeOK
    WebhookNotLost
    ReadyWebhooksAreServed
    BuiltReposAreSkipped
SYMMETRY MCSymmetry
CONSTRAINTS
    FewReads
\* The messages are finitely many: in the end all are deleted or dead.
CHECK_DEADLOCK FALSE
