\* How many reviews a pull request gets.
CONSTANTS
    p = p
    q = q
    j1 = j1
    again1 = again1
    j2 = j2
    j3 = j3
    NoReview = NoReview
    Build = {1, 2, 3}
    PullRequest = {p, q}
    PrOf <- MCPrOf
    Job = {j1, again1, j2, j3}
    BuildOf <- MCBuildOf
SPECIFICATION Spec
INVARIANTS
    OneReviewPerPullRequest
\* Jobs are finitely many: in the end all are done.
CHECK_DEADLOCK FALSE
