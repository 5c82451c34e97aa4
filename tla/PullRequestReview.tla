----------------------- MODULE PullRequestReview -----------------------
(***************************************************************************)
(* pr-comment-generator.ts: a scan job, having sent ScanCompleted, reports *)
(* on the pull request of its build.  The first build adds a review; later *)
(* builds, and repeated scans, find the review's id in the builds table    *)
(* and update it.  Jobs of one pull request run on several tasks, and each *)
(* looks up the id long before it saves one.  Errors end a report and are  *)
(* only logged (scanSnapshotActivity), so nothing is tried again unless    *)
(* the job is.  GitHub is external.                                        *)
(***************************************************************************)
EXTENDS Naturals

CONSTANTS
    Build,        \* builds of pull requests, numbered by created_at
    PullRequest,
    PrOf,         \* PrOf[b]: pull_request_id
    Job,          \* scan jobs that come to their report
    BuildOf,      \* BuildOf[j]: what j has scanned
    NoReview      \* null

ASSUME ReviewAssumption ==
    /\ Build \subseteq Nat
    /\ PrOf \in [Build -> PullRequest]
    /\ BuildOf \in [Job -> Build]
    /\ NoReview \notin Job

VARIABLES
    pc,       \* where each job is
    previous, \* previous[j]: previousReviewId
    saved,    \* saved[b]: existing_github_review_id
    shown     \* shown[r]: the builds whose reports review r was given

vars == <<pc, previous, saved, shown>>

\* A review is named after the job that added it; it exists once it was given a
\* report.
Reviews == {r \in Job : shown[r] # {}}

ReviewedAnywhere(pr) == {b \in Build : saved[b] # NoReview}

\* GetPreviousBuildForPr
Reviewed(pr) == {b \in Build : PrOf[b] = pr /\ saved[b] # NoReview}

Init ==
    /\ pc = [j \in Job |-> "start"]
    /\ previous = [j \in Job |-> NoReview]
    /\ saved = [b \in Build |-> NoReview]
    /\ shown = [r \in Job |-> {}]

\* The newest build is looked at, whether or not its id was saved.
FindPreviousNewest(j) ==
    \E b \in Build :
        /\ PrOf[b] = PrOf[BuildOf[j]]
        /\ \A c \in Build : PrOf[c] = PrOf[b] => c <= b
        /\ previous' = [previous EXCEPT ![j] = saved[b]]

\* The newest build of the pull request that has an id names the review.
FindPrevious(j) ==
    LET found == Reviewed(PrOf[BuildOf[j]])
    IN  \/ found = {} /\ UNCHANGED previous
        \/ \E b \in found :
              /\ \A c \in found : c <= b
              /\ previous' = [previous EXCEPT ![j] = saved[b]]

\* interactWithPR up to its two reports; the project's settings, which were read
\* with the build, say which of them are wanted.
Lookup(j) ==
    /\ pc[j] = "start"
    /\ FindPrevious(j)
    /\ \E next \in {"check", "comment", "done"} : pc' = [pc EXCEPT ![j] = next]
    /\ UNCHANGED <<saved, shown>>

\* executePRCheck: a check run of its own for every job, which nothing reads.
\* Without a token it is left out, with the comment still to come.
Check(j) ==
    /\ pc[j] = "check"
    /\ \E next \in {"comment", "done"} : pc' = [pc EXCEPT ![j] = next]
    /\ UNCHANGED <<previous, saved, shown>>

\* GitHub has given r the report of j; its answer, with r's id, arrives or not.
Submit(j, r) ==
    /\ shown' = [shown EXCEPT ![r] = @ \cup {BuildOf[j]}]
    /\ \E next \in {"save", "done"} : pc' = [pc EXCEPT ![j] = next]
    /\ UNCHANGED <<previous, saved>>

AddUnchecked(j) ==
    /\ pc[j] = "comment" /\ previous[j] = NoReview
    /\ \/ Submit(j, j)
       \/ pc' = [pc EXCEPT ![j] = "save"] /\ UNCHANGED <<previous, saved, shown>>

Add(j) == pc[j] = "comment" /\ previous[j] = NoReview /\ Submit(j, j)

UpdateUnanswered(j) ==
    /\ pc[j] = "comment" /\ previous[j] # NoReview
    /\ pc' = [pc EXCEPT ![j] = "save"]
    /\ UNCHANGED <<previous, saved, shown>>

Update(j) == pc[j] = "comment" /\ previous[j] # NoReview /\ Submit(j, previous[j])

\* UpdateBuildExistingReviewId
Save(j) ==
    /\ pc[j] = "save"
    /\ saved' = [saved EXCEPT ![BuildOf[j]] =
                    IF previous[j] = NoReview THEN j ELSE previous[j]]
    /\ pc' = [pc EXCEPT ![j] = "done"]
    /\ UNCHANGED <<previous, shown>>

\* A query or request fails without effect, or the task dies.
Stop(j) ==
    /\ pc[j] # "done"
    /\ pc' = [pc EXCEPT ![j] = "done"]
    /\ UNCHANGED <<previous, saved, shown>>

Next ==
    \E j \in Job : Lookup(j) \/ Check(j) \/ Add(j) \/ Update(j) \/ Save(j) \/ Stop(j)

Spec == Init /\ [][Next]_vars
-----------------------------------------------------------------------------
TypeOK ==
    /\ pc \in [Job -> {"start", "check", "comment", "save", "done"}]
    /\ previous \in [Job -> Job \cup {NoReview}]
    /\ saved \in [Build -> Reviews \cup {NoReview}]
    /\ shown \in [Job -> SUBSET Build]

\* An id on a build says that its report was submitted to that review, "in case
\* we want to make sure later that it submitted successfully" (line 135), however
\* many jobs of the pull request run, fail and repeat.
SavedIsSubmitted ==
    \A b \in Build : saved[b] # NoReview => b \in shown[saved[b]]

\* A review is only given reports of its own pull request, although its id
\* travels from build to build.
ReviewsKeepToTheirPullRequest ==
    \A r \in Job : \A b \in shown[r] : PrOf[b] = PrOf[BuildOf[r]]

\* Jobs that have added a review, or that will if they go on.
Adders(pr) ==
    {j \in Job : /\ PrOf[BuildOf[j]] = pr
                 /\ \/ shown[j] # {}
                    \/ pc[j] \in {"check", "comment"} /\ previous[j] = NoReview}

\* "Check if a previous build already commented on the PR" (line 253): once an id
\* is saved, no job that looks for it afterwards adds another review.  Only jobs
\* that were on their way may.
SavedReviewIsFound ==
    [][\A pr \in PullRequest : Reviewed(pr) # {} => Adders(pr)' \subseteq Adders(pr)]_vars

\* "This is the first build on this pr so make a new comment", "Otherwise just
\* update the existing review" (lines 105, 124): a pull request has one review.
OneReviewPerPullRequest ==
    \A r, s \in Reviews : PrOf[BuildOf[r]] = PrOf[BuildOf[s]] => r = s
=============================================================================
