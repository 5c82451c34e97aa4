---------------------- MODULE PullRequestReviewProofs ----------------------
(***************************************************************************)
(* What holds of PullRequestReview for any builds, pull requests and jobs. *)
(***************************************************************************)
EXTENDS PullRequestReview, TLAPS

\* The review a job reports on: the one it found, or else its own.
Target(j) == IF previous[j] = NoReview THEN j ELSE previous[j]

\* An id in a job's hands, like one in the table, is that of a review of its pull
\* request; a job that is about to save it has submitted its report.
JobInv(j) ==
    /\ previous[j] # NoReview =>
          previous[j] \in Reviews /\ PrOf[BuildOf[previous[j]]] = PrOf[BuildOf[j]]
    /\ pc[j] = "save" => BuildOf[j] \in shown[Target(j)]

ReviewInv ==
    /\ TypeOK
    /\ \A j \in Job : JobInv(j)
    /\ SavedIsSubmitted
    /\ ReviewsKeepToTheirPullRequest

\* No review is taken back.
ShownGrows == \A r \in Job : shown[r] \subseteq shown'[r]

\* The id of a build of pull request pr names a review of pr.
LEMMA SavedReview ==
    ASSUME ReviewInv, NEW b \in Build, saved[b] # NoReview
    PROVE  saved[b] \in Reviews /\ PrOf[BuildOf[saved[b]]] = PrOf[b]
<1>1. saved[b] \in Reviews
  BY DEF ReviewInv, TypeOK
<1> QED
  BY <1>1 DEF ReviewInv, SavedIsSubmitted, ReviewsKeepToTheirPullRequest, Reviews

\* A job keeps its invariant through steps that leave it alone.
LEMMA OtherJobs ==
    ASSUME ShownGrows, NEW j \in Job, JobInv(j), previous'[j] = previous[j],
           pc'[j] = "save" => pc[j] = "save", TypeOK
    PROVE  JobInv(j)'
<1>1. Target(j)' = Target(j) /\ Target(j) \in Job
  BY DEF Target, TypeOK
<1>2. pc'[j] = "save" => BuildOf[j] \in shown'[Target(j)]
  BY <1>1 DEF ShownGrows, JobInv
<1>3. previous[j] # NoReview => previous[j] \in Reviews'
  BY DEF ShownGrows, JobInv, Reviews
<1> QED
  BY <1>1, <1>2, <1>3 DEF JobInv

\* Looking up the review changes no table.
LEMMA LookupInv ==
    ASSUME ReviewInv, NEW j \in Job, Lookup(j)
    PROVE  ReviewInv'
<1>1. /\ previous' \in [Job -> Job \cup {NoReview}]
      /\ \A k \in Job \ {j} : previous'[k] = previous[k]
      /\ \/ previous'[j] = previous[j]
         \/ \E b \in Reviewed(PrOf[BuildOf[j]]) : previous'[j] = saved[b]
  <2>1. previous \in [Job -> Job \cup {NoReview}]
    BY DEF ReviewInv, TypeOK
  <2>2. CASE UNCHANGED previous
    BY <2>1, <2>2
  <2>3. ASSUME NEW b \in Reviewed(PrOf[BuildOf[j]]),
               previous' = [previous EXCEPT ![j] = saved[b]]
        PROVE  <1>1!1 /\ <1>1!2 /\ previous'[j] = saved[b]
    <3>1. saved[b] \in Job
      BY SavedReview DEF Reviewed, Reviews
    <3> QED
      BY <2>1, <2>3, <3>1
  <2> QED
    BY <2>2, <2>3 DEF Lookup, FindPrevious
<1>2. UNCHANGED <<saved, shown>>
  BY DEF Lookup
<1>3. TypeOK' /\ ShownGrows
  BY <1>1, <1>2 DEF Lookup, ReviewInv, TypeOK, ShownGrows, Reviews
<1>4. pc'[j] # "save" /\ \A k \in Job \ {j} : pc'[k] = pc[k]
  BY DEF Lookup, ReviewInv, TypeOK
<1>5. JobInv(j)'
  <2>1. CASE previous'[j] = previous[j]
    BY <1>3, <1>4, <2>1, OtherJobs DEF ReviewInv
  <2>2. ASSUME NEW b \in Reviewed(PrOf[BuildOf[j]]), previous'[j] = saved[b]
        PROVE  JobInv(j)'
    <3>1. saved[b] \in Reviews /\ PrOf[BuildOf[saved[b]]] = PrOf[BuildOf[j]]
      BY SavedReview DEF Reviewed
    <3> QED
      BY <1>2, <1>4, <2>2, <3>1 DEF JobInv, Reviews
  <2> QED
    BY <1>1, <2>1, <2>2
<1>6. ASSUME NEW k \in Job \ {j} PROVE JobInv(k)'
  BY <1>1, <1>3, <1>4, OtherJobs DEF ReviewInv
<1> QED
  BY <1>2, <1>3, <1>5, <1>6
  DEF ReviewInv, SavedIsSubmitted, ReviewsKeepToTheirPullRequest

\* A report is submitted to a review of the job's own pull request.
LEMMA SubmitInv ==
    ASSUME ReviewInv, NEW j \in Job, Submit(j, Target(j))
    PROVE  ReviewInv'
<1> DEFINE r == Target(j)
<1>1. r \in Job /\ BuildOf[j] \in Build /\ PrOf[BuildOf[r]] = PrOf[BuildOf[j]]
  BY ReviewAssumption DEF Target, ReviewInv, JobInv, TypeOK, Reviews
<1>2. shown'[r] = shown[r] \cup {BuildOf[j]} /\ \A s \in Job \ {r} : shown'[s] = shown[s]
  BY <1>1 DEF Submit, ReviewInv, TypeOK
<1>3. ShownGrows /\ UNCHANGED <<previous, saved>>
  BY <1>2 DEF ShownGrows, Submit
<1>4. TypeOK'
  <2>1. Reviews \subseteq Reviews'
    BY <1>3 DEF Reviews, ShownGrows
  <2>2. shown' \in [Job -> SUBSET Build]
    BY <1>1 DEF Submit, ReviewInv, TypeOK
  <2> QED
    BY <1>3, <2>1, <2>2 DEF Submit, ReviewInv, TypeOK
<1>5. JobInv(j)'
  <2>1. Target(j)' = r
    BY <1>3 DEF Target
  <2>2. previous[j] # NoReview => previous[j] \in Reviews'
    BY <1>3 DEF ReviewInv, JobInv, Reviews, ShownGrows
  <2> QED
    BY <1>2, <1>3, <2>1, <2>2 DEF ReviewInv, JobInv
<1>6. ASSUME NEW k \in Job \ {j} PROVE JobInv(k)'
  <2>1. pc'[k] = pc[k]
    BY DEF Submit, ReviewInv, TypeOK
  <2> QED
    BY <1>3, <2>1, OtherJobs DEF ReviewInv
<1>7. SavedIsSubmitted'
  BY <1>3, SavedReview DEF ReviewInv, SavedIsSubmitted, ShownGrows, Reviews
<1>8. ReviewsKeepToTheirPullRequest'
  BY <1>1, <1>2 DEF ReviewInv, ReviewsKeepToTheirPullRequest
<1> QED
  BY <1>4, <1>5, <1>6, <1>7, <1>8 DEF ReviewInv

\* An id is saved after the report was submitted.
LEMMA SaveInv ==
    ASSUME ReviewInv, NEW j \in Job, Save(j)
    PROVE  ReviewInv'
<1> DEFINE r == Target(j)
<1>1. r \in Job /\ BuildOf[j] \in Build /\ BuildOf[j] \in shown[r]
  BY ReviewAssumption DEF Save, Target, ReviewInv, JobInv, TypeOK, Reviews
<1>2. saved' = [saved EXCEPT ![BuildOf[j]] = r] /\ UNCHANGED <<previous, shown>>
  BY DEF Save, Target
<1>3. TypeOK' /\ ShownGrows
  BY <1>1, <1>2 DEF Save, ReviewInv, TypeOK, Reviews, ShownGrows
<1>4. ASSUME NEW k \in Job PROVE JobInv(k)'
  <2>1. pc'[k] = "save" => pc[k] = "save"
    BY DEF Save, ReviewInv, TypeOK
  <2> QED
    BY <1>2, <1>3, <2>1, OtherJobs DEF ReviewInv
<1>5. SavedIsSubmitted'
  BY <1>1, <1>2 DEF ReviewInv, TypeOK, SavedIsSubmitted
<1> QED
  BY <1>2, <1>3, <1>4, <1>5 DEF ReviewInv, ReviewsKeepToTheirPullRequest

\* A job that goes on to its comment, or stops, has touched nothing.
LEMMA PassInv ==
    ASSUME ReviewInv, NEW j \in Job, NEW next \in {"comment", "done"},
           pc' = [pc EXCEPT ![j] = next], UNCHANGED <<previous, saved, shown>>
    PROVE  ReviewInv'
<1>1. TypeOK' /\ ShownGrows
  BY DEF ReviewInv, TypeOK, Reviews, ShownGrows
<1>2. ASSUME NEW k \in Job PROVE JobInv(k)'
  <2>1. pc'[k] = "save" => pc[k] = "save"
    BY DEF ReviewInv, TypeOK
  <2> QED
    BY <1>1, <2>1, OtherJobs DEF ReviewInv
<1> QED
  BY <1>1, <1>2 DEF ReviewInv, SavedIsSubmitted, ReviewsKeepToTheirPullRequest

\* Ids and reviews belong together, whatever jobs overlap, fail or repeat.
THEOREM ReviewInvariant == Spec => []ReviewInv
<1>1. Init => ReviewInv
  <2> SUFFICES ASSUME Init PROVE ReviewInv
    OBVIOUS
  <2> QED
    BY DEF Init, ReviewInv, TypeOK, JobInv, SavedIsSubmitted, ReviewsKeepToTheirPullRequest
<1>2. ReviewInv /\ [Next]_vars => ReviewInv'
  <2> SUFFICES ASSUME ReviewInv, [Next]_vars PROVE ReviewInv'
    OBVIOUS
  <2>1. ASSUME NEW j \in Job, Add(j) \/ Update(j) PROVE ReviewInv'
    BY <2>1, SubmitInv DEF Add, Update, Target
  <2>2. ASSUME NEW j \in Job, Check(j) \/ Stop(j) PROVE ReviewInv'
    BY <2>2, PassInv DEF Check, Stop
  <2>3. CASE UNCHANGED vars
    BY <2>3 DEF vars, ReviewInv, TypeOK, Reviews, JobInv, Target, SavedIsSubmitted,
                ReviewsKeepToTheirPullRequest
  <2> QED
    BY <2>1, <2>2, <2>3, LookupInv, SaveInv DEF Next
<1> QED
  BY <1>1, <1>2, PTL DEF Spec
-----------------------------------------------------------------------------
\* Ids on builds and in the hands of jobs name reviews that were added.
THEOREM ReviewTypeCorrect == Spec => []TypeOK
<1>1. ReviewInv => TypeOK
  BY DEF ReviewInv
<1> QED
  BY <1>1, ReviewInvariant, PTL

\* A saved id says that the build's report was submitted.
THEOREM SavedMeansSubmitted == Spec => []SavedIsSubmitted
<1>1. ReviewInv => SavedIsSubmitted
  BY DEF ReviewInv
<1> QED
  BY <1>1, ReviewInvariant, PTL

\* No review shows the report of another pull request.
THEOREM ReviewsAreKeptApart == Spec => []ReviewsKeepToTheirPullRequest
<1>1. ReviewInv => ReviewsKeepToTheirPullRequest
  BY DEF ReviewInv
<1> QED
  BY <1>1, ReviewInvariant, PTL

\* Once an id is saved, only jobs that were on their way add a review.
THEOREM SavedReviewsAreFound == Spec => SavedReviewIsFound
<1>1. ReviewInv /\ [Next]_vars =>
        [\A pr \in PullRequest : Reviewed(pr) # {} => Adders(pr)' \subseteq Adders(pr)]_vars
  <2> SUFFICES ASSUME ReviewInv, Next, NEW pr \in PullRequest, Reviewed(pr) # {},
                      NEW k \in Adders(pr)'
               PROVE  k \in Adders(pr)
    OBVIOUS
  <2>1. k \in Job /\ PrOf[BuildOf[k]] = pr
    BY DEF Adders
  <2>2. PICK j \in Job : \/ Lookup(j) \/ Check(j) \/ Add(j) \/ Update(j) \/ Save(j)
                         \/ Stop(j)
    BY DEF Next
  <2> USE DEF ReviewInv, TypeOK
  <2>3. CASE Lookup(j)
    <3>1. shown' = shown /\ \A i \in Job \ {j} : pc'[i] = pc[i] /\ previous'[i] = previous[i]
      BY <2>3 DEF Lookup, FindPrevious
    <3>2. ASSUME k = j PROVE previous'[k] # NoReview
      BY <2>1, <2>3, <3>2 DEF Lookup, FindPrevious, Reviewed
    <3> QED
      BY <2>1, <3>1, <3>2 DEF Adders
  <2>4. CASE Add(j)
    BY <2>1, <2>4 DEF Add, Submit, Adders
  <2>5. CASE Update(j)
    <3>1. previous[j] \in Job /\ shown[previous[j]] # {}
      BY <2>5 DEF Update, JobInv, Reviews
    <3>2. shown'[k] # {} => shown[k] # {}
      BY <2>1, <2>5, <3>1 DEF Update, Submit
    <3> QED
      BY <2>1, <2>5, <3>2 DEF Update, Submit, Adders
  <2>6. CASE Check(j) \/ Save(j) \/ Stop(j)
    BY <2>1, <2>6 DEF Check, Save, Stop, Adders
  <2> QED
    BY <2>2, <2>3, <2>4, <2>5, <2>6
<1> QED
  BY <1>1, ReviewInvariant, PTL DEF Spec, SavedReviewIsFound
-----------------------------------------------------------------------------
\* Two things the code does not see to, and what they would give.

SamePullRequest(j, k) == PrOf[BuildOf[j]] = PrOf[BuildOf[k]]

Reporting(j) == pc[j] \in {"check", "comment", "save"}

\* A job reports on a pull request while no other job does.
OneReportAtATime ==
    \A j, k \in Job : SamePullRequest(j, k) /\ Reporting(j) /\ Reporting(k) => j = k

\* A review whose job has gone on, or died, has its id on a build.
ReviewsAreRecorded ==
    \A r \in Reviews : pc[r] = "save" \/ Reviewed(PrOf[BuildOf[r]]) # {}

\* A job that is to add a review has not overlooked one.
FirstReview ==
    /\ \A j \in Job : pc[j] \in {"check", "comment"} /\ previous[j] = NoReview =>
          \A r \in Reviews : ~SamePullRequest(r, j)
    /\ OneReviewPerPullRequest

\* A lookup that finds no id, with no other report under way, has overlooked none.
LEMMA LookupFirst ==
    ASSUME ReviewInv, FirstReview, ReviewsAreRecorded, OneReportAtATime',
           NEW j \in Job, Lookup(j)
    PROVE  FirstReview'
<1>1. /\ shown' = shown /\ Reviews' = Reviews
      /\ \A k \in Job \ {j} : pc'[k] = pc[k] /\ previous'[k] = previous[k]
  BY DEF Lookup, FindPrevious, Reviews, ReviewInv, TypeOK
<1>2. ASSUME pc'[j] \in {"check", "comment"}, previous'[j] = NoReview, NEW r \in Reviews,
             SamePullRequest(r, j)
      PROVE  FALSE
  <2>1. Reviewed(PrOf[BuildOf[j]]) = {}
    BY <1>2 DEF Lookup, FindPrevious, Reviewed, ReviewInv, TypeOK
  <2>2. r \in Job /\ pc[r] = "save"
    BY <1>2, <2>1 DEF ReviewsAreRecorded, SamePullRequest, Reviews
  <2>3. r # j /\ pc'[r] = "save"
    BY <1>1, <2>2 DEF Lookup
  <2> QED
    BY <1>2, <2>2, <2>3 DEF OneReportAtATime, Reporting, SamePullRequest
<1> QED
  BY <1>1, <1>2 DEF FirstReview, OneReviewPerPullRequest, SamePullRequest

\* Only one job of a pull request is about to add a review, and none is there.
LEMMA AddFirst ==
    ASSUME ReviewInv, FirstReview, OneReportAtATime, NEW j \in Job, Add(j)
    PROVE  FirstReview'
<1>1. /\ Reviews' \subseteq Reviews \cup {j}
      /\ previous' = previous /\ pc'[j] \notin {"check", "comment"}
      /\ \A k \in Job \ {j} : pc'[k] = pc[k]
  BY DEF Add, Submit, Reviews, ReviewInv, TypeOK
<1>2. \A r \in Reviews : ~SamePullRequest(r, j)
  BY DEF Add, FirstReview
<1>3. ASSUME NEW k \in Job \ {j}, Reporting(k) PROVE ~SamePullRequest(j, k)
  BY <1>3 DEF OneReportAtATime, Reporting, Add
<1> QED
  BY <1>1, <1>2, <1>3
  DEF FirstReview, OneReviewPerPullRequest, SamePullRequest, Reporting, Reviews

\* Without a second report on its way, and without a review whose id was lost, a
\* pull request has one review.  The code ensures neither: an id is looked up and
\* saved by requests that nothing holds together.
THEOREM OrderedReportsShareAReview ==
    Spec /\ []OneReportAtATime /\ []ReviewsAreRecorded => []OneReviewPerPullRequest
<1>1. Init => FirstReview
  BY DEF Init, FirstReview, OneReviewPerPullRequest, Reviews
<1>2. /\ ReviewInv /\ OneReportAtATime /\ OneReportAtATime' /\ ReviewsAreRecorded
      /\ FirstReview /\ [Next]_vars
      => FirstReview'
  <2> SUFFICES ASSUME ReviewInv, OneReportAtATime, OneReportAtATime', ReviewsAreRecorded,
                      FirstReview, [Next]_vars
               PROVE  FirstReview'
    OBVIOUS
  <2>1. ASSUME NEW j \in Job, Update(j) PROVE FirstReview'
    <3>1. previous[j] \in Reviews
      BY <2>1 DEF Update, ReviewInv, JobInv
    <3>2. Reviews' = Reviews
      BY <2>1, <3>1 DEF Update, Submit, Reviews, ReviewInv, TypeOK
    <3>3. previous' = previous /\ \A k \in Job : pc'[k] \in {"check", "comment"} => pc'[k] = pc[k]
      BY <2>1 DEF Update, Submit, ReviewInv, TypeOK
    <3> QED
      BY <3>2, <3>3 DEF FirstReview, OneReviewPerPullRequest, SamePullRequest
  <2>2. ASSUME NEW j \in Job, Check(j) \/ Save(j) \/ Stop(j) PROVE FirstReview'
    <3>1. shown' = shown /\ previous' = previous /\ Reviews' = Reviews
      BY <2>2 DEF Check, Save, Stop, Reviews
    <3>2. \A k \in Job : pc'[k] \in {"check", "comment"} => pc[k] \in {"check", "comment"}
      BY <2>2 DEF Check, Save, Stop, ReviewInv, TypeOK
    <3> QED
      BY <3>1, <3>2 DEF FirstReview, OneReviewPerPullRequest, SamePullRequest
  <2>3. CASE UNCHANGED vars
    BY <2>3 DEF vars, FirstReview, OneReviewPerPullRequest, SamePullRequest, Reviews
  <2> QED
    BY <2>1, <2>2, <2>3, LookupFirst, AddFirst DEF Next
<1>3. FirstReview => OneReviewPerPullRequest
  BY DEF FirstReview
<1> QED
  BY <1>1, <1>2, <1>3, ReviewInvariant, PTL DEF Spec
=============================================================================
