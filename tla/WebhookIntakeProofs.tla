----------------------- MODULE WebhookIntakeProofs -----------------------
(***************************************************************************)
(* What holds of WebhookIntake for any webhooks, repositories,             *)
(* installations, tasks and receive limits.                                *)
(***************************************************************************)
EXTENDS WebhookIntake, QueueWorkerProofs

\* A job past its first step has a cached webhook, and one that is about to delete its
\* message has logged how its handler ended.
JobInv(d) ==
    /\ step[d] \in {"handle", "insert", "send", "join", "ok"} => cache[d[1]] # "none"
    /\ step[d] \in {"insert", "send"} => cache[d[1]] = "push" /\ RepoOf[d[1]] \in repo
    /\ step[d] = "send" => d \in pushBuild
    /\ step[d] = "join" => cache[d[1]] = "member" /\ d[1] \in user
    /\ step[d] = "ok" => outcome[d[1]] # {}

\* What was logged is true, and what was there when a webhook came is not ignored.
HookInv(m) ==
    /\ outcome[m] # {} \/ m \in sending => cache[m] # "none"
    /\ "done" \in outcome[m] => Served(m)
    /\ m \in ready => cache[m] # "none" /\ Target(m, cache[m])
    /\ m \in ready /\ "ignored" \in outcome[m] => cache[m] = "other"
    /\ status[m] = "deleted" => outcome[m] # {}

\* Installations build repositories that are there, and no build is made of one that had
\* a build before the installation began.
CallInv(c) ==
    /\ call[c] \in {"count", "insert", "send"} => c[2] \in repo
    /\ call[c] \in {"idle", "count", "insert"} => c \notin firstBuild
    /\ c \in built => /\ c \notin firstBuild /\ HasBuild(c[2])
                      /\ call[c] \in {"count", "skipped", "failed"}

IntakeInv ==
    /\ IntakeTypeOK
    /\ \A d \in Delivery : JobInv(d)
    /\ \A m \in Message : HookInv(m)
    /\ \A c \in Call : CallInv(c)

\* A delivery names its webhook, whose repository and organization are known.
LEMMA DeliveryHook ==
    ASSUME NEW d \in Delivery
    PROVE  d[1] \in Message /\ RepoOf[d[1]] \in Repo /\ OrgOf[d[1]] \in Org
  BY DeliveryMessage, IntakeAssumption

\* A call is an installation of one of its repositories.
LEMMA CallType ==
    ASSUME NEW c \in Call
    PROVE  c[1] \in Install /\ c[2] \in Repo /\ c[2] \in Selected[c[1]] /\ c = <<c[1], c[2]>>
  BY DEF Call

\* A task runs jobs of reads that SQS allows.
LEMMA JobIsDelivery ==
    ASSUME TypeOK, NEW w \in Worker, NEW d \in Jobs(w)
    PROVE  d \in Delivery
  BY DEF TypeOK, Jobs

\* Whatever the handlers and the API server do, the queue sees its own steps or none.
LEMMA IntakeStepIsQueueStep ==
    ASSUME TypeOK, [IntakeNext]_vars
    PROVE  [Next]_queueVars
<1>1. ASSUME NEW m \in Message, NEW k \in Kind, ReceiveWebhook(m, k) PROVE UNCHANGED queueVars
  BY <1>1 DEF ReceiveWebhook
<1>2. ASSUME NEW m \in Message, SendWebhook(m) \/ Sqs(m) PROVE Next \/ UNCHANGED queueVars
  BY <1>2 DEF SendWebhook, Sqs, Next
<1>3. ASSUME \/ ServerDies
             \/ \E i \in Install : UpsertRepos(i)
             \/ \E c \in Call : InstallStep(c)
      PROVE  UNCHANGED queueVars
  BY <1>3 DEF ServerDies, UpsertRepos, InstallStep, CountBuilds, InsertFirstBuild, SendFirstBuild
<1>4. ASSUME NEW w \in Worker, Poll(w) \/ Timer(w) \/ Die(w) PROVE Next
  BY <1>4 DEF Poll, Timer, Die, Next
<1>5. ASSUME NEW w \in Worker, NEW d \in Jobs(w), JobStep(w, d)
      PROVE  Next \/ UNCHANGED queueVars
  <2>1. d \in Delivery
    BY JobIsDelivery
  <2>2. CASE ReadCache(w, d) \/ Settle(w, d)
    BY <2>1, <2>2 DEF ReadCache, Settle, Next
  <2>3. CASE \/ HandleOther(w, d) \/ FindRepo(w, d) \/ InsertBuild(w, d) \/ SendSnapshot(w, d)
             \/ InstallOrg(w, d) \/ AddUser(w, d) \/ AddMember(w, d)
    BY <2>3 DEF HandleOther, FindRepo, InsertBuild, SendSnapshot, InstallOrg, AddUser, AddMember
  <2> QED
    BY <1>5, <2>2, <2>3 DEF JobStep
<1>6. CASE UNCHANGED vars
  BY <1>6 DEF vars
<1> QED
  BY <1>1, <1>2, <1>3, <1>4, <1>5, <1>6 DEF IntakeNext
-----------------------------------------------------------------------------
\* Rows that were inserted stay, and webhooks stay cached.
DataGrows ==
    /\ \A m \in Message : cache[m] # "none" => cache'[m] = cache[m]
    /\ org \subseteq org' /\ user \subseteq user' /\ member \subseteq member'
    /\ repo \subseteq repo'
    /\ pushBuild \subseteq pushBuild' /\ queued \subseteq queued'
    /\ firstBuild \subseteq firstBuild'
    /\ \A m \in Message : outcome[m] \subseteq outcome'[m]

\* A step that takes a job nowhere, or ends it, need not be looked at for this job.
LEMMA OtherJobs ==
    ASSUME DataGrows, NEW d \in Delivery, JobInv(d), step'[d] \in {step[d], "none", "start"}
    PROVE  JobInv(d)'
<1>1. CASE step'[d] \in {"none", "start"}
  BY <1>1 DEF JobInv
<1>2. CASE step'[d] = step[d]
  <2>1. d[1] \in Message
    BY DeliveryHook
  <2> QED
    BY <1>2, <2>1 DEF JobInv, DataGrows
<1> QED
  BY <1>1, <1>2

\* What a webhook was served stays there.
LEMMA ServedStays ==
    ASSUME DataGrows, NEW m \in Message, cache[m] # "none", Served(m)
    PROVE  Served(m)'
  BY DEF DataGrows, Served

\* A webhook that no handler ends for keeps its log true.
LEMMA OtherHooks ==
    ASSUME DataGrows, NEW m \in Message, HookInv(m), outcome'[m] = outcome[m],
           status'[m] = "deleted" => outcome[m] # {},
           m \in ready' => m \in ready, m \in sending' => m \in sending
    PROVE  HookInv(m)'
<1>1. "done" \in outcome'[m] => Served(m)'
  <2>1. "done" \in outcome[m] => cache[m] # "none" /\ Served(m)
    BY DEF HookInv
  <2> QED
    BY <2>1, ServedStays
<1>2. m \in ready' => (cache[m] # "none" /\ Target(m, cache[m]))'
  BY DEF HookInv, Target, DataGrows
<1> QED
  BY <1>1, <1>2 DEF HookInv, DataGrows

\* A repository that has a build keeps it.
LEMMA BuildsStay ==
    ASSUME DataGrows, NEW r, HasBuild(r)
    PROVE  HasBuild(r)'
  BY DEF DataGrows, HasBuild

\* Steps that are not an installation's leave it where it is.
LEMMA OtherCalls ==
    ASSUME DataGrows, NEW c \in Call, CallInv(c), call'[c] = call[c],
           c \in firstBuild' => c \in firstBuild, c \in built' => c \in built
    PROVE  CallInv(c)'
  BY BuildsStay DEF CallInv, DataGrows
-----------------------------------------------------------------------------
\* What only the API server changes.
ServerRests == UNCHANGED <<cache, sending, ready, repo, firstBuild, call, built>>

\* A step of a job, which no installation sees.
LEMMA StepOfJob ==
    ASSUME IntakeInv, IntakeTypeOK', DataGrows, ServerRests, NEW d \in Delivery,
           \A e \in Delivery \ {d} : step'[e] = step[e],
           \A m \in Message \ {d[1]} : outcome'[m] = outcome[m] /\ status'[m] = status[m],
           JobInv(d)', HookInv(d[1])'
    PROVE  IntakeInv'
<1>1. ASSUME NEW e \in Delivery PROVE JobInv(e)'
  BY OtherJobs DEF IntakeInv
<1>2. ASSUME NEW m \in Message PROVE HookInv(m)'
  BY OtherHooks DEF IntakeInv, HookInv, ServerRests
<1>3. ASSUME NEW c \in Call PROVE CallInv(c)'
  BY OtherCalls DEF IntakeInv, ServerRests
<1> QED
  BY <1>1, <1>2, <1>3 DEF IntakeInv

\* Where a job goes, the others stay.
LEMMA GotoSteps ==
    ASSUME IntakeInv, NEW d \in Delivery, NEW s \in JobStage, Goto(d, s)
    PROVE  /\ step' \in [Delivery -> JobStage]
           /\ step'[d] = s /\ \A e \in Delivery \ {d} : step'[e] = step[e]
  BY DEF Goto, IntakeInv, IntakeTypeOK

\* The data of the handlers keeps its types and what was inserted.
HandlersGrow ==
    /\ org \subseteq org' /\ org' \subseteq Org
    /\ user \subseteq user' /\ user' \subseteq Message
    /\ member \subseteq member' /\ member' \subseteq user'
    /\ pushBuild \subseteq pushBuild' /\ pushBuild' \subseteq Delivery
    /\ queued \subseteq queued' /\ queued' \subseteq pushBuild'
    /\ \A r \in Repo : HasBuild(r)' => r \in repo

\* Most steps insert nothing.
LEMMA NothingInserted ==
    ASSUME IntakeInv, UNCHANGED <<org, user, member, pushBuild, queued, firstBuild>>
    PROVE  HandlersGrow
  BY DEF IntakeInv, IntakeTypeOK, HandlersGrow, HasBuild

\* A handler that goes on has nothing to show but its next step.
LEMMA HandlerGoesOn ==
    ASSUME IntakeInv, NEW d \in Delivery, NEW s \in JobStage, Goto(d, s),
           HandlersGrow, ServerRests, UNCHANGED <<status, outcome>>, TypeOK',
           step'[d] = s => JobInv(d)'
    PROVE  IntakeInv'
<1>1. /\ step' \in [Delivery -> JobStage]
      /\ step'[d] = s /\ \A e \in Delivery \ {d} : step'[e] = step[e]
  BY GotoSteps
<1>2. IntakeTypeOK'
  BY <1>1 DEF IntakeInv, IntakeTypeOK, HandlersGrow, ServerRests
<1>3. DataGrows
  BY DEF DataGrows, HandlersGrow, ServerRests
<1>4. HookInv(d[1])'
  BY <1>3, DeliveryHook, OtherHooks DEF IntakeInv, HookInv, ServerRests
<1> QED
  BY <1>1, <1>2, <1>3, <1>4, StepOfJob

\* A handler that ends has logged what is true.
LEMMA HandlerEnds ==
    ASSUME IntakeInv, NEW d \in Delivery, NEW o \in Outcome, End(d, o),
           HandlersGrow, ServerRests, status' = status, TypeOK',
           cache[d[1]] # "none",
           o = "done" => Served(d[1])',
           o = "ignored" => d[1] \notin ready \/ cache[d[1]] = "other"
    PROVE  IntakeInv'
<1>1. /\ step' \in [Delivery -> JobStage]
      /\ step'[d] = "ok" /\ \A e \in Delivery \ {d} : step'[e] = step[e]
  BY GotoSteps DEF End, JobStage
<1>2. d[1] \in Message
  BY DeliveryHook
<1>3. /\ outcome' \in [Message -> SUBSET Outcome]
      /\ outcome'[d[1]] = outcome[d[1]] \cup {o}
      /\ \A m \in Message \ {d[1]} : outcome'[m] = outcome[m]
  BY <1>2 DEF End, IntakeInv, IntakeTypeOK
<1>4. IntakeTypeOK'
  BY <1>1, <1>3 DEF IntakeInv, IntakeTypeOK, HandlersGrow, ServerRests
<1>5. DataGrows
  BY <1>3 DEF DataGrows, HandlersGrow, ServerRests
<1>6. JobInv(d)'
  BY <1>1, <1>3 DEF JobInv, ServerRests
<1>7. HookInv(d[1])'
  <2>1. "done" \in outcome'[d[1]] => Served(d[1])'
    <3>1. "done" \in outcome[d[1]] => Served(d[1])
      BY <1>2 DEF IntakeInv, HookInv
    <3> QED
      BY <1>2, <1>3, <1>5, <3>1, ServedStays
  <2>2. d[1] \in ready' => Target(d[1], cache[d[1]])'
    BY <1>2, <1>5 DEF IntakeInv, HookInv, Target, DataGrows, ServerRests
  <2> QED
    BY <1>2, <1>3, <2>1, <2>2 DEF IntakeInv, HookInv, ServerRests
<1> QED
  BY <1>1, <1>3, <1>4, <1>5, <1>6, <1>7, StepOfJob
-----------------------------------------------------------------------------
\* The job reads the webhook that was cached, or fails and leaves its message.
LEMMA ReadCacheInv ==
    ASSUME IntakeInv, TypeOK', NEW w \in Worker, NEW d \in Delivery, ReadCache(w, d)
    PROVE  IntakeInv'
<1>1. HandlersGrow /\ ServerRests /\ UNCHANGED outcome
  BY NothingInserted DEF ReadCache, ServerRests, hookVars, orgVars, callVars
<1>2. CASE cache[d[1]] # "none" /\ Goto(d, "handle") /\ UNCHANGED queueVars
  <2>1. step'[d] = "handle" => JobInv(d)'
    BY <1>1, <1>2 DEF JobInv, ServerRests
  <2> QED
    BY <1>1, <1>2, <2>1, HandlerGoesOn DEF JobStage, queueVars
<1>3. CASE Fail(w, d) /\ Goto(d, "none")
  <2>1. step'[d] = "none" => JobInv(d)'
    BY DEF JobInv
  <2> QED
    BY <1>1, <1>3, <2>1, HandlerGoesOn DEF JobStage, Fail
<1> QED
  BY <1>2, <1>3 DEF ReadCache

\* A handler that logs a failure claims nothing.
LEMMA FailedInv ==
    ASSUME IntakeInv, TypeOK', NEW d \in Delivery, End(d, "failed"), cache[d[1]] # "none",
           UNCHANGED <<queueVars, hookVars, orgVars, callVars, pushBuild, queued>>
    PROVE  IntakeInv'
<1>1. HandlersGrow /\ ServerRests /\ UNCHANGED status
  BY NothingInserted DEF ServerRests, queueVars, hookVars, orgVars, callVars
<1> QED
  BY <1>1, HandlerEnds DEF Outcome

\* Only webhooks without their target, or without a handler, are ignored.
LEMMA IgnoredInv ==
    ASSUME IntakeInv, TypeOK', NEW d \in Delivery, End(d, "ignored"), cache[d[1]] # "none",
           cache[d[1]] = "other" \/ ~Target(d[1], cache[d[1]]),
           UNCHANGED <<queueVars, hookVars, orgVars, callVars, pushBuild, queued>>
    PROVE  IntakeInv'
<1>1. HandlersGrow /\ ServerRests /\ UNCHANGED status
  BY NothingInserted DEF ServerRests, queueVars, hookVars, orgVars, callVars
<1>2. d[1] \notin ready \/ cache[d[1]] = "other"
  BY DeliveryHook DEF IntakeInv, HookInv
<1> QED
  BY <1>1, <1>2, HandlerEnds DEF Outcome

\* The handlers that insert nothing.
LEMMA HandleInv ==
    ASSUME IntakeInv, TypeOK', NEW w \in Worker, NEW d \in Delivery,
           HandleOther(w, d) \/ FindRepo(w, d)
    PROVE  IntakeInv'
<1>1. cache[d[1]] # "none"
  BY DEF HandleOther, FindRepo
<1>2. CASE HandleOther(w, d)
  BY <1>1, <1>2, IgnoredInv DEF HandleOther
<1>3. CASE FindRepo(w, d)
  <2>1. CASE RepoOf[d[1]] \in repo /\ Goto(d, "insert") /\ UNCHANGED outcome
    <3>1. HandlersGrow /\ ServerRests /\ UNCHANGED status
      BY <1>3, NothingInserted DEF FindRepo, ServerRests, queueVars, hookVars, orgVars, callVars
    <3>2. step'[d] = "insert" => JobInv(d)'
      BY <1>3, <2>1, <3>1 DEF FindRepo, JobInv, ServerRests
    <3> QED
      BY <2>1, <3>1, <3>2, HandlerGoesOn DEF JobStage
  <2>2. CASE RepoOf[d[1]] \notin repo /\ End(d, "ignored")
    BY <1>1, <1>3, <2>2, IgnoredInv DEF FindRepo, Target
  <2>3. CASE End(d, "failed")
    BY <1>1, <1>3, <2>3, FailedInv DEF FindRepo
  <2> QED
    BY <1>3, <2>1, <2>2, <2>3 DEF FindRepo
<1> QED
  BY <1>2, <1>3

\* A build is inserted for a repository that is there.
LEMMA InsertBuildInv ==
    ASSUME IntakeInv, TypeOK', NEW w \in Worker, NEW d \in Delivery, InsertBuild(w, d)
    PROVE  IntakeInv'
<1>1. cache[d[1]] = "push" /\ RepoOf[d[1]] \in repo
  BY DEF InsertBuild, At, IntakeInv, JobInv
<1>2. CASE pushBuild' = pushBuild \cup {d} /\ Goto(d, "send") /\ UNCHANGED outcome
  <2>1. ServerRests /\ UNCHANGED <<status, org, user, member, queued>>
    BY DEF InsertBuild, ServerRests, queueVars, hookVars, orgVars, callVars
  <2>2. \A r \in Repo : HasBuild(r)' => r \in repo
    BY <1>1, <1>2, <2>1 DEF IntakeInv, IntakeTypeOK, HasBuild, ServerRests
  <2>3. HandlersGrow
    BY <1>2, <2>1, <2>2 DEF IntakeInv, IntakeTypeOK, HandlersGrow
  <2>4. step'[d] = "send" => JobInv(d)'
    BY <1>1, <1>2, <2>1 DEF JobInv, ServerRests
  <2> QED
    BY <1>2, <2>1, <2>3, <2>4, HandlerGoesOn DEF JobStage
<1>3. CASE End(d, "failed") /\ UNCHANGED pushBuild
  BY <1>1, <1>3, FailedInv DEF InsertBuild
<1> QED
  BY <1>2, <1>3 DEF InsertBuild

\* The webhook of a build that is sent is served.
LEMMA SendSnapshotInv ==
    ASSUME IntakeInv, TypeOK', NEW w \in Worker, NEW d \in Delivery, SendSnapshot(w, d)
    PROVE  IntakeInv'
<1>1. cache[d[1]] = "push" /\ d \in pushBuild
  BY DEF SendSnapshot, At, IntakeInv, JobInv
<1>2. CASE queued' = queued \cup {d} /\ End(d, "done")
  <2>1. ServerRests /\ UNCHANGED <<status, org, user, member, pushBuild>>
    BY DEF SendSnapshot, ServerRests, queueVars, hookVars, orgVars, callVars
  <2>2. HandlersGrow
    BY <1>1, <1>2, <2>1 DEF IntakeInv, IntakeTypeOK, HandlersGrow, HasBuild, ServerRests
  <2>3. Served(d[1])'
    BY <1>1, <1>2, <2>1 DEF Served, ServerRests
  <2> QED
    BY <1>1, <1>2, <2>1, <2>2, <2>3, HandlerEnds DEF Outcome
<1>3. CASE End(d, "failed") /\ UNCHANGED queued
  BY <1>1, <1>3, FailedInv DEF SendSnapshot
<1> QED
  BY <1>2, <1>3 DEF SendSnapshot

\* The organization, its users and their memberships are inserted together.
LEMMA InstallOrgInv ==
    ASSUME IntakeInv, TypeOK', NEW w \in Worker, NEW d \in Delivery, InstallOrg(w, d)
    PROVE  IntakeInv'
<1>1. cache[d[1]] = "installation"
  BY DEF InstallOrg
<1>2. ASSUME org' = org \cup {OrgOf[d[1]]}, End(d, "done"),
             NEW M \in SUBSET {m \in Message : OrgOf[m] = OrgOf[d[1]]},
             user' = user \cup M, member' = member \cup M
      PROVE  IntakeInv'
  <2>1. ServerRests /\ UNCHANGED <<status, pushBuild, queued>>
    BY DEF InstallOrg, ServerRests, queueVars, hookVars, callVars
  <2>2. HandlersGrow
    BY <1>2, <2>1, DeliveryHook DEF IntakeInv, IntakeTypeOK, HandlersGrow, HasBuild, ServerRests
  <2>3. Served(d[1])'
    BY <1>1, <1>2, <2>1 DEF Served, ServerRests
  <2> QED
    BY <1>1, <1>2, <2>1, <2>2, <2>3, HandlerEnds DEF Outcome
<1>3. CASE End(d, "failed") /\ UNCHANGED <<org, user, member>>
  BY <1>1, <1>3, FailedInv DEF InstallOrg, orgVars
<1> QED
  BY <1>2, <1>3 DEF InstallOrg

\* The user of a new member is inserted once the organization is found.
LEMMA AddUserInv ==
    ASSUME IntakeInv, TypeOK', NEW w \in Worker, NEW d \in Delivery, AddUser(w, d)
    PROVE  IntakeInv'
<1>1. cache[d[1]] = "member" /\ d[1] \in Message
  BY DeliveryHook DEF AddUser
<1>2. CASE user' = user \cup {d[1]} /\ Goto(d, "join") /\ UNCHANGED outcome
  <2>1. ServerRests /\ UNCHANGED <<status, org, member, pushBuild, queued>>
    BY DEF AddUser, ServerRests, queueVars, hookVars, callVars
  <2>2. HandlersGrow
    BY <1>1, <1>2, <2>1 DEF IntakeInv, IntakeTypeOK, HandlersGrow, HasBuild, ServerRests
  <2>3. step'[d] = "join" => JobInv(d)'
    BY <1>1, <1>2, <2>1 DEF JobInv, ServerRests
  <2> QED
    BY <1>2, <2>1, <2>2, <2>3, HandlerGoesOn DEF JobStage
<1>3. CASE OrgOf[d[1]] \notin org /\ End(d, "ignored") /\ UNCHANGED user
  BY <1>1, <1>3, IgnoredInv DEF AddUser, Target, orgVars
<1>4. CASE End(d, "failed") /\ UNCHANGED user
  BY <1>1, <1>4, FailedInv DEF AddUser, orgVars
<1> QED
  BY <1>2, <1>3, <1>4 DEF AddUser

\* The association comes last.
LEMMA AddMemberInv ==
    ASSUME IntakeInv, TypeOK', NEW w \in Worker, NEW d \in Delivery, AddMember(w, d)
    PROVE  IntakeInv'
<1>1. cache[d[1]] = "member" /\ d[1] \in user
  BY DEF AddMember, At, IntakeInv, JobInv
<1>2. CASE member' = member \cup {d[1]} /\ End(d, "done")
  <2>1. ServerRests /\ UNCHANGED <<status, org, user, pushBuild, queued>>
    BY DEF AddMember, ServerRests, queueVars, hookVars, callVars
  <2>2. HandlersGrow
    BY <1>1, <1>2, <2>1 DEF IntakeInv, IntakeTypeOK, HandlersGrow, HasBuild, ServerRests
  <2>3. Served(d[1])'
    BY <1>1, <1>2, <2>1 DEF Served, ServerRests
  <2> QED
    BY <1>1, <1>2, <2>1, <2>2, <2>3, HandlerEnds DEF Outcome
<1>3. CASE End(d, "failed") /\ UNCHANGED member
  BY <1>1, <1>3, FailedInv DEF AddMember, orgVars
<1> QED
  BY <1>2, <1>3 DEF AddMember
-----------------------------------------------------------------------------
\* Steps of the queue send no webhook, and delete one only after its handler's end.
LEMMA StepOfQueue ==
    ASSUME IntakeInv, TypeOK', ServerRests, UNCHANGED <<orgVars, pushBuild, queued, outcome>>,
           step' \in [Delivery -> JobStage],
           \A d \in Delivery : step'[d] \in {step[d], "none", "start"},
           \A m \in Message : /\ status[m] = "unsent" => status'[m] = "unsent"
                              /\ status'[m] = "deleted" => outcome[m] # {}
    PROVE  IntakeInv'
<1>1. IntakeTypeOK'
  BY DEF IntakeInv, IntakeTypeOK, ServerRests, orgVars, HasBuild
<1>2. DataGrows
  BY DEF DataGrows, ServerRests, orgVars
<1>3. ASSUME NEW d \in Delivery PROVE JobInv(d)'
  BY <1>2, OtherJobs DEF IntakeInv
<1>4. ASSUME NEW m \in Message PROVE HookInv(m)'
  BY <1>2, OtherHooks DEF IntakeInv, ServerRests
<1>5. ASSUME NEW c \in Call PROVE CallInv(c)'
  BY <1>2, OtherCalls DEF IntakeInv, ServerRests
<1> QED
  BY <1>1, <1>3, <1>4, <1>5 DEF IntakeInv

\* A message is deleted by a job whose handler has ended.
LEMMA SettleInv ==
    ASSUME IntakeInv, TypeOK', NEW w \in Worker, NEW d \in Delivery, Settle(w, d)
    PROVE  IntakeInv'
<1>1. ServerRests /\ UNCHANGED <<orgVars, pushBuild, queued, outcome>>
  BY DEF Settle, ServerRests, hookVars, callVars
<1>2. /\ step' \in [Delivery -> JobStage]
      /\ step'[d] = "none" /\ \A e \in Delivery \ {d} : step'[e] = step[e]
  BY GotoSteps DEF Settle, JobStage
<1>3. outcome[d[1]] # {}
  BY DEF Settle, At, IntakeInv, JobInv
<1>4. \A m \in Message : /\ status[m] = "unsent" => status'[m] = "unsent"
                         /\ status'[m] = "deleted" => outcome[m] # {}
  BY <1>3 DEF Settle, Succeed, IntakeInv, IntakeTypeOK, TypeOK, HookInv
<1> QED
  BY <1>1, <1>2, <1>4, StepOfQueue

\* The poll loop, its timer, SQS and crashes.
LEMMA SurroundingsInv ==
    ASSUME IntakeInv, TypeOK',
           \/ \E m \in Message : Sqs(m)
           \/ \E w \in Worker : Poll(w) \/ Timer(w) \/ Die(w)
           \/ UNCHANGED vars
    PROVE  IntakeInv'
<1>1. ServerRests /\ UNCHANGED <<orgVars, pushBuild, queued, outcome>>
  BY DEF Sqs, Poll, Timer, Die, ServerRests, vars, intakeVars, hookVars, orgVars, callVars, jobVars
<1>2. /\ step' \in [Delivery -> JobStage]
      /\ \A d \in Delivery : step'[d] \in {step[d], "none", "start"}
  BY DEF Sqs, Poll, Timer, Die, vars, intakeVars, jobVars, IntakeInv, IntakeTypeOK, JobStage
<1>3. \A m \in Message : /\ status[m] = "unsent" => status'[m] = "unsent"
                         /\ status'[m] = "deleted" => status[m] = "deleted"
  BY DEF Sqs, VisibilityExpires, Redrive, Poll, Receive, Timer, JobTimeout, Die, Crash, vars,
         queueVars, IntakeInv, IntakeTypeOK, TypeOK
<1> QED
  BY <1>1, <1>2, <1>3, StepOfQueue DEF IntakeInv, HookInv
-----------------------------------------------------------------------------
\* A step of the API server, which no job sees, keeps the webhooks it has cached.
LEMMA StepOfServer ==
    ASSUME IntakeInv, IntakeTypeOK', DataGrows,
           UNCHANGED <<step, outcome, ready>>, sending' \subseteq sending,
           \A m \in Message : status'[m] = "deleted" => status[m] = "deleted",
           \A c \in Call : CallInv(c)'
    PROVE  IntakeInv'
<1>1. ASSUME NEW d \in Delivery PROVE JobInv(d)'
  BY OtherJobs DEF IntakeInv
<1>2. ASSUME NEW m \in Message PROVE HookInv(m)'
  BY OtherHooks DEF IntakeInv, HookInv
<1> QED
  BY <1>1, <1>2 DEF IntakeInv

\* A new webhook has no handler yet.
LEMMA ReceiveWebhookInv ==
    ASSUME IntakeInv, TypeOK', NEW m \in Message, NEW k \in Kind, ReceiveWebhook(m, k)
    PROVE  IntakeInv'
<1>1. UNCHANGED <<status, org, user, member, repo, pushBuild, queued, firstBuild, step, outcome,
                  call, built>>
  BY DEF ReceiveWebhook, queueVars, orgVars, callVars, jobVars
<1>2. /\ cache[m] = "none" /\ cache' = [cache EXCEPT ![m] = k] /\ k # "none"
      /\ sending' = sending \cup {m}
      /\ ready' = IF Target(m, k) THEN ready \cup {m} ELSE ready
  BY DEF ReceiveWebhook, Kind
<1>3. cache'[m] = k /\ \A h \in Message \ {m} : cache'[h] = cache[h]
  BY <1>2 DEF IntakeInv, IntakeTypeOK
<1>4. IntakeTypeOK'
  <2>1. \A h \in Message : status'[h] # "unsent" => cache'[h] # "none" /\ h \notin sending'
    BY <1>1, <1>2, <1>3 DEF IntakeInv, IntakeTypeOK
  <2>2. \A r \in Repo : HasBuild(r)' => r \in repo'
    BY <1>1 DEF HasBuild, IntakeInv, IntakeTypeOK
  <2>3. ready' \subseteq Message /\ sending' \subseteq Message
    BY <1>2 DEF IntakeInv, IntakeTypeOK
  <2> QED
    BY <1>1, <1>2, <2>1, <2>2, <2>3 DEF IntakeInv, IntakeTypeOK
<1>5. DataGrows
  BY <1>1, <1>2, <1>3 DEF DataGrows
<1>6. ASSUME NEW d \in Delivery PROVE JobInv(d)'
  BY <1>1, <1>5, OtherJobs DEF IntakeInv
<1>7. ASSUME NEW h \in Message PROVE HookInv(h)'
  <2>1. CASE h = m
    <3>1. m \notin ready /\ outcome[m] = {} /\ status[m] # "deleted"
      BY <1>2 DEF IntakeInv, HookInv, IntakeTypeOK
    <3>2. m \in ready' => Target(m, cache[m])'
      BY <1>1, <1>2, <1>3, <3>1 DEF Target
    <3> QED
      BY <1>1, <1>2, <1>3, <2>1, <3>1, <3>2 DEF HookInv
  <2>2. CASE h # m
    BY <1>1, <1>2, <1>5, <2>2, OtherHooks DEF IntakeInv, HookInv
  <2> QED
    BY <2>1, <2>2
<1>8. ASSUME NEW c \in Call PROVE CallInv(c)'
  BY <1>1, <1>5, OtherCalls DEF IntakeInv
<1> QED
  BY <1>4, <1>6, <1>7, <1>8 DEF IntakeInv

\* Only cached webhooks are sent.
LEMMA SendWebhookInv ==
    ASSUME IntakeInv, TypeOK', NEW m \in Message, SendWebhook(m)
    PROVE  IntakeInv'
<1>1. UNCHANGED <<cache, org, user, member, repo, pushBuild, queued, firstBuild, step, outcome,
                  call, built, ready>>
  BY DEF SendWebhook, orgVars, callVars, jobVars
<1>2. m \in sending /\ sending' = sending \ {m} /\ cache[m] # "none"
  BY DEF SendWebhook, IntakeInv, HookInv
<1>3. \A h \in Message : /\ h # m => status'[h] = status[h]
                         /\ status'[h] = "deleted" => status[h] = "deleted"
  BY DEF SendWebhook, Send, queueVars, IntakeInv, IntakeTypeOK, TypeOK
<1>4. IntakeTypeOK'
  <2>1. \A h \in Message : status'[h] # "unsent" => cache'[h] # "none" /\ h \notin sending'
    BY <1>1, <1>2, <1>3 DEF IntakeInv, IntakeTypeOK
  <2>2. \A r \in Repo : HasBuild(r)' => r \in repo'
    BY <1>1 DEF HasBuild, IntakeInv, IntakeTypeOK
  <2> QED
    BY <1>1, <1>2, <2>1, <2>2 DEF IntakeInv, IntakeTypeOK
<1>5. DataGrows
  BY <1>1 DEF DataGrows
<1>6. ASSUME NEW c \in Call PROVE CallInv(c)'
  BY <1>1, <1>5, OtherCalls DEF IntakeInv
<1> QED
  BY <1>1, <1>2, <1>3, <1>4, <1>5, <1>6, StepOfServer

\* What a step of an installation leaves alone.
InstallRests == UNCHANGED <<queueVars, hookVars, orgVars, jobVars>>

\* A step of an installation: types of what it changes, and its own invariant.
LEMMA StepOfInstall ==
    ASSUME IntakeInv, TypeOK', InstallRests,
           repo \subseteq repo', repo' \subseteq Repo,
           firstBuild \subseteq firstBuild', firstBuild' \subseteq Call,
           \A r \in Repo : HasBuild(r)' => r \in repo',
           call' \in [Call -> CallStage], built' \subseteq Call,
           \A c \in Call : CallInv(c)'
    PROVE  IntakeInv'
<1>1. UNCHANGED <<status, cache, sending, ready, org, user, member, pushBuild, queued, step, outcome>>
  BY DEF InstallRests, queueVars, hookVars, orgVars, jobVars
<1>2. IntakeTypeOK'
  BY <1>1 DEF IntakeInv, IntakeTypeOK
<1>3. DataGrows
  BY <1>1 DEF DataGrows
<1> QED
  BY <1>1, <1>2, <1>3, StepOfServer

\* An installation begins with its repositories stored.
LEMMA UpsertReposInv ==
    ASSUME IntakeInv, TypeOK', NEW i \in Install, UpsertRepos(i)
    PROVE  IntakeInv'
<1>1. InstallRests /\ UNCHANGED firstBuild
  BY DEF UpsertRepos, InstallRests
<1>2. /\ repo \subseteq repo' /\ repo' \subseteq Repo /\ built' \subseteq Call
      /\ call' \in [Call -> CallStage]
  BY IntakeAssumption DEF UpsertRepos, IntakeInv, IntakeTypeOK, CallStage
<1>3. \A r : HasBuild(r)' <=> HasBuild(r)
  BY <1>1 DEF InstallRests, jobVars, HasBuild
<1>4. ASSUME NEW c \in Call PROVE CallInv(c)'
  <2>1. c[2] \in Selected[c[1]] /\ c = <<c[1], c[2]>>
    BY CallType
  <2>2. CASE c[1] = i
    <3>1. call[c] = "idle"
      BY <2>1, <2>2 DEF UpsertRepos
    <3>2. c \notin firstBuild'
      BY <1>1, <3>1 DEF IntakeInv, CallInv
    <3>3. \/ call'[c] = "count" /\ c[2] \in repo'
          \/ call'[c] = "failed"
      BY <2>1, <2>2 DEF UpsertRepos
    <3>4. c \in built' => HasBuild(c[2])'
      BY <1>3 DEF UpsertRepos, IntakeInv, CallInv
    <3> QED
      BY <3>2, <3>3, <3>4 DEF CallInv
  <2>3. CASE c[1] # i
    <3>1. call'[c] = call[c] /\ (c \in built' => c \in built)
      BY <2>3 DEF UpsertRepos
    <3> QED
      BY <1>1, <1>2, <1>3, <3>1 DEF IntakeInv, CallInv
  <2> QED
    BY <2>2, <2>3
<1>5. \A r \in Repo : HasBuild(r)' => r \in repo'
  BY <1>2, <1>3 DEF IntakeInv, IntakeTypeOK
<1> QED
  BY <1>1, <1>2, <1>4, <1>5, StepOfInstall DEF IntakeInv, IntakeTypeOK

\* A repository with a build gets no other one from an installation that began later.
LEMMA InstallStepInv ==
    ASSUME IntakeInv, TypeOK', NEW c \in Call, InstallStep(c)
    PROVE  IntakeInv'
<1>1. InstallRests /\ UNCHANGED <<repo, built>>
  BY DEF InstallStep, CountBuilds, InsertFirstBuild, SendFirstBuild, InstallRests
<1>2. /\ call' \in [Call -> CallStage]
      /\ \A e \in Call \ {c} : call'[e] = call[e]
  BY DEF InstallStep, CountBuilds, InsertFirstBuild, SendFirstBuild, IntakeInv, IntakeTypeOK, CallStage
<1>3. /\ firstBuild \subseteq firstBuild' /\ firstBuild' \subseteq firstBuild \cup {c}
      /\ c \in firstBuild' => c \in firstBuild \/ c[2] \in repo
  BY DEF InstallStep, CountBuilds, InsertFirstBuild, SendFirstBuild, IntakeInv, CallInv
<1>4. pushBuild' = pushBuild
  BY <1>1 DEF InstallRests, jobVars
<1>5. \A r \in Repo : HasBuild(r)' => r \in repo'
  BY <1>1, <1>3, <1>4 DEF HasBuild, IntakeInv, IntakeTypeOK
<1>6. \A r : HasBuild(r) => HasBuild(r)'
  BY <1>3, <1>4 DEF HasBuild
<1>7. ASSUME NEW e \in Call \ {c} PROVE CallInv(e)'
  BY <1>1, <1>2, <1>3, <1>6 DEF IntakeInv, CallInv
<1>8. CallInv(c)'
  <2>1. CASE CountBuilds(c)
    <3>1. /\ call[c] = "count" /\ call'[c] \in {"skipped", "insert", "failed"}
          /\ call'[c] = "insert" => ~HasBuild(c[2])
      BY <2>1 DEF CountBuilds, IntakeInv, IntakeTypeOK
    <3>2. UNCHANGED firstBuild
      BY <2>1 DEF CountBuilds
    <3> QED
      BY <1>1, <1>6, <3>1, <3>2 DEF IntakeInv, CallInv
  <2>2. CASE InsertFirstBuild(c)
    <3>1. /\ call[c] = "insert"
          /\ \/ call'[c] = "send"
             \/ call'[c] = "failed" /\ UNCHANGED firstBuild
      BY <2>2 DEF InsertFirstBuild, IntakeInv, IntakeTypeOK
    <3> QED
      BY <1>1, <1>6, <3>1 DEF IntakeInv, CallInv
  <2>3. CASE SendFirstBuild(c)
    <3>1. /\ call[c] = "send" /\ call'[c] \in {"queued", "failed"} /\ UNCHANGED firstBuild
      BY <2>3 DEF SendFirstBuild, IntakeInv, IntakeTypeOK
    <3> QED
      BY <1>1, <1>6, <3>1 DEF IntakeInv, CallInv
  <2> QED
    BY <2>1, <2>2, <2>3 DEF InstallStep
<1> QED
  BY <1>1, <1>2, <1>3, <1>5, <1>7, <1>8, StepOfInstall DEF IntakeInv, IntakeTypeOK

\* Webhooks that were being sent stay cached, installations end.
LEMMA ServerDiesInv ==
    ASSUME IntakeInv, TypeOK', ServerDies
    PROVE  IntakeInv'
<1>1. /\ UNCHANGED <<status, cache, org, user, member, repo, pushBuild, queued, firstBuild, step,
                     outcome, built, ready>>
      /\ sending' = {}
  BY DEF ServerDies, queueVars, orgVars, jobVars
<1>2. \A c \in Call : call'[c] \in {call[c], "failed"}
  BY DEF ServerDies
<1>3. \A r : HasBuild(r)' <=> HasBuild(r)
  BY <1>1 DEF HasBuild
<1>4. IntakeTypeOK'
  BY <1>1, <1>3 DEF ServerDies, IntakeInv, IntakeTypeOK, CallStage
<1>5. DataGrows
  BY <1>1 DEF DataGrows
<1>6. ASSUME NEW c \in Call PROVE CallInv(c)'
  <2>1. c \in built => c \notin firstBuild /\ HasBuild(c[2])
    BY DEF IntakeInv, CallInv
  <2>2. CASE call'[c] = "failed"
    BY <1>1, <1>3, <2>1, <2>2 DEF CallInv
  <2>3. CASE call'[c] = call[c]
    BY <1>1, <1>3, <2>3 DEF IntakeInv, CallInv
  <2> QED
    BY <1>2, <2>2, <2>3
<1> QED
  BY <1>1, <1>4, <1>5, <1>6, StepOfServer
-----------------------------------------------------------------------------
\* The invariant survives every step.
LEMMA StepInv ==
    ASSUME IntakeInv, [IntakeNext]_vars
    PROVE  IntakeInv'
<1>1. TypeOK'
  BY IntakeStepIsQueueStep, StepType DEF IntakeInv, IntakeTypeOK
<1>2. ASSUME NEW w \in Worker, NEW d \in Jobs(w), JobStep(w, d) PROVE IntakeInv'
  <2>1. d \in Delivery
    BY JobIsDelivery DEF IntakeInv, IntakeTypeOK
  <2> QED
    BY <1>1, <1>2, <2>1, ReadCacheInv, HandleInv, InsertBuildInv, SendSnapshotInv, InstallOrgInv,
       AddUserInv, AddMemberInv, SettleInv DEF JobStep
<1>3. ASSUME NEW m \in Message, NEW k \in Kind, ReceiveWebhook(m, k) PROVE IntakeInv'
  BY <1>1, <1>3, ReceiveWebhookInv
<1>4. ASSUME NEW m \in Message, SendWebhook(m) PROVE IntakeInv'
  BY <1>1, <1>4, SendWebhookInv
<1>5. ASSUME NEW i \in Install, UpsertRepos(i) PROVE IntakeInv'
  BY <1>1, <1>5, UpsertReposInv
<1>6. ASSUME NEW c \in Call, InstallStep(c) PROVE IntakeInv'
  BY <1>1, <1>6, InstallStepInv
<1> QED
  BY <1>1, <1>2, <1>3, <1>4, <1>5, <1>6, ServerDiesInv, SurroundingsInv DEF IntakeNext

\* At the start nothing is cached, stored or under way.
LEMMA InitInv == IntakeInit => IntakeInv
<1> SUFFICES ASSUME IntakeInit PROVE IntakeInv
  OBVIOUS
<1>1. TypeOK
  BY LimitType DEF IntakeInit, Init, TypeOK
<1>2. \A m \in Message : status[m] = "unsent"
  BY DEF IntakeInit, Init
<1>3. IntakeTypeOK
  BY <1>1, <1>2 DEF IntakeInit, IntakeTypeOK, HasBuild, JobStage, CallStage
<1>4. \A d \in Delivery : JobInv(d)
  BY DEF IntakeInit, JobInv
<1>5. \A m \in Message : HookInv(m)
  BY <1>2 DEF IntakeInit, HookInv
<1>6. \A c \in Call : CallInv(c)
  BY DEF IntakeInit, CallInv
<1> QED
  BY <1>3, <1>4, <1>5, <1>6 DEF IntakeInv

\* The inductive invariant holds in every reachable state.
LEMMA Invariant == IntakeSpec => []IntakeInv
  BY InitInv, StepInv, PTL DEF IntakeSpec

\* Whatever the API server and the handlers do, the webhook messages behave as
\* QueueWorker says of them.
THEOREM IntakeIsQueueWorker == IntakeSpec => Spec
<1>1. IntakeInit => Init
  BY DEF IntakeInit
<1>2. IntakeInv /\ [IntakeNext]_vars => [Next]_queueVars
  BY IntakeStepIsQueueStep DEF IntakeInv, IntakeTypeOK
<1> QED
  BY <1>1, <1>2, Invariant, PTL DEF IntakeSpec, Spec

\* Rows keep their types, and no row is there without those it needs.
THEOREM IntakeTypeCorrect == IntakeSpec => []IntakeTypeOK
<1>1. IntakeInv => IntakeTypeOK
  BY DEF IntakeInv
<1> QED
  BY <1>1, Invariant, PTL

\* No webhook leaves its queue unseen, or as done without what its handler is for.
THEOREM WebhooksAreKept == IntakeSpec => []WebhookNotLost
<1>1. IntakeInv => WebhookNotLost
  BY DEF IntakeInv, IntakeTypeOK, HookInv, WebhookNotLost, Outcome
<1> QED
  BY <1>1, Invariant, PTL

\* What was there before a webhook is still there when its handler looks for it.
THEOREM ReadyAreServed == IntakeSpec => []ReadyWebhooksAreServed
<1>1. IntakeInv => ReadyWebhooksAreServed
  <2> SUFFICES ASSUME IntakeInv, NEW m \in ready, status[m] = "deleted",
                      "failed" \notin outcome[m]
               PROVE  Served(m)
    BY DEF ReadyWebhooksAreServed
  <2>1. m \in Message /\ outcome[m] \subseteq Outcome
    BY DEF IntakeInv, IntakeTypeOK
  <2>2. "done" \in outcome[m] \/ cache[m] = "other"
    BY <2>1 DEF IntakeInv, HookInv, Outcome
  <2>3. CASE cache[m] = "other"
    BY <2>3 DEF Served
  <2> QED
    BY <2>1, <2>2, <2>3 DEF IntakeInv, HookInv
<1> QED
  BY <1>1, Invariant, PTL

\* No installation builds what had a build before it, whatever else installs or builds it.
THEOREM BuiltAreSkipped == IntakeSpec => []BuiltReposAreSkipped
<1>1. IntakeInv => BuiltReposAreSkipped
  BY DEF IntakeInv, IntakeTypeOK, CallInv, BuiltReposAreSkipped
<1> QED
  BY <1>1, Invariant, PTL
=============================================================================
