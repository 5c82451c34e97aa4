------------------------- MODULE WebhookIntake -------------------------
(***************************************************************************)
(* What happens to GitHub's webhooks and to the repositories of an         *)
(* installation, up to the snapshot message.  The API server verifies a    *)
(* webhook, caches it in Postgres and, without waiting, queues its         *)
(* delivery id (interceptor.ts).  A worker job reads it from the cache and *)
(* runs its handler; what a handler throws is logged and forgotten         *)
(* (dispatcher.ts).  Next to that, users install repositories from the     *)
(* GUI, each of which is queued for its first snapshot if it has no build. *)
(***************************************************************************)
EXTENDS QueueWorker

CONSTANTS
    Repo, Org,
    RepoOf, OrgOf,   \* the repository and installation in the payload of a webhook
    Install,         \* calls of installSelectedRepos
    Selected         \* Selected[i]: the repositories they name

\* A message is the delivery id of a webhook.
ASSUME IntakeAssumption ==
    /\ RepoOf \in [Message -> Repo]
    /\ OrgOf \in [Message -> Org]
    /\ Selected \in [Install -> SUBSET Repo]

VARIABLES
    cache,       \* event_type of the webhook_cache row, "none" if there is no row
    sending,     \* webhooks whose SendMessageCommand is under way
    org,         \* installations with a row in organizations
    user,        \* webhooks whose member has a row in users
    member,      \* webhooks whose member has a row in organization_user
    repo,        \* rows of github_repositories, with their projects
    pushBuild,   \* deliveries that inserted a build
    queued,      \* those of them that sent its snapshot message
    firstBuild,  \* installations of a repository that inserted a build
    step,        \* how far the job of each delivery is
    outcome,     \* what the handlers of each webhook logged when they ended
    call,        \* how far an installation is with a repository
    ready,       \* history: webhooks whose repository or organization was there before them
    built        \* history: installations of a repository that had a build before them

hookVars == <<cache, sending, ready>>
orgVars == <<org, user, member>>
callVars == <<repo, firstBuild, call, built>>
jobVars == <<pushBuild, queued, step, outcome>>
intakeVars == <<hookVars, orgVars, callVars, jobVars>>
vars == <<queueVars, intakeVars>>

Kind == {"push", "installation", "member", "other"}
JobStage == {"none", "start", "handle", "insert", "send", "join", "ok"}
Outcome == {"done", "ignored", "failed"}
CallStage == {"idle", "count", "insert", "send", "queued", "skipped", "failed"}
Call == {c \in Install \X Repo : c[2] \in Selected[c[1]]}

HasBuild(r) ==
    \/ \E d \in pushBuild : RepoOf[d[1]] = r
    \/ \E c \in firstBuild : c[2] = r

IntakeInit ==
    /\ Init
    /\ cache = [m \in Message |-> "none"] /\ sending = {}
    /\ org = {} /\ user = {} /\ member = {} /\ repo = {}
    /\ pushBuild = {} /\ queued = {} /\ firstBuild = {}
    /\ step = [d \in Delivery |-> "none"]
    /\ outcome = [m \in Message |-> {}]
    /\ call = [c \in Call |-> "idle"]
    /\ ready = {} /\ built = {}

At(w, d, s) == d \in Jobs(w) /\ step[d] = s
Goto(d, s) == step' = [step EXCEPT ![d] = s]

\* The handler is over; whether it threw or logged an error, the job goes on to success.
End(d, o) == Goto(d, "ok") /\ outcome' = [outcome EXCEPT ![d[1]] = @ \cup {o}]
-----------------------------------------------------------------------------
(* The API server                                                          *)

Target(m, k) == (k = "push" => RepoOf[m] \in repo) /\ (k = "member" => OrgOf[m] \in org)

ReceiveWebhookUncached(m, k) ==
    /\ cache[m] = "none" /\ m \notin sending
    /\ cache' = [cache EXCEPT ![m] = k] \/ UNCHANGED cache
    /\ ready' = IF Target(m, k) THEN ready \cup {m} ELSE ready
    /\ sending' = sending \cup {m}
    /\ UNCHANGED <<queueVars, orgVars, callVars, jobVars>>

\* verifyAndReceive: a second request with the same id fails on the primary key.
ReceiveWebhook(m, k) ==
    /\ cache[m] = "none"
    /\ cache' = [cache EXCEPT ![m] = k]
    /\ ready' = IF Target(m, k) THEN ready \cup {m} ELSE ready
    /\ sending' = sending \cup {m}
    /\ UNCHANGED <<queueVars, orgVars, callVars, jobVars>>

\* "we don't care if it succeeded or not".
SendWebhook(m) ==
    /\ m \in sending
    /\ sending' = sending \ {m}
    /\ Send(m) \/ UNCHANGED queueVars
    /\ UNCHANGED <<cache, orgVars, callVars, jobVars, ready>>

\* installProjectsFromGithub up to its upsert; without it the call ends in an error.
UpsertRepos(i) ==
    /\ \A r \in Selected[i] : call[<<i, r>>] = "idle"
    /\ built' = built \cup {c \in Call : c[1] = i /\ HasBuild(c[2])}
    /\ \/ repo' = repo \cup Selected[i]
          /\ call' = [c \in Call |-> IF c[1] = i THEN "count" ELSE call[c]]
       \/ call' = [c \in Call |-> IF c[1] = i THEN "failed" ELSE call[c]] /\ UNCHANGED repo
    /\ UNCHANGED <<queueVars, hookVars, orgVars, jobVars, firstBuild>>

CountBuildsNot(c) ==
    /\ call[c] = "count"
    /\ call' = [call EXCEPT ![c] = "insert"]
    /\ UNCHANGED <<queueVars, hookVars, orgVars, repo, jobVars, firstBuild, built>>

\* queueNewReposForSnapshot: all repositories of the call at once.
CountBuilds(c) ==
    /\ call[c] = "count"
    /\ \/ call' = [call EXCEPT ![c] = IF HasBuild(c[2]) THEN "skipped" ELSE "insert"]
       \/ call' = [call EXCEPT ![c] = "failed"]
    /\ UNCHANGED <<queueVars, hookVars, orgVars, repo, jobVars, firstBuild, built>>

\* queueRepositoryForSnapshot, createNewBuild.
InsertFirstBuild(c) ==
    /\ call[c] = "insert"
    /\ \/ call' = [call EXCEPT ![c] = "send"]
          /\ firstBuild' = firstBuild \cup {c}
       \/ call' = [call EXCEPT ![c] = "failed"] /\ UNCHANGED firstBuild
    /\ UNCHANGED <<queueVars, hookVars, orgVars, repo, jobVars, built>>

SendFirstBuild(c) ==
    /\ call[c] = "send"
    /\ \E s \in {"queued", "failed"} : call' = [call EXCEPT ![c] = s]
    /\ UNCHANGED <<queueVars, hookVars, orgVars, repo, firstBuild, jobVars, built>>

\* The API server ends, for instance when SendMessageCommand is rejected with nobody waiting.
ServerDies ==
    /\ sending # {} \/ \E c \in Call : call[c] \in {"count", "insert", "send"}
    /\ sending' = {}
    /\ call' = [c \in Call |-> IF call[c] \in {"count", "insert", "send"} THEN "failed" ELSE call[c]]
    /\ UNCHANGED <<queueVars, cache, orgVars, repo, jobVars, firstBuild, ready, built>>
-----------------------------------------------------------------------------
(* processGithubWebhookActivity                                            *)

ReadCacheAnyway(w, d) ==
    /\ At(w, d, "start")
    /\ Goto(d, "handle") \/ Goto(d, "ok")
    /\ UNCHANGED <<queueVars, hookVars, orgVars, callVars, pushBuild, queued, outcome>>

\* The query fails, or webhook_cache[0] is undefined: the job ends in an error.
ReadCache(w, d) ==
    /\ At(w, d, "start")
    /\ \/ cache[d[1]] # "none" /\ Goto(d, "handle") /\ UNCHANGED queueVars
       \/ Fail(w, d) /\ Goto(d, "none")
    /\ UNCHANGED <<hookVars, orgVars, callVars, pushBuild, queued, outcome>>

\* No handler: another event, action or branch.
HandleOther(w, d) ==
    /\ At(w, d, "handle") /\ cache[d[1]] = "other"
    /\ End(d, "ignored")
    /\ UNCHANGED <<queueVars, hookVars, orgVars, callVars, pushBuild, queued>>

\* pushHandler of the default branch, pullRequestHandler of a new head.
FindRepo(w, d) ==
    /\ At(w, d, "handle") /\ cache[d[1]] = "push"
    /\ \/ RepoOf[d[1]] \in repo /\ Goto(d, "insert") /\ UNCHANGED outcome
       \/ RepoOf[d[1]] \notin repo /\ End(d, "ignored")
       \/ End(d, "failed")
    /\ UNCHANGED <<queueVars, hookVars, orgVars, callVars, pushBuild, queued>>

InsertBuild(w, d) ==
    /\ At(w, d, "insert")
    /\ \/ pushBuild' = pushBuild \cup {d} /\ Goto(d, "send") /\ UNCHANGED outcome
       \/ End(d, "failed") /\ UNCHANGED pushBuild
    /\ UNCHANGED <<queueVars, hookVars, orgVars, callVars, queued>>

SendSnapshotUnchecked(w, d) ==
    /\ At(w, d, "send")
    /\ queued' = queued \cup {d} \/ UNCHANGED queued
    /\ End(d, "done")
    /\ UNCHANGED <<queueVars, hookVars, orgVars, callVars, pushBuild>>

SendSnapshot(w, d) ==
    /\ At(w, d, "send")
    /\ \/ queued' = queued \cup {d} /\ End(d, "done")
       \/ End(d, "failed") /\ UNCHANGED queued
    /\ UNCHANGED <<queueVars, hookVars, orgVars, callVars, pushBuild>>

\* installOrganizationFromGithub: one upsert with the members GitHub lists.
InstallOrg(w, d) ==
    /\ At(w, d, "handle") /\ cache[d[1]] = "installation"
    /\ \/ /\ org' = org \cup {OrgOf[d[1]]}
          /\ \E M \in SUBSET {m \in Message : OrgOf[m] = OrgOf[d[1]]} :
                user' = user \cup M /\ member' = member \cup M
          /\ End(d, "done")
       \/ End(d, "failed") /\ UNCHANGED <<org, user, member>>
    /\ UNCHANGED <<queueVars, hookVars, callVars, pushBuild, queued>>

\* addOrgMember: the organization, then the user, then the association.
AddUser(w, d) ==
    /\ At(w, d, "handle") /\ cache[d[1]] = "member"
    /\ \/ OrgOf[d[1]] \in org /\ user' = user \cup {d[1]} /\ Goto(d, "join") /\ UNCHANGED outcome
       \/ OrgOf[d[1]] \notin org /\ End(d, "ignored") /\ UNCHANGED user
       \/ End(d, "failed") /\ UNCHANGED user
    /\ UNCHANGED <<queueVars, hookVars, org, member, callVars, pushBuild, queued>>

AddMember(w, d) ==
    /\ At(w, d, "join")
    /\ \/ member' = member \cup {d[1]} /\ End(d, "done")
       \/ End(d, "failed") /\ UNCHANGED member
    /\ UNCHANGED <<queueVars, hookVars, org, user, callVars, pushBuild, queued>>
-----------------------------------------------------------------------------
(* The worker around the jobs                                              *)

Poll(w) ==
    /\ \E S \in SUBSET Message :
        /\ Receive(w, S)
        /\ step' = [d \in Delivery |-> IF d \in batch'[w] THEN "start" ELSE step[d]]
    /\ UNCHANGED <<hookVars, orgVars, callVars, pushBuild, queued, outcome>>

Settle(w, d) ==
    /\ At(w, d, "ok") /\ Succeed(w, d)
    /\ Goto(d, "none")
    /\ UNCHANGED <<hookVars, orgVars, callVars, pushBuild, queued, outcome>>

Timer(w) == JobTimeout(w) /\ UNCHANGED intakeVars

Sqs(m) == (VisibilityExpires(m) \/ Redrive(m)) /\ UNCHANGED intakeVars

Die(w) ==
    /\ Crash(w)
    /\ step' = [d \in Delivery |-> IF d \in Jobs(w) THEN "none" ELSE step[d]]
    /\ UNCHANGED <<hookVars, orgVars, callVars, pushBuild, queued, outcome>>

JobStep(w, d) ==
    \/ ReadCache(w, d) \/ HandleOther(w, d) \/ FindRepo(w, d) \/ InsertBuild(w, d)
    \/ SendSnapshot(w, d) \/ InstallOrg(w, d) \/ AddUser(w, d) \/ AddMember(w, d) \/ Settle(w, d)

InstallStep(c) == CountBuilds(c) \/ InsertFirstBuild(c) \/ SendFirstBuild(c)

IntakeNext ==
    \/ \E m \in Message, k \in Kind : ReceiveWebhook(m, k)
    \/ \E m \in Message : SendWebhook(m) \/ Sqs(m)
    \/ \E i \in Install : UpsertRepos(i)
    \/ \E c \in Call : InstallStep(c)
    \/ ServerDies
    \/ \E w \in Worker :
        \/ Poll(w) \/ Timer(w) \/ Die(w)
        \/ \E d \in Jobs(w) : JobStep(w, d)

IntakeSpec == IntakeInit /\ [][IntakeNext]_vars
-----------------------------------------------------------------------------
\* A message is sent for a cached webhook, a member has a user, and a repository that
\* was built is there.
IntakeTypeOK ==
    /\ TypeOK
    /\ cache \in [Message -> Kind \cup {"none"}]
    /\ sending \subseteq Message
    /\ \A m \in Message : status[m] # "unsent" => cache[m] # "none" /\ m \notin sending
    /\ org \subseteq Org /\ member \subseteq user /\ user \subseteq Message
    /\ repo \subseteq Repo
    /\ queued \subseteq pushBuild /\ pushBuild \subseteq Delivery
    /\ firstBuild \subseteq Call
    /\ \A r \in Repo : HasBuild(r) => r \in repo
    /\ step \in [Delivery -> JobStage] /\ outcome \in [Message -> SUBSET Outcome]
    /\ call \in [Call -> CallStage]
    /\ ready \subseteq Message /\ built \subseteq Call

\* What the handler of a delivery is for.
Served(m) ==
    /\ cache[m] = "push" => \E d \in queued : d[1] = m
    /\ cache[m] = "installation" => OrgOf[m] \in org
    /\ cache[m] = "member" => m \in member

\* A webhook leaves its queue only when a handler has seen it, with the cached data, to
\* one of its ends: it was served, found nothing to do, or logged its failure.
WebhookNotLost ==
    \A m \in Message : status[m] = "deleted" =>
        \/ "done" \in outcome[m] /\ Served(m)
        \/ outcome[m] \cap {"ignored", "failed"} # {}

\* A webhook about a repository or organization that was there before it is served once
\* it leaves its queue, unless a handler logged its failure: repeated and overlapping
\* deliveries, installations and crashes never make it a no-op.
ReadyWebhooksAreServed ==
    \A m \in ready : status[m] = "deleted" => Served(m) \/ "failed" \in outcome[m]

\* "Existing repos might come in when we upsert repos so just skip those": an
\* installation that starts when a repository has a build makes no other one.
BuiltReposAreSkipped == built \cap firstBuild = {}
=============================================================================
