----------------------------- MODULE Publishing -----------------------------
(***************************************************************************)
(* How a version of a site gets on the air: DeploymentService builds it    *)
(* again and stores the build, the project's publication points at one     *)
(* deployment, a custom hostname is proved and activated, and hosting      *)
(* answers requests by slug or by hostname. Publications, deployments and  *)
(* domains live in the memory of the process; the project's row and the    *)
(* artifacts outlive it. A deleted site's row can come back, by a rename   *)
(* that is saved late or a generation under the same id, and finds the     *)
(* publication still there. Everything between two awaits that do I/O is   *)
(* one step: the repositories in memory answer in microtasks.              *)
(***************************************************************************)
EXTENDS Naturals, FiniteSets

CONSTANTS
  Publishes,   \* calls that deploy a version and publish it; also the deployments
  Rollbacks,   \* calls that publish an earlier deployment
  Unpublishes, \* calls that take the site off the air
  Slugs,       \* requests that name the site by its slug
  Hosts,       \* requests that name it by its custom hostname
  Activations, \* calls that activate the custom domain
  MaxVersion,  \* bound: versions of the site
  MaxChallenge, \* bound: challenges issued for the hostname
  MaxDeletions, \* bound: deletions of the site
  MaxRestarts  \* bound: restarts of the process

ASSUME PublishingAssumption ==
  /\ MaxVersion \in Nat \ {0} /\ MaxChallenge \in Nat
  /\ MaxDeletions \in Nat /\ MaxRestarts \in Nat

VARIABLES
  row,         \* the site's row: "live" or "deleted"
  latest,      \* its current version, 0 when there is none
  pruning,     \* deletions that have yet to delete the site's artifacts
  deletions,   \* deletions of the row
  publication, \* the deployment the site is published as, if any
  saved,       \* deployments in the repository
  builds,      \* deployments whose build is in the artifact store
  erased,      \* history: deployments whose build went with the site
  call,        \* call[c]: where a call stands
  aim,         \* aim[c]: what it will publish: a deployment, or nothing
  source,      \* source[c]: the version a publish call deploys
  workplace,   \* publish calls whose restored environment exists
  domain,      \* status of the hostname's domain, "none" before it is added
  challenge,   \* number of challenges issued for it
  txt,         \* challenges its owner has put into DNS
  lapsed,      \* challenges that expired
  checking,    \* challenges a verification is asking DNS about
  activation,  \* activation[a]: where an activation stands
  proven,      \* history: a verification found an unexpired challenge of the domain
  closed,      \* history: the domain was disabled
  visit,       \* visit[q]: where a request stands
  found,       \* found[q]: the deployment it was led to
  hidden,      \* history: requests that started with the site off the air, and it stayed off
  barred,      \* history: requests by hostname that started after it was disabled
  restarts

Calls == Publishes \cup Rollbacks \cup Unpublishes
Visits == Slugs \cup Hosts

Site == <<row, latest, pruning, deletions>>
Stored == <<saved, builds, erased>>
CallState == <<call, aim, source, workplace>>
Domain == <<domain, challenge, txt, lapsed, checking, activation, proven, closed>>
Hosting == <<visit, found, hidden, barred>>
publishingVars == <<Site, publication, Stored, CallState, Domain, Hosting, restarts>>

PublishingInit ==
  /\ row = "live" /\ latest = 1 /\ pruning = 0 /\ deletions = 0
  /\ publication = {} /\ saved = {} /\ builds = {} /\ erased = {}
  /\ call = [c \in Calls |-> "start"] /\ aim = [c \in Calls |-> {}]
  /\ source = [c \in Publishes |-> 0] /\ workplace = {}
  /\ domain = "none" /\ challenge = 0 /\ txt = {} /\ lapsed = {} /\ checking = {}
  /\ activation = [a \in Activations |-> "start"]
  /\ proven = FALSE /\ closed = FALSE
  /\ visit = [q \in Visits |-> "start"] /\ found = [q \in Visits |-> {}]
  /\ hidden = {} /\ barred = {} /\ restarts = 0

Proceed(c, s) == call' = [call EXCEPT ![c] = s]
Is(v) == row = "live" /\ latest = v

-----------------------------------------------------------------------------
(* The site around it: edits commit versions, an owner deletes the site, and *)
(* what was under way then writes the row again                              *)

Edit ==
  /\ row = "live" /\ latest < MaxVersion
  /\ latest' = latest + 1
  /\ UNCHANGED <<row, pruning, deletions, publication, Stored, CallState, Domain, Hosting, restarts>>

\* Only jobs are asked for before a site is deleted. The publication stays.
DeleteRow ==
  /\ row = "live" /\ deletions < MaxDeletions
  /\ row' = "deleted" /\ deletions' = deletions + 1 /\ pruning' = pruning + 1
  /\ UNCHANGED <<latest, publication, Stored, CallState, Domain, Hosting, restarts>>

\* The artifacts go next, whatever became of the row meanwhile. A removal that
\* fails has removed some of them, and nobody tries again.
DeletePrefix ==
  /\ pruning > 0 /\ pruning' = pruning - 1
  /\ \E kept \in SUBSET builds : builds' = kept /\ erased' = erased \cup (builds \ kept)
  /\ UNCHANGED <<row, latest, deletions, publication, saved, CallState, Domain, Hosting, restarts>>

\* save upserts: the row of a deleted site comes back without a version. Version
\* numbers start again; the publication and the deployments are those of before.
SaveRow ==
  /\ row = "deleted" /\ row' = "live" /\ latest' = 0
  /\ hidden' = IF publication = {} THEN hidden ELSE {}
  /\ UNCHANGED <<pruning, deletions, publication, Stored, CallState, Domain, visit, found, barred, restarts>>

-----------------------------------------------------------------------------
(* deploy, publish, rollback, unpublish *)

\* The caller names a version, which must be the latest one
RequestPublish(c) ==
  /\ call[c] = "start"
  /\ IF row = "live" /\ latest > 0 THEN source' = [source EXCEPT ![c] = latest] /\ Proceed(c, "deploy")
     ELSE UNCHANGED source /\ Proceed(c, "failed")
  /\ UNCHANGED <<Site, publication, Stored, aim, workplace, Domain, Hosting, restarts>>

\* Project and version are read, then the version once more to restore it; only
\* the current version can be read. Restoring, installing and building may fail.
Restore(c) ==
  /\ call[c] = "deploy"
  /\ \/ Is(source[c]) /\ workplace' = workplace \cup {c} /\ Proceed(c, "restored")
     \/ Proceed(c, "failed") /\ UNCHANGED workplace
  /\ UNCHANGED <<Site, publication, Stored, aim, source, Domain, Hosting, restarts>>

\* The scan, or a file that must not be there, stops it before anything is stored
MutGoesOn(c) == Proceed(c, "stored") /\ UNCHANGED builds
NotStored(c) == Proceed(c, "abandon") /\ UNCHANGED builds

StoreBuild(c) ==
  /\ call[c] = "restored"
  /\ \/ builds' = builds \cup {c} /\ Proceed(c, "stored")
     \/ NotStored(c)
  /\ UNCHANGED <<Site, publication, saved, erased, aim, source, workplace, Domain, Hosting, restarts>>

\* The manifest is written next; without it the deployment is not saved
SaveDeployment(c) ==
  /\ call[c] = "stored"
  /\ \/ saved' = saved \cup {c} /\ Proceed(c, "dispose")
     \/ Proceed(c, "abandon") /\ UNCHANGED saved
  /\ UNCHANGED <<Site, publication, builds, erased, aim, source, workplace, Domain, Hosting, restarts>>

\* finally: an environment that does not go away fails the call
Dispose(c) ==
  /\ call[c] \in {"dispose", "abandon"}
  /\ \/ workplace' = workplace \ {c} /\ Proceed(c, IF call[c] = "dispose" THEN "exists" ELSE "failed")
     \/ Proceed(c, "failed") /\ UNCHANGED workplace
  /\ aim' = [aim EXCEPT ![c] = {c}]
  /\ UNCHANGED <<Site, publication, Stored, source, Domain, Hosting, restarts>>

RequestRollback(c) ==
  /\ call[c] = "start"
  /\ \/ \E d \in saved : aim' = [aim EXCEPT ![c] = {d}] /\ Proceed(c, "exists")
     \/ UNCHANGED aim /\ Proceed(c, "failed")
  /\ UNCHANGED <<Site, publication, Stored, source, workplace, Domain, Hosting, restarts>>

RequestUnpublish(c) ==
  /\ call[c] = "start"
  /\ Proceed(c, IF row = "live" THEN "exists" ELSE "failed")
  /\ UNCHANGED <<Site, publication, Stored, aim, source, workplace, Domain, Hosting, restarts>>

\* setPublication: is there a row? The read is awaited, then the entry is set,
\* whatever became of the row. A request that has read a row finds the entry.
RowExists(c) ==
  /\ call[c] = "exists"
  /\ Proceed(c, IF row = "live" THEN "set" ELSE "failed")
  /\ UNCHANGED <<Site, publication, Stored, aim, source, workplace, Domain, Hosting, restarts>>

SetPublication(c) ==
  /\ call[c] = "set"
  /\ publication' = aim[c]
  /\ hidden' = IF aim[c] = {} THEN hidden
               ELSE IF row = "live" THEN {} ELSE {q \in hidden : visit[q] # "answer"}
  /\ Proceed(c, "done")
  /\ UNCHANGED <<Site, Stored, aim, source, workplace, Domain, visit, found, barred, restarts>>

-----------------------------------------------------------------------------
(* The custom domain *)

\* A hostname once registered stays taken, also when its domain is disabled
AddDomain ==
  /\ row = "live" /\ domain = "none" /\ challenge < MaxChallenge
  /\ domain' = "PENDING_VERIFICATION" /\ challenge' = challenge + 1
  /\ UNCHANGED <<Site, publication, Stored, CallState, txt, lapsed, checking, activation, proven, closed, Hosting, restarts>>

Reissue ==
  /\ domain \in {"PENDING_VERIFICATION", "VERIFICATION_FAILED"} /\ challenge < MaxChallenge
  /\ domain' = "PENDING_VERIFICATION" /\ challenge' = challenge + 1
  /\ UNCHANGED <<Site, publication, Stored, CallState, txt, lapsed, checking, activation, proven, closed, Hosting, restarts>>

\* The owner edits the zone, a day goes by
PublishTxt ==
  /\ domain # "none" /\ challenge \notin txt
  /\ txt' = txt \cup {challenge}
  /\ UNCHANGED <<Site, publication, Stored, CallState, domain, challenge, lapsed, checking, activation, proven, closed, Hosting, restarts>>

Lapse ==
  /\ domain # "none" /\ challenge \notin lapsed
  /\ lapsed' = lapsed \cup {challenge}
  /\ UNCHANGED <<Site, publication, Stored, CallState, domain, challenge, txt, checking, activation, proven, closed, Hosting, restarts>>

\* verify reads the domain in whatever status and asks DNS for the challenge it read
AskDns ==
  /\ domain # "none" /\ challenge \notin lapsed \cup checking
  /\ checking' = checking \cup {challenge}
  /\ UNCHANGED <<Site, publication, Stored, CallState, domain, challenge, txt, lapsed, activation, proven, closed, Hosting, restarts>>

Verifiable == {"PENDING_VERIFICATION", "VERIFICATION_FAILED"}

\* The provider looks for the digest of the challenge that verify read
Found(n) == n \in txt

\* The answer moves the domain out of the statuses that wait for one, or throws
DnsAnswers(n) ==
  /\ n \in checking /\ checking' = checking \ {n}
  /\ IF domain \notin Verifiable THEN UNCHANGED <<domain, proven>>
     ELSE /\ domain' = IF Found(n) THEN "VERIFIED" ELSE "VERIFICATION_FAILED"
          /\ proven' = (proven \/ n \in txt)
  /\ UNCHANGED <<Site, publication, Stored, CallState, challenge, txt, lapsed, activation, closed, Hosting, restarts>>

\* activate: VERIFIED is read, the certificate provider is awaited, and the
\* transition asks for VERIFIED again
Provision(a) ==
  /\ activation[a] = "start" /\ domain # "none"
  /\ activation' = [activation EXCEPT ![a] = IF domain = "VERIFIED" THEN "provision" ELSE "failed"]
  /\ UNCHANGED <<Site, publication, Stored, CallState, domain, challenge, txt, lapsed, checking, proven, closed, Hosting, restarts>>

MutActivatesAnyStatus == domain # "none"
StillVerified == domain = "VERIFIED"

Activate(a) ==
  /\ activation[a] = "provision"
  /\ \/ StillVerified /\ domain' = "ACTIVE" /\ activation' = [activation EXCEPT ![a] = "done"]
     \/ UNCHANGED domain /\ activation' = [activation EXCEPT ![a] = "failed"]
  /\ UNCHANGED <<Site, publication, Stored, CallState, challenge, txt, lapsed, checking, proven, closed, Hosting, restarts>>

Disable ==
  /\ domain \in {"ACTIVE", "VERIFIED", "PENDING_VERIFICATION", "VERIFICATION_FAILED"}
  /\ domain' = "DISABLED" /\ closed' = TRUE
  /\ UNCHANGED <<Site, publication, Stored, CallState, challenge, txt, lapsed, checking, activation, proven, Hosting, restarts>>

-----------------------------------------------------------------------------
(* Hosting: a request by slug goes to the project, one by hostname first to  *)
(* the domain; the deployment and its build are read last                    *)

Offline == row = "deleted" \/ publication = {}

ReadDomain(q) ==
  /\ q \in Hosts /\ visit[q] = "start"
  /\ hidden' = IF Offline THEN hidden \cup {q} ELSE hidden
  /\ barred' = IF closed THEN barred \cup {q} ELSE barred
  /\ visit' = [visit EXCEPT ![q] = IF domain = "ACTIVE" THEN "project" ELSE "refused"]
  /\ UNCHANGED <<Site, publication, Stored, CallState, Domain, found, restarts>>

Enter(q) ==
  /\ q \in Slugs /\ visit[q] = "start"
  /\ hidden' = IF Offline THEN hidden \cup {q} ELSE hidden
  /\ visit' = [visit EXCEPT ![q] = "project"]
  /\ UNCHANGED <<Site, publication, Stored, CallState, Domain, found, barred, restarts>>

ReadRow(q) ==
  /\ visit[q] = "project"
  /\ visit' = [visit EXCEPT ![q] = IF row = "live" THEN "answer" ELSE "refused"]
  /\ UNCHANGED <<Site, publication, Stored, CallState, Domain, found, hidden, barred, restarts>>

\* The publication is looked up when the row has arrived
ReadPublication(q) ==
  /\ visit[q] = "answer"
  /\ visit' = [visit EXCEPT ![q] = IF publication = {} THEN "refused" ELSE "build"]
  /\ found' = [found EXCEPT ![q] = publication]
  /\ UNCHANGED <<Site, publication, Stored, CallState, Domain, hidden, barred, restarts>>

\* 503 unless the deployment is saved and its build can be read
Serve(q) ==
  /\ visit[q] = "build"
  /\ visit' = [visit EXCEPT ![q] = IF found[q] \subseteq saved \cap builds THEN "served" ELSE "refused"]
  /\ UNCHANGED <<Site, publication, Stored, CallState, Domain, found, hidden, barred, restarts>>

-----------------------------------------------------------------------------
\* The process starts again: what it kept in memory is gone, calls and requests
\* with it; rows and artifacts stay, and DNS keeps what was written there.
Restart ==
  /\ restarts < MaxRestarts /\ restarts' = restarts + 1
  /\ publication' = {} /\ saved' = {} /\ domain' = "none" /\ checking' = {} /\ pruning' = 0
  /\ call' = [c \in Calls |-> IF call[c] \in {"start", "done"} THEN call[c] ELSE "failed"]
  /\ activation' = [a \in Activations |-> IF activation[a] = "provision" THEN "failed" ELSE activation[a]]
  /\ visit' = [q \in Visits |-> IF visit[q] \in {"project", "answer", "build"} THEN "refused" ELSE visit[q]]
  /\ proven' = FALSE /\ closed' = FALSE
  /\ UNCHANGED <<row, latest, deletions, builds, erased, aim, source, workplace, challenge, txt, lapsed,
                 found, hidden, barred>>

PublishingNext ==
  \/ Edit \/ DeleteRow \/ DeletePrefix \/ SaveRow \/ Restart
  \/ \E c \in Publishes :
       RequestPublish(c) \/ Restore(c) \/ StoreBuild(c) \/ SaveDeployment(c) \/ Dispose(c)
  \/ \E c \in Rollbacks : RequestRollback(c)
  \/ \E c \in Unpublishes : RequestUnpublish(c)
  \/ \E c \in Calls : RowExists(c) \/ SetPublication(c)
  \/ AddDomain \/ Reissue \/ PublishTxt \/ Lapse \/ AskDns \/ Disable
  \/ \E n \in 1..MaxChallenge : DnsAnswers(n)
  \/ \E a \in Activations : Provision(a) \/ Activate(a)
  \/ \E q \in Visits : ReadDomain(q) \/ Enter(q) \/ ReadRow(q) \/ ReadPublication(q) \/ Serve(q)

PublishingSpec == PublishingInit /\ [][PublishingNext]_publishingVars

-----------------------------------------------------------------------------
(* Properties *)

\* Every variable keeps its shape, and a site is published as one deployment.
SiteTypeOK ==
  /\ row \in {"live", "deleted"} /\ latest \in 0..MaxVersion
  /\ deletions \in 0..MaxDeletions /\ pruning \in 0..deletions
  /\ publication \subseteq Publishes /\ Cardinality(publication) <= 1
  /\ saved \subseteq Publishes /\ builds \subseteq Publishes /\ erased \subseteq Publishes
CallTypeOK ==
  /\ call \in [Calls -> {"start", "deploy", "restored", "stored", "dispose", "abandon",
                        "exists", "set", "done", "failed"}]
  /\ aim \in [Calls -> SUBSET Publishes] /\ source \in [Publishes -> 0..MaxVersion]
  /\ workplace \subseteq Publishes /\ restarts \in 0..MaxRestarts
DomainTypeOK ==
  /\ domain \in {"none", "PENDING_VERIFICATION", "VERIFICATION_FAILED", "VERIFIED", "ACTIVE", "DISABLED"}
  /\ challenge \in 0..MaxChallenge
  /\ txt \subseteq 1..MaxChallenge /\ lapsed \subseteq 1..MaxChallenge
  /\ checking \subseteq 1..MaxChallenge
  /\ activation \in [Activations -> {"start", "provision", "done", "failed"}]
  /\ proven \in BOOLEAN /\ closed \in BOOLEAN
HostingTypeOK ==
  /\ visit \in [Visits -> {"start", "project", "answer", "build", "served", "refused"}]
  /\ found \in [Visits -> SUBSET Publishes] /\ hidden \subseteq Visits /\ barred \subseteq Visits
PublishingTypeOK == SiteTypeOK /\ CallTypeOK /\ DomainTypeOK /\ HostingTypeOK

\* What a site is published as can be served: the deployment is known and its
\* build is stored, whatever crashed or ran beside it. Only a deletion of the site
\* takes the build of a published deployment away; a site whose row comes back from
\* it is published and answers 503. A call that published returned the environment
\* it built in.
PublishedIsServable ==
  /\ row = "live" => publication \subseteq saved \cap (builds \cup erased)
  /\ \A c \in workplace : call[c] # "done"

\* A request that starts with the site off the air, or by a hostname that was
\* disabled, is not answered with a page unless the site comes back meanwhile,
\* whatever verification or activation of the hostname is still under way. And a
\* hostname leads to the site only after a challenge issued for it was found in
\* DNS, however verifications, new challenges and restarts overlap.
OnTheAirByRight ==
  /\ \A q \in hidden \cup barred : visit[q] # "served"
  /\ domain \in {"VERIFIED", "ACTIVE"} => proven
=============================================================================
