---------------------------- MODULE Sites_proofs ----------------------------
(***************************************************************************)
(* Proofs about sites on the air and in the browser: Publishing, the data  *)
(* of a site (SiteRuntime), the environments sites are built and shown in  *)
(* (LocalExecution, DaytonaExecution) and the page (WebClient), for any    *)
(* calls, requests, versions, records, environments and sites.             *)
(***************************************************************************)
EXTENDS Publishing, SiteRuntime, Environments, WebClient, FiniteSetTheorems, TLAPS

-----------------------------------------------------------------------------
(* Publishing: the inductive invariant *)

AtMostOne(S) == S = {} \/ \E d \in S : S = {d}

\* What a site is or will be published as is one deployment or none, and a
\* saved one; a call that has not asked yet aims at nothing.
Aims ==
  /\ \A c \in Calls : AtMostOne(aim[c])
  /\ \A c \in Calls : call[c] \in {"start", "deploy"} => aim[c] = {}
  /\ \A c \in Calls : call[c] \in {"exists", "set"} => aim[c] \subseteq saved
  /\ AtMostOne(publication) /\ publication \subseteq saved

\* A deployment is saved after its build was stored, and only a deletion of the
\* site takes builds away.
BuildsFirst ==
  /\ saved \subseteq builds \cup erased
  /\ \A c \in Publishes : call[c] = "stored" => c \in builds \cup erased
  /\ \A c \in Publishes : call[c] = "dispose" => c \in saved

Workplaces ==
  \A c \in workplace : call[c] \in {"restored", "stored", "dispose", "abandon", "failed"}

\* While a request that found the site off the air is remembered, the site is
\* off the air, and the request has not got past the project: when it has read a
\* row it finds no publication.
StillOff ==
  /\ hidden # {} => Offline
  /\ \A q \in hidden : visit[q] \in {"project", "answer", "refused"}
  /\ \A q \in hidden : visit[q] = "answer" => publication = {}

\* A disabled domain stays disabled, and a request it turned away stays so.
StillClosed ==
  /\ closed => domain = "DISABLED"
  /\ \A q \in barred : visit[q] = "refused"

Proven ==
  /\ domain \in {"VERIFIED", "ACTIVE"} => proven
  /\ domain # "none" => challenge >= 1

PublishingIInv ==
  /\ PublishingTypeOK /\ Aims /\ BuildsFirst /\ Workplaces
  /\ StillOff /\ StillClosed /\ Proven

LEMMA OneAtMost ==
  ASSUME NEW S, AtMostOne(S)
  PROVE  Cardinality(S) <= 1
<1>1. CASE S = {} BY <1>1, FS_EmptySet
<1>2. ASSUME NEW d \in S, S = {d} PROVE Cardinality(S) <= 1
  BY <1>2, FS_Singleton
<1>3. QED BY <1>1, <1>2 DEF AtMostOne

LEMMA PublishingStart ==
  ASSUME PublishingAssumption, PublishingInit
  PROVE  PublishingIInv
<1>1. AtMostOne({}) BY DEF AtMostOne
<1>2. PublishingTypeOK
  <2>1. SiteTypeOK BY <1>1, OneAtMost DEF PublishingInit, SiteTypeOK, PublishingAssumption
  <2>2. CallTypeOK BY DEF PublishingInit, CallTypeOK, PublishingAssumption, Calls
  <2>3. DomainTypeOK
    <3>1. challenge \in 0..MaxChallenge BY DEF PublishingInit, PublishingAssumption
    <3>2. activation \in [Activations -> {"start", "provision", "done", "failed"}] BY DEF PublishingInit
    <3>3. QED BY <3>1, <3>2 DEF PublishingInit, DomainTypeOK
  <2>4. HostingTypeOK BY DEF PublishingInit, HostingTypeOK
  <2>5. QED BY <2>1, <2>2, <2>3, <2>4 DEF PublishingTypeOK
<1>3. Aims BY <1>1 DEF PublishingInit, Aims
<1>4. BuildsFirst BY DEF PublishingInit, BuildsFirst, Calls
<1>5. QED BY <1>2, <1>3, <1>4 DEF PublishingInit, PublishingIInv, Workplaces, StillOff, StillClosed, Proven
\* What happens to the site around its publications.
LEMMA SiteStep ==
  ASSUME PublishingAssumption, PublishingIInv,
         \/ Edit
         \/ DeleteRow
         \/ DeletePrefix
         \/ SaveRow
         \/ Restart
  PROVE  PublishingIInv'
<1> USE DEF PublishingIInv, PublishingTypeOK, Aims, BuildsFirst, Workplaces, StillOff, StillClosed, Proven
<1>1. CASE Edit
  BY <1>1 DEF Edit, Stored, CallState, Domain, Hosting, SiteTypeOK, CallTypeOK, DomainTypeOK,
     HostingTypeOK, PublishingAssumption, Offline
<1>2. CASE DeleteRow
  BY <1>2 DEF DeleteRow, Stored, CallState, Domain, Hosting, SiteTypeOK, CallTypeOK,
     DomainTypeOK, HostingTypeOK, Offline, PublishingAssumption
<1>3. CASE DeletePrefix
  BY <1>3 DEF DeletePrefix, CallState, Domain, Hosting, SiteTypeOK, CallTypeOK, DomainTypeOK,
     HostingTypeOK, Offline, PublishingAssumption
<1>4. CASE SaveRow
  BY <1>4 DEF SaveRow, Stored, CallState, Domain, SiteTypeOK, CallTypeOK, DomainTypeOK,
     HostingTypeOK, Offline, PublishingAssumption
<1>5. CASE Restart
  <2>1. AtMostOne({}) /\ Cardinality({}) <= 1 BY OneAtMost DEF AtMostOne
  <2>2. PublishingTypeOK'
    <3>1. SiteTypeOK' BY <1>5, <2>1 DEF Restart, Site, SiteTypeOK
    <3>2. CallTypeOK'
      <4>1. call' \in [Calls -> {"start", "deploy", "restored", "stored", "dispose", "abandon",
                        "exists", "set", "done", "failed"}]
        BY <1>5 DEF Restart, CallTypeOK
      <4>2. restarts' \in 0..MaxRestarts BY <1>5 DEF Restart, CallTypeOK, PublishingAssumption
      <4>3. QED BY <1>5, <4>1, <4>2 DEF Restart, CallTypeOK
    <3>3. DomainTypeOK'
      <4>1. activation' \in [Activations -> {"start", "provision", "done", "failed"}]
        BY <1>5 DEF Restart, DomainTypeOK
      <4>2. checking' \subseteq 1..MaxChallenge BY <1>5 DEF Restart
      <4>3. QED BY <1>5, <4>1, <4>2 DEF Restart, DomainTypeOK
    <3>4. HostingTypeOK' BY <1>5 DEF Restart, HostingTypeOK
    <3>5. QED BY <3>1, <3>2, <3>3, <3>4
  <2>3. Aims' BY <1>5, <2>1 DEF Restart, CallTypeOK
  <2>4. BuildsFirst' BY <1>5 DEF Restart, Site, CallTypeOK, Calls
  <2>5. Workplaces' BY <1>5 DEF Restart, CallTypeOK, Calls
  <2>6. StillOff' BY <1>5 DEF Restart, HostingTypeOK, Offline
  <2>7. StillClosed' /\ Proven' BY <1>5 DEF Restart, HostingTypeOK
  <2>8. QED BY <2>2, <2>3, <2>4, <2>5, <2>6, <2>7
<1>6. QED BY <1>1, <1>2, <1>3, <1>4, <1>5

\* Deploying, publishing, rolling back and taking down.
LEMMA CallStep ==
  ASSUME PublishingAssumption, PublishingIInv,
         \/ \E c \in Publishes : RequestPublish(c)
         \/ \E c \in Publishes : Restore(c)
         \/ \E c \in Publishes : StoreBuild(c)
         \/ \E c \in Publishes : SaveDeployment(c)
         \/ \E c \in Publishes : Dispose(c)
         \/ \E c \in Rollbacks : RequestRollback(c)
         \/ \E c \in Unpublishes : RequestUnpublish(c)
         \/ \E c \in Calls : RowExists(c)
         \/ \E c \in Calls : SetPublication(c)
  PROVE  PublishingIInv'
<1> USE DEF PublishingIInv, PublishingTypeOK, Aims, BuildsFirst, Workplaces, StillOff, StillClosed, Proven
<1>1. CASE \E c \in Publishes : RequestPublish(c)
  BY <1>1 DEF RequestPublish, Site, Stored, Domain, Hosting, SiteTypeOK, CallTypeOK,
     DomainTypeOK, HostingTypeOK, Calls, Proceed, Offline
<1>2. CASE \E c \in Publishes : Restore(c)
  BY <1>2 DEF Restore, Site, Stored, Domain, Hosting, SiteTypeOK, CallTypeOK, DomainTypeOK,
     HostingTypeOK, Calls, Proceed, Offline
<1>3. CASE \E c \in Publishes : StoreBuild(c)
  BY <1>3 DEF StoreBuild, Site, Domain, Hosting, SiteTypeOK, CallTypeOK, DomainTypeOK,
     HostingTypeOK, Calls, Proceed, Offline, NotStored
<1>4. CASE \E c \in Publishes : SaveDeployment(c)
  BY <1>4 DEF SaveDeployment, Site, Domain, Hosting, SiteTypeOK, CallTypeOK, DomainTypeOK,
     HostingTypeOK, Calls, Proceed, Offline
<1>5. CASE \E c \in Publishes : Dispose(c)
  <2>1. PICK c \in Publishes : Dispose(c) BY <1>5
  <2>2. c \in Calls /\ AtMostOne({c}) BY DEF Calls, AtMostOne
  <2>3. PublishingTypeOK'
    BY <2>1, <2>2 DEF Dispose, Site, Stored, Domain, Hosting, SiteTypeOK, CallTypeOK,
       DomainTypeOK, HostingTypeOK, Proceed
  <2>4. Aims' BY <2>1, <2>2 DEF Dispose, Proceed, CallTypeOK, Stored
  <2>5. BuildsFirst'
    <3>1. \A p \in Publishes : call'[p] \in {"stored", "dispose"} => call'[p] = call[p]
      BY <2>1 DEF Dispose, Proceed, CallTypeOK, Calls
    <3>2. saved' = saved /\ builds' = builds /\ erased' = erased BY <2>1 DEF Dispose, Stored
    <3>3. QED BY <3>1, <3>2
  <2>6. Workplaces'
    <3>1. ASSUME NEW p \in workplace', p # c
          PROVE  p \in workplace /\ call'[p] = call[p]
      BY <2>1, <3>1 DEF Dispose, Proceed, CallTypeOK, Calls
    <3>2. c \in workplace' => call'[c] = "failed"
      BY <2>1, <2>2 DEF Dispose, Proceed, CallTypeOK
    <3>3. QED BY <3>1, <3>2
  <2>7. StillOff' /\ StillClosed' /\ Proven' BY <2>1 DEF Dispose, Domain, Hosting, Offline, Site
  <2>8. QED BY <2>3, <2>4, <2>5, <2>6, <2>7
<1>6. CASE \E c \in Rollbacks : RequestRollback(c)
  <2>1. PICK c \in Rollbacks : RequestRollback(c) BY <1>6
  <2>2. c \in Calls /\ \A d : AtMostOne({d}) BY DEF Calls, AtMostOne
  <2>3. PublishingTypeOK'
    <3>1. SiteTypeOK' BY <2>1, <2>2 DEF RequestRollback, Site, Stored, SiteTypeOK, CallTypeOK
    <3>2. CallTypeOK' BY <2>1, <2>2 DEF RequestRollback, Proceed, CallTypeOK, SiteTypeOK
    <3>3. DomainTypeOK' BY <2>1 DEF RequestRollback, Domain, DomainTypeOK
    <3>4. HostingTypeOK' BY <2>1 DEF RequestRollback, Hosting, HostingTypeOK
    <3>5. QED BY <3>1, <3>2, <3>3, <3>4
  <2>4. Aims'
    <3>1. CASE aim' = aim /\ call' = [call EXCEPT ![c] = "failed"]
      BY <2>1, <2>2, <3>1 DEF RequestRollback, CallTypeOK, Stored
    <3>2. ASSUME NEW d \in saved, aim' = [aim EXCEPT ![c] = {d}],
                 call' = [call EXCEPT ![c] = "exists"]
          PROVE  Aims'
      BY <2>1, <2>2, <3>2 DEF RequestRollback, CallTypeOK, Stored
    <3>3. QED BY <2>1, <3>1, <3>2 DEF RequestRollback, Proceed
  <2>5. BuildsFirst' /\ Workplaces'
    <3>1. \A p \in Calls \ {c} : call'[p] = call[p]
      BY <2>1 DEF RequestRollback, Proceed, CallTypeOK
    <3>2. call'[c] \in {"exists", "failed"} /\ c \notin workplace
      BY <2>1, <2>2 DEF RequestRollback, Proceed, CallTypeOK
    <3>3. workplace' = workplace /\ saved' = saved /\ builds' = builds /\ erased' = erased
      BY <2>1 DEF RequestRollback, Stored
    <3>4. workplace \subseteq Calls /\ Publishes \subseteq Calls BY DEF CallTypeOK, Calls
    <3>5. BuildsFirst' BY <3>1, <3>2, <3>3, <3>4
    <3>6. Workplaces' BY <3>1, <3>2, <3>3, <3>4
    <3>7. QED BY <3>5, <3>6
  <2>6. StillOff' /\ StillClosed' /\ Proven'
    BY <2>1 DEF RequestRollback, Domain, Hosting, Offline, Site
  <2>7. QED BY <2>3, <2>4, <2>5, <2>6
<1>7. CASE \E c \in Unpublishes : RequestUnpublish(c)
  BY <1>7 DEF RequestUnpublish, Site, Stored, Domain, Hosting, SiteTypeOK, CallTypeOK,
     DomainTypeOK, HostingTypeOK, Calls, Proceed, Offline
<1>8. CASE \E c \in Calls : RowExists(c)
  BY <1>8 DEF RowExists, Site, Stored, Domain, Hosting, SiteTypeOK, CallTypeOK, DomainTypeOK,
     HostingTypeOK, Proceed, Offline
<1>9. CASE \E c \in Calls : SetPublication(c)
  <2>1. PICK c \in Calls : SetPublication(c) BY <1>9
  <2>2. Cardinality(publication') <= 1 /\ AtMostOne(publication')
    <3>1. AtMostOne(aim[c]) BY <2>1
    <3>2. publication' = aim[c] BY <2>1 DEF SetPublication
    <3>3. QED BY <3>1, <3>2, OneAtMost
  <2>3. PublishingTypeOK'
    <3>1. SiteTypeOK' BY <2>1, <2>2 DEF SetPublication, Site, Stored, SiteTypeOK, CallTypeOK
    <3>2. CallTypeOK' BY <2>1, <2>2 DEF SetPublication, Proceed, CallTypeOK, SiteTypeOK
    <3>3. DomainTypeOK' BY <2>1 DEF SetPublication, Domain, DomainTypeOK
    <3>4. HostingTypeOK' BY <2>1 DEF SetPublication, Hosting, HostingTypeOK
    <3>5. QED BY <3>1, <3>2, <3>3, <3>4
  <2>4. Aims' BY <2>1, <2>2 DEF SetPublication, Proceed, CallTypeOK, Stored
  <2>5. BuildsFirst' /\ Workplaces'
    BY <2>1, <2>2 DEF SetPublication, Proceed, CallTypeOK, Stored, Site
  <2>6. StillOff'
    <3>1. visit' = visit /\ row' = row /\ publication' = aim[c] BY <2>1 DEF SetPublication, Site
    <3>2. CASE aim[c] = {} BY <2>1, <3>1, <3>2 DEF SetPublication, Offline
    <3>3. CASE aim[c] # {} /\ row = "live" BY <2>1, <3>1, <3>3 DEF SetPublication
    <3>4. CASE aim[c] # {} /\ row # "live"
      <4>1. hidden' = {q \in hidden : visit[q] # "answer"} BY <2>1, <3>4 DEF SetPublication
      <4>2. Offline' BY <3>1, <3>4 DEF Offline, SiteTypeOK
      <4>3. QED BY <3>1, <4>1, <4>2
    <3>5. QED BY <3>2, <3>3, <3>4
  <2>7. StillClosed' /\ Proven' BY <2>1 DEF SetPublication, Domain
  <2>8. QED BY <2>3, <2>4, <2>5, <2>6, <2>7
<1>10. QED BY <1>1, <1>2, <1>3, <1>4, <1>5, <1>6, <1>7, <1>8, <1>9

\* The custom domain.
LEMMA DomainStep ==
  ASSUME PublishingAssumption, PublishingIInv,
         \/ AddDomain
         \/ Reissue
         \/ PublishTxt
         \/ Lapse
         \/ AskDns
         \/ Disable
         \/ \E n \in 1..MaxChallenge : DnsAnswers(n)
         \/ \E a \in Activations : Provision(a)
         \/ \E a \in Activations : Activate(a)
  PROVE  PublishingIInv'
<1> USE DEF PublishingIInv, PublishingTypeOK, Aims, BuildsFirst, Workplaces, StillOff, StillClosed, Proven
<1>1. CASE AddDomain
  BY <1>1 DEF AddDomain, Site, Stored, CallState, Hosting, SiteTypeOK, CallTypeOK, DomainTypeOK,
     HostingTypeOK, PublishingAssumption, Offline
<1>2. CASE Reissue
  BY <1>2 DEF Reissue, Site, Stored, CallState, Hosting, SiteTypeOK, CallTypeOK, DomainTypeOK,
     HostingTypeOK, PublishingAssumption, Offline
<1>3. CASE PublishTxt
  BY <1>3 DEF PublishTxt, Site, Stored, CallState, Hosting, SiteTypeOK, CallTypeOK,
     DomainTypeOK, HostingTypeOK, Offline
<1>4. CASE Lapse
  BY <1>4 DEF Lapse, Site, Stored, CallState, Hosting, SiteTypeOK, CallTypeOK, DomainTypeOK,
     HostingTypeOK, Offline
<1>5. CASE AskDns
  BY <1>5 DEF AskDns, Site, Stored, CallState, Hosting, SiteTypeOK, CallTypeOK, DomainTypeOK,
     HostingTypeOK, Offline
<1>6. CASE Disable
  BY <1>6 DEF Disable, Site, Stored, CallState, Hosting, SiteTypeOK, CallTypeOK, DomainTypeOK,
     HostingTypeOK, Offline
<1>7. CASE \E n \in 1..MaxChallenge : DnsAnswers(n)
  <2>1. PICK n \in 1..MaxChallenge : DnsAnswers(n) BY <1>7
  <2>2. DomainTypeOK' BY <2>1 DEF DnsAnswers, DomainTypeOK, Verifiable
  <2>3. PublishingTypeOK'
    BY <2>1, <2>2 DEF DnsAnswers, Site, Stored, CallState, Hosting, SiteTypeOK, CallTypeOK,
       HostingTypeOK
  <2>4. Aims' /\ BuildsFirst' /\ Workplaces' /\ StillOff'
    BY <2>1 DEF DnsAnswers, CallState, Stored, Site, Hosting, Offline
  <2>5. StillClosed' /\ Proven' BY <2>1 DEF DnsAnswers, Verifiable, Found, Hosting
  <2>6. QED BY <2>3, <2>4, <2>5
<1>8. CASE \E a \in Activations : Provision(a)
  BY <1>8 DEF Provision, Site, Stored, CallState, Hosting, SiteTypeOK, CallTypeOK, DomainTypeOK,
     HostingTypeOK, Offline
<1>9. CASE \E a \in Activations : Activate(a)
  BY <1>9 DEF Activate, Site, Stored, CallState, Hosting, SiteTypeOK, CallTypeOK, DomainTypeOK,
     HostingTypeOK, Offline, StillVerified
<1>10. QED BY <1>1, <1>2, <1>3, <1>4, <1>5, <1>6, <1>7, <1>8, <1>9

\* Hosting.
LEMMA VisitStep ==
  ASSUME PublishingAssumption, PublishingIInv,
         \/ \E q \in Visits : ReadDomain(q)
         \/ \E q \in Visits : Enter(q)
         \/ \E q \in Visits : ReadRow(q)
         \/ \E q \in Visits : ReadPublication(q)
         \/ \E q \in Visits : Serve(q)
  PROVE  PublishingIInv'
<1> USE DEF PublishingIInv, PublishingTypeOK, Aims, BuildsFirst, Workplaces, StillOff, StillClosed, Proven
<1>1. CASE \E q \in Visits : ReadDomain(q)
  BY <1>1 DEF ReadDomain, Site, Stored, CallState, Domain, SiteTypeOK, CallTypeOK, DomainTypeOK,
     HostingTypeOK, Offline
<1>2. CASE \E q \in Visits : Enter(q)
  BY <1>2 DEF Enter, Site, Stored, CallState, Domain, SiteTypeOK, CallTypeOK, DomainTypeOK,
     HostingTypeOK, Offline
<1>3. CASE \E q \in Visits : ReadRow(q)
  BY <1>3 DEF ReadRow, Site, Stored, CallState, Domain, SiteTypeOK, CallTypeOK,
     DomainTypeOK, HostingTypeOK, Offline
<1>4. CASE \E q \in Visits : ReadPublication(q)
  BY <1>4 DEF ReadPublication, Site, Stored, CallState, Domain, SiteTypeOK, CallTypeOK,
     DomainTypeOK, HostingTypeOK, Offline
<1>5. CASE \E q \in Visits : Serve(q)
  BY <1>5 DEF Serve, Site, Stored, CallState, Domain, SiteTypeOK, CallTypeOK, DomainTypeOK,
     HostingTypeOK, Offline
<1>6. QED BY <1>1, <1>2, <1>3, <1>4, <1>5

LEMMA PublishingStutters ==
  ASSUME PublishingIInv, UNCHANGED publishingVars
  PROVE  PublishingIInv'
<1> USE DEF publishingVars, Site, Stored, CallState, Domain, Hosting
<1>1. PublishingTypeOK' BY DEF PublishingIInv, PublishingTypeOK, SiteTypeOK, CallTypeOK, DomainTypeOK, HostingTypeOK
<1>2. Aims' /\ BuildsFirst' /\ Workplaces' BY DEF PublishingIInv, Aims, BuildsFirst, Workplaces
<1>3. StillOff' /\ StillClosed' /\ Proven' BY DEF PublishingIInv, StillOff, StillClosed, Proven, Offline
<1>4. QED BY <1>1, <1>2, <1>3 DEF PublishingIInv

LEMMA PublishingStep ==
  ASSUME PublishingAssumption, PublishingIInv, [PublishingNext]_publishingVars
  PROVE  PublishingIInv'
BY SiteStep, CallStep, DomainStep, VisitStep, PublishingStutters DEF PublishingNext

-----------------------------------------------------------------------------
(* The theorems *)

LEMMA PublishingInvariance ==
  ASSUME PublishingAssumption
  PROVE  PublishingSpec => []PublishingIInv
<1>1. PublishingInit => PublishingIInv BY PublishingStart
<1>2. PublishingIInv /\ [PublishingNext]_publishingVars => PublishingIInv' BY PublishingStep
<1>3. QED BY <1>1, <1>2, PTL DEF PublishingSpec

\* Every variable of DeploymentService, the domains and hosting keeps its shape,
\* and a site is published as one deployment at most, after any restart.
THEOREM PublishingTypeCorrect ==
  ASSUME PublishingAssumption
  PROVE  PublishingSpec => []PublishingTypeOK
<1>1. PublishingIInv => PublishingTypeOK BY DEF PublishingIInv
<1>2. QED BY <1>1, PublishingInvariance, PTL

\* What publish and rollback point a living site at is saved and its build is
\* stored, or went with a deletion of the site from which the row came back, however
\* many calls, edits, deletions, late writes and restarts overlap; a call of deploy
\* that published has disposed of its restored environment.
THEOREM PublishedServable ==
  ASSUME PublishingAssumption
  PROVE  PublishingSpec => []PublishedIsServable
<1>1. PublishingIInv => PublishedIsServable
  BY DEF PublishingIInv, Aims, BuildsFirst, Workplaces, PublishedIsServable
<1>2. QED BY <1>1, PublishingInvariance, PTL

\* Hosting answers with a page only a site that is on the air, by slug or by a
\* hostname that is not disabled and whose challenge was found in DNS.
THEOREM OnTheAir ==
  ASSUME PublishingAssumption
  PROVE  PublishingSpec => []OnTheAirByRight
<1>1. PublishingIInv => OnTheAirByRight
  BY DEF PublishingIInv, StillOff, StillClosed, Proven, OnTheAirByRight
<1>2. QED BY <1>1, PublishingInvariance, PTL

-----------------------------------------------------------------------------
(* SiteRuntime *)

\* A record holds what its schema has a field for, with all that is required and has no
\* default, and with a default what is not in u; a value that does not fit came from a
\* default nobody checked.
Valid(d, s, u) ==
  /\ DOMAIN d \subseteq DOMAIN s /\ Of(s, "required") \subseteq DOMAIN d
  /\ Of(s, "supplied") \ DOMAIN d \subseteq u
  /\ \A f \in DOMAIN d : d[f] # "unfit" \/ s[f] = "unfit"

RecordsFit ==
  /\ \A r \in DOMAIN records : Valid(records[r], schema, unfilled[r]) /\ Light(records[r])
  /\ refused => Of(schema, "unfit") # {}
  /\ ~runtime.on => ~refused

RuntimeIInv == RuntimeTypeOK /\ RecordsFit

LEMMA RuntimeStart ==
  ASSUME RuntimeInit
  PROVE  RuntimeIInv
<1> USE RuntimeAssumption DEF RuntimeInit
<1>1. runtime \in [on : BOOLEAN, version : 0..MaxSchema]
  <2>1. 0 \in 0..MaxSchema OBVIOUS
  <2>2. QED BY <2>1
<1>2. bucket \in 0..MaxCalls OBVIOUS
<1>3. RuntimeTypeOK BY <1>1, <1>2 DEF RuntimeTypeOK
<1>4. RecordsFit BY DEF RecordsFit
<1>5. QED BY <1>3, <1>4 DEF RuntimeIInv

\* Migrating keeps every record valid, for the new fields that are required have a
\* default, and the record is known to lack them.
LEMMA MigratesValid ==
  ASSUME NEW d, NEW s, NEW t, NEW u, Valid(d, s, u),
         \A f \in DOMAIN s : f \in DOMAIN t /\ t[f] = s[f],
         \A f \in DOMAIN t \ DOMAIN s : t[f] # "required"
  PROVE  /\ Valid(d, t, u \cup (Of(t, "supplied") \ DOMAIN s))
         /\ Of(s, "unfit") # {} => Of(t, "unfit") # {}
BY DEF Valid, Of

\* What the validator lets pass, completed with the defaults, is valid.
LEMMA CompletedIsValid ==
  ASSUME NEW d, Fits(d), Whole(d)
  PROVE  Valid(Completed(d), schema, {})
<1>1. DOMAIN Completed(d) = DOMAIN d \cup Of(schema, "supplied") \cup Of(schema, "defaulted")
                              \cup Of(schema, "unfit")
  BY DEF Completed
<1>2. \A f \in DOMAIN Completed(d) : Completed(d)[f] # "unfit" \/ schema[f] = "unfit"
  BY DEF Completed, Fits, Of
<1>3. QED BY <1>1, <1>2 DEF Fits, Whole, Valid, Of

\* A patch that fits, merged into a valid record, is refused only for what an unchecked
\* default put there, or for its length.
LEMMA MergedFits ==
  ASSUME NEW d, NEW u, Valid(d, schema, u), NEW patch, Fits(patch),
         Of(schema, "unfit") = {}
  PROVE  Fits(Merged(d, patch)) /\ Whole(Merged(d, patch))
BY DEF Valid, Fits, Whole, Merged, Of

LEMMA RuntimeTypes ==
  ASSUME RuntimeTypeOK, [RuntimeNext]_runtimeVars
  PROVE  RuntimeTypeOK'
<1> DEFINE DataOK == /\ schema \in Schemas \cup {NoSchema} /\ access \in Accesses \cup {{}}
                     /\ DOMAIN records = DOMAIN owner /\ DOMAIN records = DOMAIN unfilled
                     /\ DOMAIN records \subseteq given /\ given \subseteq Records
                     /\ ~runtime.on => DOMAIN records = {}
<1>a. ASSUME UNCHANGED <<runtime, schema, access, records, owner, given, unfilled>>
      PROVE  DataOK'
  BY <1>a DEF RuntimeTypeOK
<1> HIDE DEF DataOK
<1> USE RuntimeAssumption DEF RuntimeTypeOK, Data, Asking
<1>1. ASSUME NEW s \in Schemas, NEW a \in Accesses, ProvisionRuntime(s, a) PROVE RuntimeTypeOK'
  <2>1. runtime' \in [on : BOOLEAN, version : 0..MaxSchema]
    BY <1>1 DEF ProvisionRuntime
  <2>2. QED BY <1>1, <2>1 DEF ProvisionRuntime
<1>2. ASSUME NEW s \in Schemas, NEW a \in Accesses, ApplySchema(s, a) PROVE RuntimeTypeOK'
  <2>1. runtime' \in [on : BOOLEAN, version : 0..MaxSchema] /\ runtime'.on
    BY <1>2 DEF ApplySchema
  <2>2. QED BY <1>2, <2>1 DEF ApplySchema
<1>3. CASE DeleteRuntime
  <2>1. runtime' \in [on : BOOLEAN, version : 0..MaxSchema]
    BY <1>3 DEF DeleteRuntime
  <2>2. QED BY <1>3, <2>1 DEF DeleteRuntime
<1>4. CASE DeleteSite BY <1>4 DEF DeleteSite
<1>5. CASE NextWindow
  <2>1. DataOK' BY <1>5, <1>a DEF NextWindow
  <2>2. QED BY <1>5, <2>1 DEF DataOK, NextWindow
<1>6. ASSUME NEW q \in Requests, Arrive(q) PROVE RuntimeTypeOK'
  <2>1. DataOK' BY <1>6, <1>a DEF Arrive
  <2>2. QED BY <1>6, <2>1 DEF DataOK, Arrive, Step, Over
<1>7. ASSUME NEW q \in Requests, ReadSite(q) PROVE RuntimeTypeOK'
  BY <1>7 DEF ReadSite, Step, Over
<1>8. ASSUME NEW q \in Requests, Authorize(q) PROVE RuntimeTypeOK'
  <2>1. DataOK' BY <1>8, <1>a DEF Authorize
  <2>2. QED BY <1>8, <2>1 DEF DataOK, Authorize, Step, Over, Policy, Policies
<1>9. ASSUME NEW q \in Requests, Create(q) PROVE RuntimeTypeOK'
  BY <1>9 DEF Create, Over
<1>10. ASSUME NEW q \in Requests, CheckOwner(q) PROVE RuntimeTypeOK'
  <2>1. DataOK' BY <1>10, <1>a DEF CheckOwner
  <2>2. QED BY <1>10, <2>1 DEF DataOK, CheckOwner, Step, Over
<1>11. ASSUME NEW q \in Requests, Update(q) PROVE RuntimeTypeOK'
  <2>1. DOMAIN records' = DOMAIN records /\ DOMAIN unfilled' = DOMAIN unfilled BY <1>11 DEF Update
  <2>2. refused' \in BOOLEAN BY <1>11 DEF Update
  <2>3. request' \in [Requests -> {"start", "read", "authorize", "create", "change", "update",
                              "delete", "over"}]
    BY <1>11 DEF Update, Over
  <2>4. QED BY <1>11, <2>1, <2>2, <2>3 DEF Update
<1>12. ASSUME NEW q \in Requests, Delete(q) PROVE RuntimeTypeOK'
  BY <1>12 DEF Delete, Over
<1>13. CASE UNCHANGED runtimeVars BY <1>13 DEF runtimeVars
<1>14. QED
  BY <1>1, <1>2, <1>3, <1>4, <1>5, <1>6, <1>7, <1>8, <1>9, <1>10, <1>11, <1>12, <1>13
     DEF RuntimeNext

LEMMA RecordsStep ==
  ASSUME RuntimeTypeOK, RecordsFit, [RuntimeNext]_runtimeVars
  PROVE  RecordsFit'
<1> USE DEF RecordsFit
<1>1. CASE UNCHANGED <<runtime, schema, records, unfilled, refused>>
  BY <1>1 DEF Light
<1>2. ASSUME NEW s \in Schemas, NEW a \in Accesses, ProvisionRuntime(s, a) PROVE RecordsFit'
  BY <1>2 DEF ProvisionRuntime, Data, RuntimeTypeOK
<1>3. ASSUME NEW s \in Schemas, NEW a \in Accesses, ApplySchema(s, a) PROVE RecordsFit'
  <2>1. /\ \A f \in DOMAIN schema : f \in DOMAIN s /\ s[f] = schema[f]
        /\ \A f \in DOMAIN s \ DOMAIN schema : s[f] # "required"
        /\ schema' = s /\ UNCHANGED <<records, refused>> /\ runtime.on /\ runtime'.on
    BY <1>3 DEF ApplySchema, Additive, RuntimeTypeOK
  <2>2. ASSUME NEW r \in DOMAIN records PROVE Valid(records[r], s, unfilled'[r])
    <3>1. unfilled'[r] = unfilled[r] \cup (Of(s, "supplied") \ DOMAIN schema)
      BY <1>3 DEF ApplySchema, RuntimeTypeOK
    <3>2. Valid(records[r], schema, unfilled[r]) OBVIOUS
    <3>3. QED BY <2>1, <3>1, <3>2, MigratesValid
  <2>3. refused => Of(s, "unfit") # {} BY <2>1 DEF Of
  <2>4. \A r \in DOMAIN records : Light(records[r]) OBVIOUS
  <2>5. QED BY <2>1, <2>2, <2>3, <2>4
<1>4. CASE DeleteRuntime BY <1>4 DEF DeleteRuntime
<1>5. ASSUME NEW q \in Requests, Create(q) PROVE RecordsFit'
  <2>1. CASE UNCHANGED Data BY <1>5, <2>1, <1>1 DEF Create, Data
  <2>2. ASSUME NEW r \in Records, NEW d \in Inputs,
               Fits(d) /\ Whole(d) /\ Light(Completed(d)),
               records' = [x \in DOMAIN records \cup {r} |->
                             IF x = r THEN Completed(d) ELSE records[x]],
               unfilled' = [x \in DOMAIN unfilled \cup {r} |->
                             IF x = r THEN {} ELSE unfilled[x]]
        PROVE  RecordsFit'
    <3>1. Valid(Completed(d), schema, {}) BY <2>2, CompletedIsValid
    <3>2. UNCHANGED <<schema, runtime, refused>> BY <1>5 DEF Create
    <3>3. \A x \in DOMAIN records' : Valid(records'[x], schema, unfilled'[x]) /\ Light(records'[x])
      BY <2>2, <3>1 DEF RuntimeTypeOK
    <3>4. QED BY <3>2, <3>3
  <2>3. QED BY <1>5, <2>1, <2>2 DEF Create
<1>6. ASSUME NEW q \in Requests, Update(q) PROVE RecordsFit'
  <2>1. UNCHANGED <<schema, runtime>> BY <1>6 DEF Update
  <2>2. CASE UNCHANGED <<records, unfilled, refused>> BY <2>1, <2>2, <1>1
  <2>3. ASSUME NEW r \in DOMAIN records, NEW patch \in Inputs,
               runtime.on /\ Fits(patch),
               LET whole == Merged(records[r], patch)
                   room == Light(Completed(whole))
               IN IF Fits(whole) /\ Whole(whole) /\ room
                  THEN /\ records' = [records EXCEPT ![r] = Completed(whole)]
                       /\ unfilled' = [unfilled EXCEPT ![r] = {}]
                       /\ UNCHANGED refused
                  ELSE refused' = (refused \/ room) /\ UNCHANGED <<records, unfilled>>
        PROVE  RecordsFit'
    <3> DEFINE whole == Merged(records[r], patch)
               room == Light(Completed(whole))
    <3> HIDE DEF whole, room
    <3>a. IF Fits(whole) /\ Whole(whole) /\ room
          THEN /\ records' = [records EXCEPT ![r] = Completed(whole)]
               /\ unfilled' = [unfilled EXCEPT ![r] = {}]
               /\ UNCHANGED refused
          ELSE refused' = (refused \/ room) /\ UNCHANGED <<records, unfilled>>
      BY <2>3 DEF whole, room
    <3>1. CASE Fits(whole) /\ Whole(whole) /\ room
      <4>1. Valid(Completed(whole), schema, {}) BY <3>1, CompletedIsValid
      <4>2. Light(Completed(whole)) BY <3>1 DEF room
      <4>3. \A x \in DOMAIN records' : Valid(records'[x], schema, unfilled'[x]) /\ Light(records'[x])
        BY <3>a, <3>1, <4>1, <4>2 DEF RuntimeTypeOK
      <4>4. UNCHANGED refused BY <3>a, <3>1
      <4>5. QED BY <2>1, <4>3, <4>4
    <3>2. CASE ~(Fits(whole) /\ Whole(whole) /\ room)
      <4>1. refused' => Of(schema, "unfit") # {}
        <5>1. CASE Fits(whole) /\ Whole(whole)
          <6>1. refused' => refused BY <3>a, <3>2, <5>1
          <6>2. QED BY <6>1
        <5>2. CASE ~(Fits(whole) /\ Whole(whole))
          BY <2>3, <5>2, MergedFits DEF whole
        <5>3. QED BY <5>1, <5>2
      <4>2. UNCHANGED <<records, unfilled>> BY <3>a, <3>2
      <4>3. QED BY <2>1, <2>3, <4>1, <4>2 DEF Light
    <3>3. QED BY <3>1, <3>2
  <2>4. QED BY <1>6, <2>2, <2>3 DEF Update
<1>7. ASSUME NEW q \in Requests, Delete(q) PROVE RecordsFit'
  BY <1>7 DEF Delete, RuntimeTypeOK
<1>8. QED
  BY <1>1, <1>2, <1>3, <1>4, <1>5, <1>6, <1>7 DEF RuntimeNext, runtimeVars, DeleteSite, NextWindow,
     Arrive, ReadSite, Authorize, CheckOwner, Data

\* The runtime, its records and the requests keep their shape; without a runtime there is
\* no record.
THEOREM RuntimeTypeCorrect == RuntimeSpec => []RuntimeTypeOK
<1>1. RuntimeIInv /\ [RuntimeNext]_runtimeVars => RuntimeIInv'
  BY RuntimeTypes, RecordsStep DEF RuntimeIInv
<1>2. RuntimeIInv => RuntimeTypeOK BY DEF RuntimeIInv
<1>3. QED BY <1>1, <1>2, RuntimeStart, PTL DEF RuntimeSpec

\* However often a schema migrates between the authorization of a request and its
\* write, every stored record fits the schema of the moment and its room, but for
\* required fields that came with a default since it was written; and no update that
\* fits and leaves room is refused for what the record held before, unless a default
\* was never checked.
THEOREM RecordsValid == RuntimeSpec => []RecordsStayValid
<1>1. RuntimeIInv /\ [RuntimeNext]_runtimeVars => RuntimeIInv'
  BY RuntimeTypes, RecordsStep DEF RuntimeIInv
<1>2. RuntimeIInv => RecordsStayValid
  BY DEF RuntimeIInv, RecordsFit, Valid, RecordsStayValid, Mandatory, Of
<1>3. QED BY <1>1, <1>2, RuntimeStart, PTL DEF RuntimeSpec

-----------------------------------------------------------------------------
(* LocalExecution: environments on the developer's machine *)

\* A call has no process before it starts one, and a destruction never has one. What
\* was told to end is a process; a destruction has begun before it goes on.
CallsSound ==
  /\ \A c \in LocalCalls :
       /\ at[c] \in {"idle", "port", "writing"} => child[c] = NoChild
       /\ at[c] \in {"stopping all", "removing"} => child[c].state = None /\ target[c] \in began
       /\ at[c] # "idle" => target[c] \in Envs
       /\ Alive(c) => child[c].set >= 1
       /\ c \in pursued => child[c].state # None
  /\ \A e \in Envs : known[e] = "gone" => e \in began

\* A process a destruction has to stop: it runs, it has not withstood the signal, and
\* it was there before the first destruction began.
Due(d, e) == Alive(d) /\ target[d] = e /\ ~child[d].stubborn /\ ~child[d].tardy

\* It is in the Set the Map holds, in the one a destruction goes through, and
\* there is none left when the loop is over.
InTheMap == \A e \in Envs, d \in LocalCalls : Due(d, e) => child[d].set = held[e]
InTheLoop ==
  \A c, d \in LocalCalls :
    at[c] = "stopping all" /\ Due(d, target[c]) => child[d].set = child[c].set
NoneDue ==
  /\ \A c, d \in LocalCalls : at[c] = "removing" => ~Due(d, target[c])
  /\ \A e \in Envs, d \in LocalCalls : known[e] = "gone" => ~Due(d, e)

NoFolder ==
  \A e \in Envs : known[e] = "gone" /\ folder[e] =>
    KeepWorkspace \/ \E c \in LocalCalls : target[c] = e /\ child[c].tardy

\* A build under way that was told to end was late or its environment is being
\* destroyed; a verdict is that of a call that is over.
Verdicts ==
  /\ \A c \in LocalCalls : c \in pursued /\ at[c] \in {"running", "stopping"} =>
       child[c].timedOut \/ target[c] \in began
  /\ \A e \in Envs : verdict[e] # None => at[verdict[e]] = "done"
  /\ VerdictIsTrue

LocalIInv ==
  ExecutionTypeOK /\ CallsSound /\ InTheMap /\ InTheLoop /\ NoneDue /\ NoFolder /\ Verdicts

\* What a call can have started.
Children ==
  [kind : {None, "build", "preview"}, set : 0..sets,
   state : {None, "alive", "ok", "bad", "killed", "failed"},
   port : Ports \cup {None}, listens : BOOLEAN, stubborn : BOOLEAN,
   tardy : BOOLEAN, timedOut : BOOLEAN]

LEMMA LocalStart ==
  ASSUME ExecutionInit
  PROVE  LocalIInv
<1> USE ExecutionAssumption DEF ExecutionInit
<1>1. NoChild \in Children BY DEF NoChild, None, Children
<1>2. ExecutionTypeOK BY <1>1 DEF ExecutionTypeOK, Children, None
<1>3. CallsSound /\ Verdicts BY DEF CallsSound, Verdicts, VerdictIsTrue, Alive, NoChild, None
<1>4. InTheMap /\ InTheLoop /\ NoneDue /\ NoFolder
  BY DEF InTheMap, InTheLoop, NoneDue, NoFolder, Due, Alive, NoChild, None
<1>5. QED BY <1>2, <1>3, <1>4 DEF LocalIInv

\* What happens to one child leaves the others alone.
LEMMA OneChild ==
  ASSUME ExecutionTypeOK, NEW c \in LocalCalls, NEW x \in Children',
         sets' \in Nat, sets' >= sets, child' = [child EXCEPT ![c] = x]
  PROVE  /\ child' \in [LocalCalls -> Children'] /\ child'[c] = x
         /\ \A d \in LocalCalls : d # c => child'[d] = child[d]
<1>1. child \in [LocalCalls -> Children] BY DEF ExecutionTypeOK, Children
<1>2. ASSUME NEW y \in Children PROVE y \in Children'
  <2>1. y.set \in 0..sets /\ sets \in Nat BY DEF Children, ExecutionTypeOK
  <2>2. y.set \in 0..sets' BY <2>1
  <2>3. QED BY <2>2 DEF Children
<1>3. child \in [LocalCalls -> Children'] BY <1>1, <1>2
<1>4. QED BY <1>3

\* A process that is started: the Set it enters, and what the Map holds then.
LEMMA Spawning ==
  ASSUME ExecutionTypeOK, NEW c \in LocalCalls, NEW e \in Envs,
         NEW kind \in {"build", "preview"}, NEW port \in Ports \cup {None},
         Spawned(c, e, kind, port)
  PROVE  /\ sets' \in Nat /\ sets' >= sets /\ held' \in [Envs -> 0..sets']
         /\ child' \in [LocalCalls -> Children']
         /\ \A d \in LocalCalls : d # c => child'[d] = child[d]
         /\ child'[c].state \in {"alive", "failed"} /\ child'[c].set >= 1
         /\ child'[c].state = "alive" => child'[c].set = held'[e]
         /\ child'[c].tardy = (e \in began)
         /\ ~child'[c].stubborn /\ ~child'[c].timedOut
         /\ \A f \in Envs : held'[f] = held[f] \/ (f = e /\ held[e] = 0)
<1> DEFINE starts == folder[e]
           fresh == held[e] = 0
           x == [kind |-> kind, port |-> port, tardy |-> e \in began,
                 state |-> IF starts THEN "alive" ELSE "failed",
                 set |-> IF fresh THEN sets + 1 ELSE held[e],
                 listens |-> FALSE, stubborn |-> FALSE, timedOut |-> FALSE]
<1>1. /\ sets \in Nat /\ held \in [Envs -> 0..sets] /\ folder \in [Envs -> BOOLEAN]
  BY DEF ExecutionTypeOK
<1>2. /\ child' = [child EXCEPT ![c] = x]
      /\ sets' = IF fresh THEN sets + 1 ELSE sets
      /\ held' = IF fresh /\ starts THEN [held EXCEPT ![e] = sets + 1] ELSE held
  BY DEF Spawned
<1>3. sets' \in Nat /\ sets' >= sets BY <1>1, <1>2
<1>4. held' \in [Envs -> 0..sets']
  <2>1. \A f \in Envs : held'[f] \in 0..sets' BY <1>1, <1>2
  <2>2. QED BY <1>1, <1>2, <2>1
<1>6. x \in Children'
  <2>1. (IF fresh THEN sets + 1 ELSE held[e]) \in 0..sets' BY <1>1, <1>2
  <2>2. (e \in began) \in BOOLEAN OBVIOUS
  <2>3. QED BY <2>1, <2>2 DEF Children, None
<1>7. /\ child' \in [LocalCalls -> Children'] /\ child'[c] = x
      /\ \A d \in LocalCalls : d # c => child'[d] = child[d]
  BY <1>2, <1>3, <1>6, OneChild
<1>8. /\ x.state = "alive" => starts
      /\ x.set >= 1 /\ x.state \in {"alive", "failed"} /\ x.tardy = (e \in began)
      /\ ~x.stubborn /\ ~x.timedOut
      /\ x.set = IF fresh THEN sets + 1 ELSE held[e]
  BY <1>1
<1>9. \A f \in Envs : held'[f] = held[f] \/ (f = e /\ held[e] = 0) BY <1>1, <1>2
<1>10. x.state = "alive" => x.set = held'[e] BY <1>1, <1>2, <1>8
<1> HIDE DEF x, starts, fresh
<1>11. QED BY <1>3, <1>4, <1>7, <1>8, <1>9, <1>10

\* What may change of a child once it is there.
LEMMA Changing ==
  ASSUME ExecutionTypeOK, NEW c \in LocalCalls, UNCHANGED sets,
         \/ \E how \in {"ok", "bad", "killed"} :
              child' = [child EXCEPT ![c].state = how, ![c].listens = FALSE]
         \/ child' = [child EXCEPT ![c].listens = TRUE]
         \/ child' = [child EXCEPT ![c].stubborn = TRUE]
         \/ child' = [child EXCEPT ![c].timedOut = TRUE]
         \/ \E late \in BOOLEAN : child' = [child EXCEPT ![c].tardy = late]
         \/ \E n \in 0..sets : child' = [child EXCEPT ![c].set = n]
  PROVE  /\ child' \in [LocalCalls -> Children']
         /\ \A d \in LocalCalls : d # c => child'[d] = child[d]
<1>1. child \in [LocalCalls -> Children] /\ child[c] \in Children BY DEF ExecutionTypeOK, Children
<1>2. Children' = Children BY DEF Children
<1>3. ASSUME NEW how \in {"ok", "bad", "killed"},
             child' = [child EXCEPT ![c].state = how, ![c].listens = FALSE]
      PROVE  child' \in [LocalCalls -> Children]
  <2>1. [child[c] EXCEPT !.state = how, !.listens = FALSE] \in Children BY <1>1 DEF Children
  <2>2. QED BY <1>1, <1>3, <2>1
<1>4. CASE child' = [child EXCEPT ![c].listens = TRUE]
  <2>1. [child[c] EXCEPT !.listens = TRUE] \in Children BY <1>1 DEF Children
  <2>2. QED BY <1>1, <1>2, <1>4, <2>1
<1>5. CASE child' = [child EXCEPT ![c].stubborn = TRUE]
  <2>1. [child[c] EXCEPT !.stubborn = TRUE] \in Children BY <1>1 DEF Children
  <2>2. QED BY <1>1, <1>2, <1>5, <2>1
<1>6. CASE child' = [child EXCEPT ![c].timedOut = TRUE]
  <2>1. [child[c] EXCEPT !.timedOut = TRUE] \in Children BY <1>1 DEF Children
  <2>2. QED BY <1>1, <1>2, <1>6, <2>1
<1>7. ASSUME NEW late \in BOOLEAN, child' = [child EXCEPT ![c].tardy = late]
      PROVE  child' \in [LocalCalls -> Children]
  <2>1. [child[c] EXCEPT !.tardy = late] \in Children BY <1>1 DEF Children
  <2>2. QED BY <1>1, <1>7, <2>1
<1>8. ASSUME NEW n \in 0..sets, child' = [child EXCEPT ![c].set = n]
      PROVE  child' \in [LocalCalls -> Children]
  <2>1. [child[c] EXCEPT !.set = n] \in Children BY <1>1 DEF Children
  <2>2. QED BY <1>1, <1>8, <2>1
<1>9. \A d \in LocalCalls : d # c => child'[d] = child[d] BY <1>1
<1>10. QED BY <1>2, <1>3, <1>4, <1>5, <1>6, <1>7, <1>8, <1>9

LEMMA IsIn ==
  ASSUME NEW e, NEW S
  PROVE  (e \in S) \in BOOLEAN
OBVIOUS

LEMMA ZeroIsThere ==
  ASSUME ExecutionTypeOK
  PROVE  0 \in 0..sets
<1>1. sets \in Nat BY DEF ExecutionTypeOK
<1>2. QED BY <1>1

LEMMA LocalTypes ==
  ASSUME LocalIInv, [ExecutionNext]_executionVars
  PROVE  ExecutionTypeOK'
<1> USE ExecutionAssumption DEF LocalIInv, ExecutionTypeOK, None
<1>1. ASSUME NEW e \in Envs, CreateEnvironment(e) PROVE ExecutionTypeOK'
  BY <1>1 DEF CreateEnvironment
<1>2. ASSUME NEW c \in LocalCalls, NEW e \in Envs, RunCommand(c, e) PROVE ExecutionTypeOK'
  <2>1. Spawned(c, e, "build", None) BY <1>2 DEF RunCommand
  <2>2. /\ sets' \in Nat /\ held' \in [Envs -> 0..sets'] /\ child' \in [LocalCalls -> Children']
    BY <2>1, Spawning DEF None
  <2>3. QED BY <1>2, <2>2 DEF RunCommand, Starts, Children
<1>3. ASSUME NEW c \in LocalCalls, NEW e \in Envs, StartPreview(c, e) PROVE ExecutionTypeOK'
  BY <1>3 DEF StartPreview, Starts
<1>4. ASSUME NEW c \in LocalCalls, NEW e \in Envs, WriteFile(c, e) PROVE ExecutionTypeOK'
  BY <1>4 DEF WriteFile, Starts
<1>5. ASSUME NEW c \in LocalCalls, NEW e \in Envs, Destroy(c, e) PROVE ExecutionTypeOK'
  <2>1. held[e] \in 0..sets OBVIOUS
  <2>2. child' \in [LocalCalls -> Children'] BY <1>5, <2>1, Changing DEF Destroy
  <2>3. QED BY <1>5, <2>2 DEF Destroy, Starts, Children
<1>6. ASSUME NEW c \in LocalCalls, Exits(c) PROVE ExecutionTypeOK'
  <2>1. child' \in [LocalCalls -> Children'] BY <1>6, Changing DEF Exits
  <2>2. held' \in [Envs -> 0..sets]
    <3>1. sets \in Nat /\ held \in [Envs -> 0..sets] OBVIOUS
    <3>2. 0 \in 0..sets BY ZeroIsThere
    <3>3. held' = held \/ held' = [held EXCEPT ![target[c]] = 0] BY <1>6 DEF Exits, EntryWithout
    <3>4. QED BY <3>1, <3>2, <3>3
  <2>3. QED BY <1>6, <2>1, <2>2 DEF Exits, Children
<1>7. ASSUME NEW c \in LocalCalls, Listens(c) PROVE ExecutionTypeOK'
  <2>1. child' \in [LocalCalls -> Children'] BY <1>7, Changing DEF Listens
  <2>2. QED BY <1>7, <2>1 DEF Listens, Children
<1>8. ASSUME NEW c \in LocalCalls, Resists(c) PROVE ExecutionTypeOK'
  <2>1. child' \in [LocalCalls -> Children'] BY <1>8, Changing DEF Resists
  <2>2. QED BY <1>8, <2>1 DEF Resists, Children
<1>9. ASSUME NEW c \in LocalCalls, TimesOut(c) PROVE ExecutionTypeOK'
  <2>1. child' \in [LocalCalls -> Children'] BY <1>9, Changing DEF TimesOut
  <2>2. pursued' \subseteq LocalCalls BY <1>9 DEF TimesOut
  <2>3. QED BY <1>9, <2>1, <2>2 DEF TimesOut, Goes, Children
<1>10. ASSUME NEW c \in LocalCalls, CommandEnds(c) PROVE ExecutionTypeOK'
  BY <1>10 DEF CommandEnds, Goes
<1>11. ASSUME NEW c \in LocalCalls, CommandFails(c) PROVE ExecutionTypeOK'
  BY <1>11 DEF CommandFails, Goes
<1>12. ASSUME NEW c \in LocalCalls, SpawnPreview(c) PROVE ExecutionTypeOK'
  <2>1. PICK port \in Ports : Spawned(c, target[c], "preview", port) BY <1>12 DEF SpawnPreview
  <2>2. target[c] \in Envs BY <1>12 DEF SpawnPreview, CallsSound
  <2>3. /\ sets' \in Nat /\ held' \in [Envs -> 0..sets'] /\ child' \in [LocalCalls -> Children']
    BY <2>1, <2>2, Spawning
  <2>4. QED BY <1>12, <2>3 DEF SpawnPreview, Goes, Children
<1>13. ASSUME NEW c \in LocalCalls, PreviewAnswers(c) PROVE ExecutionTypeOK'
  BY <1>13 DEF PreviewAnswers, Goes
<1>14. ASSUME NEW c \in LocalCalls, PreviewExited(c) PROVE ExecutionTypeOK'
  BY <1>14 DEF PreviewExited, Goes
<1>15. ASSUME NEW c \in LocalCalls, PreviewDeadline(c) PROVE ExecutionTypeOK'
  BY <1>15 DEF PreviewDeadline, Goes
<1>16. ASSUME NEW c \in LocalCalls, PreviewFails(c) PROVE ExecutionTypeOK'
  BY <1>16 DEF PreviewFails, Goes
<1>17. ASSUME NEW c \in LocalCalls, MakeDirectories(c) PROVE ExecutionTypeOK'
  <2>0. (target[c] \in began) \in BOOLEAN BY IsIn
  <2> DEFINE late == target[c] \in began
  <2>1. child' = [child EXCEPT ![c].tardy = late] BY <1>17, Zenon DEF MakeDirectories
  <2> late \in BOOLEAN BY <2>0
  <2> UNCHANGED sets BY <1>17 DEF MakeDirectories
  <2> HIDE DEF late
  <2> child' \in [LocalCalls -> Children'] BY <2>1, Changing
  <2>2. QED BY <1>17, <2>1 DEF MakeDirectories, Goes, Children
<1>18. ASSUME NEW c \in LocalCalls, StopNext(c) PROVE ExecutionTypeOK'
  <2>1. PICK d \in LocalCalls : stopping' = [stopping EXCEPT ![c] = d] /\ pursued' = pursued \cup {d}
    BY <1>18 DEF StopNext, ToStop
  <2>2. QED BY <1>18, <2>1 DEF StopNext
<1>19. ASSUME NEW c \in LocalCalls, NextStopped(c) PROVE ExecutionTypeOK'
  BY <1>19 DEF NextStopped
<1>20. ASSUME NEW c \in LocalCalls, StopAllEnds(c) PROVE ExecutionTypeOK'
  <2>1. 0 \in 0..sets BY ZeroIsThere
  <2>2. held' \in [Envs -> 0..sets] BY <1>20, <2>1 DEF StopAllEnds
  <2>3. QED BY <1>20, <2>2 DEF StopAllEnds, Goes
<1>21. ASSUME NEW c \in LocalCalls, RemoveWorkspace(c) PROVE ExecutionTypeOK'
  BY <1>21 DEF RemoveWorkspace, Goes
<1>22. ASSUME NEW c \in LocalCalls, RemovalFails(c) PROVE ExecutionTypeOK'
  BY <1>22 DEF RemovalFails, Goes
<1>23. CASE UNCHANGED executionVars BY <1>23 DEF executionVars
<1>24. QED
  BY <1>1, <1>2, <1>3, <1>4, <1>5, <1>6, <1>7, <1>8, <1>9, <1>10, <1>11, <1>12,
     <1>13, <1>14, <1>15, <1>16, <1>17, <1>18, <1>19, <1>20, <1>21, <1>22, <1>23 DEF ExecutionNext

\* What a step does to one child, field by field.
LEMMA ChildFields ==
  ASSUME ExecutionTypeOK, NEW c \in LocalCalls
  PROVE  /\ \A how : child' = [child EXCEPT ![c].state = how, ![c].listens = FALSE] =>
              /\ child'[c].state = how /\ child'[c].set = child[c].set
              /\ child'[c].tardy = child[c].tardy /\ child'[c].stubborn = child[c].stubborn
              /\ child'[c].timedOut = child[c].timedOut
         /\ child' = [child EXCEPT ![c].listens = TRUE] =>
              /\ child'[c].state = child[c].state /\ child'[c].set = child[c].set
              /\ child'[c].tardy = child[c].tardy /\ child'[c].stubborn = child[c].stubborn
              /\ child'[c].timedOut = child[c].timedOut
         /\ child' = [child EXCEPT ![c].stubborn = TRUE] =>
              /\ child'[c].state = child[c].state /\ child'[c].set = child[c].set
              /\ child'[c].tardy = child[c].tardy /\ child'[c].stubborn
              /\ child'[c].timedOut = child[c].timedOut
         /\ child' = [child EXCEPT ![c].timedOut = TRUE] =>
              /\ child'[c].state = child[c].state /\ child'[c].set = child[c].set
              /\ child'[c].tardy = child[c].tardy /\ child'[c].stubborn = child[c].stubborn
              /\ child'[c].timedOut
         /\ \A late : child' = [child EXCEPT ![c].tardy = late] =>
              /\ child'[c].state = child[c].state /\ child'[c].tardy = late
         /\ \A n : child' = [child EXCEPT ![c].set = n] =>
              /\ child'[c].state = child[c].state /\ child'[c].set = n
              /\ child'[c].tardy = child[c].tardy
<1>1. child \in [LocalCalls -> Children] /\ child[c] \in Children BY DEF ExecutionTypeOK, Children
<1>2. ASSUME NEW how, child' = [child EXCEPT ![c].state = how, ![c].listens = FALSE]
      PROVE  /\ child'[c].state = how /\ child'[c].set = child[c].set
             /\ child'[c].tardy = child[c].tardy /\ child'[c].stubborn = child[c].stubborn
             /\ child'[c].timedOut = child[c].timedOut
  <2>1. child'[c] = [child[c] EXCEPT !.state = how, !.listens = FALSE] BY <1>1, <1>2
  <2>2. QED BY <1>1, <2>1 DEF Children
<1>3. ASSUME child' = [child EXCEPT ![c].listens = TRUE]
      PROVE  /\ child'[c].state = child[c].state /\ child'[c].set = child[c].set
             /\ child'[c].tardy = child[c].tardy /\ child'[c].stubborn = child[c].stubborn
             /\ child'[c].timedOut = child[c].timedOut
  <2>1. child'[c] = [child[c] EXCEPT !.listens = TRUE] BY <1>1, <1>3
  <2>2. QED BY <1>1, <2>1 DEF Children
<1>4. ASSUME child' = [child EXCEPT ![c].stubborn = TRUE]
      PROVE  /\ child'[c].state = child[c].state /\ child'[c].set = child[c].set
             /\ child'[c].tardy = child[c].tardy /\ child'[c].stubborn
             /\ child'[c].timedOut = child[c].timedOut
  <2>1. child'[c] = [child[c] EXCEPT !.stubborn = TRUE] BY <1>1, <1>4
  <2>2. QED BY <1>1, <2>1 DEF Children
<1>5. ASSUME child' = [child EXCEPT ![c].timedOut = TRUE]
      PROVE  /\ child'[c].state = child[c].state /\ child'[c].set = child[c].set
             /\ child'[c].tardy = child[c].tardy /\ child'[c].stubborn = child[c].stubborn
             /\ child'[c].timedOut
  <2>1. child'[c] = [child[c] EXCEPT !.timedOut = TRUE] BY <1>1, <1>5
  <2>2. QED BY <1>1, <2>1 DEF Children
<1>6. ASSUME NEW late, child' = [child EXCEPT ![c].tardy = late]
      PROVE  child'[c].state = child[c].state /\ child'[c].tardy = late
  <2>1. child'[c] = [child[c] EXCEPT !.tardy = late] BY <1>1, <1>6
  <2>2. QED BY <1>1, <2>1 DEF Children
<1>7. ASSUME NEW n, child' = [child EXCEPT ![c].set = n]
      PROVE  /\ child'[c].state = child[c].state /\ child'[c].set = n
             /\ child'[c].tardy = child[c].tardy
  <2>1. child'[c] = [child[c] EXCEPT !.set = n] BY <1>1, <1>7
  <2>2. QED BY <1>1, <2>1 DEF Children
<1>8. QED BY <1>2, <1>3, <1>4, <1>5, <1>6, <1>7

\* What a step does to the processes that are due: it makes none of a destruction under
\* way, and the Map lets go of none.
DueStep ==
  /\ \A e \in Envs, d \in LocalCalls : Due(d, e)' =>
       \/ Due(d, e) /\ child'[d].set = child[d].set
       \/ e \notin began' /\ child'[d].set = held'[e]
  /\ \A e \in Envs :
       held'[e] = held[e] \/ \A d \in LocalCalls : ~(Due(d, e) /\ Due(d, e)')
  /\ \A c \in LocalCalls : at'[c] = "stopping all" =>
       /\ target'[c] \in began'
       /\ \/ at[c] = "stopping all" /\ target'[c] = target[c] /\ child'[c].set = child[c].set
          \/ child'[c].set = held[target'[c]]
  /\ \A c \in LocalCalls : at'[c] = "removing" =>
       /\ target'[c] \in began'
       /\ \/ at[c] = "removing" /\ target'[c] = target[c]
          \/ \A d \in LocalCalls : ~Due(d, target'[c])
  /\ \A e \in Envs : known'[e] = "gone" =>
       e \in began' /\ (known[e] = "gone" \/ \A d \in LocalCalls : ~Due(d, e))

LEMMA DueIsKept ==
  ASSUME InTheMap, InTheLoop, NoneDue, DueStep, began' \subseteq Envs
  PROVE  InTheMap' /\ InTheLoop' /\ NoneDue'
<1>1. InTheMap'
  <2>1. ASSUME NEW e \in Envs, NEW d \in LocalCalls, Due(d, e)' PROVE child'[d].set = held'[e]
    BY <2>1 DEF DueStep, InTheMap
  <2>2. QED BY <2>1 DEF InTheMap
<1>2. InTheLoop'
  <2>1. ASSUME NEW c \in LocalCalls, NEW d \in LocalCalls, at'[c] = "stopping all",
               Due(d, target[c])'
        PROVE  child'[d].set = child'[c].set
    <3>1. target'[c] \in Envs /\ target'[c] \in began' BY <2>1 DEF DueStep
    <3>3. Due(d, target'[c]) /\ child'[d].set = child[d].set BY <2>1, <3>1 DEF DueStep, Due, Alive
    <3>4. child[d].set = held[target'[c]] BY <3>1, <3>3 DEF InTheMap
    <3>5. QED BY <2>1, <3>3, <3>4 DEF DueStep, InTheLoop
  <2>2. QED BY <2>1 DEF InTheLoop
<1>3. NoneDue'
  <2>1. ASSUME NEW c \in LocalCalls, NEW d \in LocalCalls, at'[c] = "removing", Due(d, target[c])'
        PROVE  FALSE
    <3>1. target'[c] \in Envs /\ target'[c] \in began' BY <2>1 DEF DueStep
    <3>2. Due(d, target'[c]) BY <2>1, <3>1 DEF DueStep, Due, Alive
    <3>3. QED BY <2>1, <3>2 DEF DueStep, NoneDue
  <2>2. ASSUME NEW e \in Envs, NEW d \in LocalCalls, known'[e] = "gone", Due(d, e)'
        PROVE  FALSE
    BY <2>2 DEF DueStep, NoneDue
  <2>3. QED BY <2>1, <2>2 DEF NoneDue
<1>4. QED BY <1>1, <1>2, <1>3

LEMMA UntouchedDue ==
  ASSUME NEW d \in LocalCalls, child'[d] = child[d], target'[d] = target[d]
  PROVE  \A e \in Envs : Due(d, e)' = Due(d, e)
BY DEF Due, Alive

\* A step that moves neither processes nor destructions.
LEMMA QuietDue ==
  ASSUME CallsSound, UNCHANGED <<child, target, held, began>>,
         \A c \in LocalCalls : at'[c] \in {"stopping all", "removing"} => at'[c] = at[c],
         \A e \in Envs : known'[e] = "gone" => known[e] = "gone"
  PROVE  DueStep
<1>1. \A e \in Envs, d \in LocalCalls : Due(d, e)' => Due(d, e) /\ child'[d].set = child[d].set
  BY UntouchedDue
<1>2. \A c \in LocalCalls : at'[c] \in {"stopping all", "removing"} =>
        at[c] = at'[c] /\ target'[c] = target[c] /\ target'[c] \in began'
  BY DEF CallsSound
<1>3. \A e \in Envs : known'[e] = "gone" => e \in began' BY DEF CallsSound
<1>4. QED BY <1>1, <1>2, <1>3 DEF DueStep

\* A step that moves one call, starts no process in an environment whose destruction has
\* begun, and leaves destructions alone.
LEMMA OneCallDue ==
  ASSUME CallsSound, NEW c \in LocalCalls, UNCHANGED began,
         \A d \in LocalCalls \ {c} :
           child'[d] = child[d] /\ target'[d] = target[d] /\ at'[d] = at[d],
         at'[c] \in {"stopping all", "removing"} =>
           at'[c] = at[c] /\ target'[c] = target[c] /\ child'[c].set = child[c].set,
         \A e \in Envs : Due(c, e)' =>
           \/ Due(c, e) /\ child'[c].set = child[c].set
           \/ e \notin began /\ child'[c].set = held'[e],
         \A e \in Envs :
           held'[e] = held[e] \/ \A d \in LocalCalls : ~(Due(d, e) /\ Due(d, e)'),
         \A e \in Envs : known'[e] = "gone" => known[e] = "gone"
  PROVE  DueStep
<1>1. \A e \in Envs, d \in LocalCalls : Due(d, e)' =>
        \/ Due(d, e) /\ child'[d].set = child[d].set
        \/ e \notin began' /\ child'[d].set = held'[e]
  <2>1. \A d \in LocalCalls \ {c} : \A e \in Envs : Due(d, e)' = Due(d, e) BY UntouchedDue
  <2>2. QED BY <2>1
<1>2. \A d \in LocalCalls : at'[d] \in {"stopping all", "removing"} =>
        /\ at[d] = at'[d] /\ target'[d] = target[d] /\ target'[d] \in began'
        /\ child'[d].set = child[d].set
  BY DEF CallsSound
<1>3. \A e \in Envs : known'[e] = "gone" => e \in began' BY DEF CallsSound
<1>4. QED BY <1>1, <1>2, <1>3 DEF DueStep

\* A process that starts enters the Set the Map holds from then on.
LEMMA SpawnDue ==
  ASSUME ExecutionTypeOK, CallsSound, InTheMap, NEW c \in LocalCalls, NEW e \in Envs,
         NEW kind \in {"build", "preview"}, NEW port \in Ports \cup {None},
         Spawned(c, e, kind, port), child[c] = NoChild, target'[c] = e,
         at'[c] \in {"running", "polling"}, UNCHANGED <<began, known>>,
         \A d \in LocalCalls \ {c} : target'[d] = target[d] /\ at'[d] = at[d]
  PROVE  DueStep
<1>1. /\ \A d \in LocalCalls : d # c => child'[d] = child[d]
      /\ child'[c].state = "alive" => child'[c].set = held'[e]
      /\ child'[c].tardy = (e \in began)
      /\ \A f \in Envs : held'[f] = held[f] \/ (f = e /\ held[e] = 0)
  BY Spawning
<1>2. \A f \in Envs : Due(c, f)' => f \notin began /\ child'[c].set = held'[f]
  BY <1>1 DEF Due, Alive
<1>3. \A f \in Envs : ~Due(c, f) BY DEF Due, Alive, NoChild, None
<1>4. ASSUME NEW f \in Envs, held'[f] # held[f], NEW d \in LocalCalls, Due(d, f) PROVE FALSE
  <2>1. child[d].set = held[f] /\ held[f] = 0 BY <1>1, <1>4 DEF InTheMap
  <2>2. child[d].set >= 1 BY <1>4 DEF CallsSound, Due
  <2>3. QED BY <2>1, <2>2
<1>5. QED BY <1>1, <1>2, <1>4, OneCallDue

LEMMA LocalDue ==
  ASSUME LocalIInv, ExecutionTypeOK', [ExecutionNext]_executionVars
  PROVE  DueStep
<1> USE DEF LocalIInv
<1>0. /\ at \in [LocalCalls -> {"idle", "running", "stopping", "port", "polling", "giving up",
                  "served", "writing", "stopping all", "removing", "done"}]
      /\ target \in [LocalCalls -> Envs \cup {None}] /\ child \in [LocalCalls -> Children]
      /\ known \in [Envs -> {"none", "ready", "gone"}]
      /\ held \in [Envs -> 0..sets] /\ sets \in Nat
  BY DEF ExecutionTypeOK, Children
<1>1. ASSUME NEW e \in Envs, CreateEnvironment(e) PROVE DueStep
  BY <1>0, <1>1, QuietDue DEF CreateEnvironment
<1>2. ASSUME NEW c \in LocalCalls, NEW e \in Envs, RunCommand(c, e) PROVE DueStep
  <2>1. Spawned(c, e, "build", None) BY <1>2 DEF RunCommand
  <2>2. /\ UNCHANGED <<began, known>> /\ at'[c] = "running" /\ target'[c] = e /\ at[c] = "idle"
        /\ \A d \in LocalCalls \ {c} : target'[d] = target[d] /\ at'[d] = at[d]
    BY <1>0, <1>2 DEF RunCommand, Starts
  <2>3. child[c] = NoChild BY <2>2 DEF CallsSound
  <2>4. QED BY <2>1, <2>2, <2>3, SpawnDue
<1>3. ASSUME NEW c \in LocalCalls, NEW e \in Envs, StartPreview(c, e) \/ WriteFile(c, e)
      PROVE  DueStep
  <2>1. /\ UNCHANGED <<began, known, held, child>> /\ at'[c] \in {"port", "writing"} /\ at[c] = "idle"
        /\ \A d \in LocalCalls \ {c} : target'[d] = target[d] /\ at'[d] = at[d]
    BY <1>0, <1>3 DEF StartPreview, WriteFile, Starts
  <2>2. child[c] = NoChild BY <2>1 DEF CallsSound
  <2>3. \A f \in Envs : ~Due(c, f)' BY <2>1, <2>2 DEF Due, Alive, NoChild, None
  <2>4. QED BY <2>1, <2>3, OneCallDue
<1>4. ASSUME NEW c \in LocalCalls, NEW e \in Envs, Destroy(c, e) PROVE DueStep
  <2>1. /\ UNCHANGED <<known, held>> /\ began' = began \cup {e} /\ at[c] = "idle"
        /\ at'[c] = "stopping all" /\ target'[c] = e
        /\ \A d \in LocalCalls \ {c} : target'[d] = target[d] /\ at'[d] = at[d]
    BY <1>0, <1>4 DEF Destroy, Starts
  <2>2. child' = [child EXCEPT ![c].set = held[e]] /\ child[c].state = None
    <3>1. child[c] = NoChild BY <2>1 DEF CallsSound
    <3>2. child[c].state = None BY <3>1 DEF NoChild
    <3>3. QED BY <1>4, <3>2 DEF Destroy
  <2>3. /\ \A d \in LocalCalls \ {c} : child'[d] = child[d]
        /\ child'[c].state = None /\ child'[c].set = held[e]
    BY <1>0, <2>2, ChildFields
  <2>4. \A f \in Envs : ~Due(c, f)' BY <2>3 DEF Due, Alive, None
  <2>5. \A d \in LocalCalls \ {c} : \A f \in Envs : Due(d, f)' = Due(d, f)
    BY <2>1, <2>3, UntouchedDue
  <2>6. \A f \in Envs, d \in LocalCalls : Due(d, f)' => Due(d, f) /\ child'[d].set = child[d].set
    BY <2>3, <2>4, <2>5
  <2>7. \A d \in LocalCalls : at'[d] = "stopping all" =>
          /\ target'[d] \in began'
          /\ \/ at[d] = "stopping all" /\ target'[d] = target[d] /\ child'[d].set = child[d].set
             \/ child'[d].set = held[target'[d]]
    BY <2>1, <2>3 DEF CallsSound
  <2>8. \A d \in LocalCalls : at'[d] = "removing" =>
          target'[d] \in began' /\ at[d] = "removing" /\ target'[d] = target[d]
    BY <2>1 DEF CallsSound
  <2>9. \A f \in Envs : known'[f] = "gone" => f \in began' /\ known[f] = "gone"
    BY <2>1 DEF CallsSound
  <2>10. QED BY <2>1, <2>6, <2>7, <2>8, <2>9 DEF DueStep
<1>5. ASSUME NEW c \in LocalCalls, Exits(c) PROVE DueStep
  <2>1. PICK how \in {"ok", "bad", "killed"} :
          child' = [child EXCEPT ![c].state = how, ![c].listens = FALSE]
    BY <1>5 DEF Exits
  <2>2. /\ child'[c].state = how /\ child'[c].set = child[c].set
        /\ \A d \in LocalCalls \ {c} : child'[d] = child[d]
        /\ UNCHANGED <<at, target, began, known>>
    BY <1>0, <1>5, <2>1, ChildFields DEF Exits
  <2>3. \A e \in Envs : ~Due(c, e)' BY <2>2 DEF Due, Alive
  <2>4. ASSUME NEW e \in Envs, held'[e] # held[e], NEW d \in LocalCalls, Due(d, e), d # c
        PROVE  FALSE
    <3>1. /\ {x \in LocalCalls \ {c} : Alive(x) /\ child[x].set = child[c].set} = {}
          /\ held[e] = child[c].set
      BY <1>0, <1>5, <2>4 DEF Exits, EntryWithout
    <3>2. child[d].set = held[e] /\ Alive(d) BY <2>4 DEF InTheMap, Due
    <3>3. QED BY <2>4, <3>1, <3>2
  <2>5. QED BY <2>2, <2>3, <2>4, OneCallDue
<1>6. ASSUME NEW c \in LocalCalls, Listens(c) \/ Resists(c) \/ TimesOut(c) PROVE DueStep
  <2>1. /\ child'[c].state = child[c].state /\ child'[c].set = child[c].set
        /\ child'[c].tardy = child[c].tardy
        /\ child[c].stubborn => child'[c].stubborn
        /\ \A d \in LocalCalls \ {c} : child'[d] = child[d] /\ at'[d] = at[d]
        /\ UNCHANGED <<target, held, began, known>>
        /\ at'[c] \in {"stopping all", "removing"} => at'[c] = at[c]
    BY <1>0, <1>6, ChildFields DEF Listens, Resists, TimesOut, Goes
  <2>2. \A e \in Envs : Due(c, e)' => Due(c, e) BY <2>1 DEF Due, Alive
  <2>3. QED BY <2>1, <2>2, OneCallDue
<1>7. ASSUME NEW c \in LocalCalls, SpawnPreview(c) PROVE DueStep
  <2>1. PICK port \in Ports : Spawned(c, target[c], "preview", port) BY <1>7 DEF SpawnPreview
  <2>2. /\ UNCHANGED <<began, known, target>> /\ at'[c] = "polling" /\ at[c] = "port"
        /\ \A d \in LocalCalls \ {c} : at'[d] = at[d]
    BY <1>0, <1>7 DEF SpawnPreview, Goes
  <2>3. child[c] = NoChild /\ target[c] \in Envs BY <2>2 DEF CallsSound
  <2>4. QED BY <2>1, <2>2, <2>3, SpawnDue
<1>8. ASSUME NEW c \in LocalCalls, MakeDirectories(c) PROVE DueStep
  <2>1. /\ child'[c].state = child[c].state
        /\ \A d \in LocalCalls \ {c} : child'[d] = child[d] /\ at'[d] = at[d]
        /\ UNCHANGED <<target, held, began, known>> /\ at[c] = "writing" /\ at'[c] = "done"
    BY <1>0, <1>8, ChildFields DEF MakeDirectories, Goes
  <2>2. child[c].state = None
    <3>1. child[c] = NoChild BY <2>1 DEF CallsSound
    <3>2. QED BY <3>1 DEF NoChild
  <2>3. \A e \in Envs : ~Due(c, e)' BY <2>1, <2>2 DEF Due, Alive, None
  <2>4. QED BY <2>1, <2>3, OneCallDue
<1>9. ASSUME NEW c \in LocalCalls, StopAllEnds(c) PROVE DueStep
  <2>1. /\ UNCHANGED <<child, target, began, known>> /\ at[c] = "stopping all" /\ at'[c] = "removing"
        /\ \A d \in LocalCalls \ {c} : at'[d] = at[d]
        /\ \A e \in Envs : e # target[c] => held'[e] = held[e]
    BY <1>0, <1>9 DEF StopAllEnds, Goes
  <2>2. ASSUME NEW d \in LocalCalls, Due(d, target[c]) PROVE FALSE
    <3>1. child[d].set = child[c].set BY <2>1, <2>2 DEF InTheLoop
    <3>2. d \in ToStop(c) BY <2>2, <3>1 DEF ToStop, Due
    <3>3. QED BY <1>9, <3>2 DEF StopAllEnds
  <2>3. \A e \in Envs, d \in LocalCalls : Due(d, e)' => Due(d, e) /\ child'[d].set = child[d].set
    BY <2>1, UntouchedDue
  <2>4. target[c] \in began /\ \A e \in Envs : known[e] = "gone" => e \in began
    BY <2>1 DEF CallsSound
  <2>5. \A d \in LocalCalls : at'[d] \in {"stopping all", "removing"} => target[d] \in began
    BY <2>1, <2>4 DEF CallsSound
  <2>6. QED BY <2>1, <2>2, <2>3, <2>4, <2>5 DEF DueStep
<1>10. ASSUME NEW c \in LocalCalls, RemoveWorkspace(c) PROVE DueStep
  <2>1. /\ UNCHANGED <<child, target, held, began>> /\ at[c] = "removing" /\ at'[c] = "done"
        /\ \A d \in LocalCalls \ {c} : at'[d] = at[d]
        /\ \A e \in Envs : known'[e] = known[e] \/ e = target[c]
    BY <1>0, <1>10 DEF RemoveWorkspace, Goes
  <2>2. \A d \in LocalCalls : ~Due(d, target[c]) BY <2>1 DEF NoneDue
  <2>3. \A e \in Envs, d \in LocalCalls : Due(d, e)' => Due(d, e) /\ child'[d].set = child[d].set
    BY <2>1, UntouchedDue
  <2>4. \A d \in LocalCalls : at'[d] \in {"stopping all", "removing"} =>
          at[d] = at'[d] /\ target[d] \in began
    BY <2>1 DEF CallsSound
  <2>5. target[c] \in began /\ \A e \in Envs : known[e] = "gone" => e \in began
    BY <2>1 DEF CallsSound
  <2>6. QED BY <2>1, <2>2, <2>3, <2>4, <2>5 DEF DueStep
<1>11. ASSUME NEW c \in LocalCalls,
              \/ CommandEnds(c) \/ CommandFails(c) \/ PreviewAnswers(c) \/ PreviewExited(c)
              \/ PreviewDeadline(c) \/ PreviewFails(c) \/ StopNext(c) \/ NextStopped(c)
              \/ RemovalFails(c)
       PROVE  DueStep
  <2>1. /\ UNCHANGED <<child, target, held, began, known>>
        /\ \A d \in LocalCalls : at'[d] \in {"stopping all", "removing"} => at'[d] = at[d]
    BY <1>0, <1>11 DEF CommandEnds, CommandFails, PreviewAnswers, PreviewExited, PreviewDeadline,
       PreviewFails, StopNext, NextStopped, RemovalFails, Goes
  <2>2. QED BY <2>1, QuietDue
<1>12. CASE UNCHANGED executionVars BY <1>12, QuietDue DEF executionVars
<1>13. QED
  BY <1>1, <1>2, <1>3, <1>4, <1>5, <1>6, <1>7, <1>8, <1>9, <1>10, <1>11, <1>12 DEF ExecutionNext

\* A step that moves one call keeps what is true of the calls.
LEMMA OneCallSound ==
  ASSUME CallsSound, NEW c \in LocalCalls, began \subseteq began',
         \A d \in LocalCalls \ {c} :
           child'[d] = child[d] /\ target'[d] = target[d] /\ at'[d] = at[d],
         at'[c] \in {"idle", "port", "writing"} => child'[c] = NoChild,
         at'[c] \in {"stopping all", "removing"} => child'[c].state = None /\ target'[c] \in began',
         at'[c] # "idle" => target'[c] \in Envs,
         Alive(c)' => child'[c].set >= 1,
         \A d \in pursued' : d \in pursued \/ child'[d].state # None,
         c \in pursued => child'[c].state # None,
         \A e \in Envs : known'[e] = "gone" => known[e] = "gone" \/ e \in began'
  PROVE  CallsSound'
<1>1. ASSUME NEW d \in LocalCalls \ {c}
      PROVE  /\ at'[d] \in {"idle", "port", "writing"} => child'[d] = NoChild
             /\ at'[d] \in {"stopping all", "removing"} => child'[d].state = None /\ target'[d] \in began'
             /\ at'[d] # "idle" => target'[d] \in Envs
             /\ Alive(d)' => child'[d].set >= 1
             /\ d \in pursued' => child'[d].state # None
  <2>1. child'[d] = child[d] /\ target'[d] = target[d] /\ at'[d] = at[d] OBVIOUS
  <2>2. QED BY <2>1 DEF CallsSound, Alive
<1>2. c \in pursued' => child'[c].state # None OBVIOUS
<1>3. \A e \in Envs : known'[e] = "gone" => e \in began' BY DEF CallsSound
<1>4. QED BY <1>1, <1>2, <1>3 DEF CallsSound

\* A step that decides no build.
LEMMA OneCallVerdict ==
  ASSUME ExecutionTypeOK, CallsSound, Verdicts, NEW c \in LocalCalls, UNCHANGED verdict,
         began \subseteq began',
         \A d \in LocalCalls \ {c} :
           child'[d] = child[d] /\ target'[d] = target[d] /\ at'[d] = at[d],
         at[c] = "done" => at'[c] = "done",
         child[c].state = "ok" => child'[c].state = "ok" \/ at[c] # "done",
         \A d \in pursued' : d \in pursued \/ Alive(d),
         c \in pursued' /\ at'[c] \in {"running", "stopping"} =>
           child'[c].timedOut \/ target'[c] \in began',
         \A d \in pursued' \ pursued : d # c /\ at[d] \in {"running", "stopping"} => target[d] \in began'
  PROVE  Verdicts'
<1>1. verdict \in [Envs -> LocalCalls \cup {None}] BY DEF ExecutionTypeOK
<1>2. ASSUME NEW d \in LocalCalls, d \in pursued', at'[d] \in {"running", "stopping"}
      PROVE  child'[d].timedOut \/ target'[d] \in began'
  <2>1. CASE d = c BY <1>2, <2>1
  <2>2. CASE d # c
    <3>1. child'[d] = child[d] /\ target'[d] = target[d] /\ at'[d] = at[d] BY <2>2
    <3>2. QED BY <1>2, <2>2, <3>1 DEF Verdicts
  <2>3. QED BY <2>1, <2>2
<1>3. ASSUME NEW e \in Envs, verdict[e] # None PROVE at'[verdict[e]] = "done"
  <2>1. verdict[e] \in LocalCalls /\ at[verdict[e]] = "done" BY <1>1, <1>3 DEF Verdicts
  <2>2. QED BY <2>1
<1>4. ASSUME NEW e \in Envs, verdict[e] # None, e \notin began'
      PROVE  child'[verdict[e]].state = "ok" /\ verdict[e] \notin pursued'
  <2>1. /\ verdict[e] \in LocalCalls /\ at[verdict[e]] = "done" /\ child[verdict[e]].state = "ok"
        /\ verdict[e] \notin pursued
    BY <1>1, <1>4 DEF Verdicts, VerdictIsTrue
  <2>2. child'[verdict[e]].state = "ok" BY <2>1
  <2>3. ~Alive(verdict[e]) BY <2>1 DEF Alive
  <2>4. QED BY <2>1, <2>2, <2>3
<1>5. QED BY <1>2, <1>3, <1>4 DEF Verdicts, VerdictIsTrue

\* A step that makes no directory of a destroyed environment.
LEMMA StillNoFolder ==
  ASSUME NoFolder,
         \A e \in Envs : known'[e] = "gone" /\ folder'[e] => known[e] = "gone" /\ folder[e],
         \A c \in LocalCalls : child[c].tardy => child'[c].tardy /\ target'[c] = target[c]
  PROVE  NoFolder'
BY DEF NoFolder

LEMMA LocalCallsMove ==
  ASSUME LocalIInv, ExecutionTypeOK', [ExecutionNext]_executionVars
  PROVE  CallsSound' /\ Verdicts' /\ NoFolder'
<1> USE DEF LocalIInv
<1>0. /\ at \in [LocalCalls -> {"idle", "running", "stopping", "port", "polling", "giving up",
                  "served", "writing", "stopping all", "removing", "done"}]
      /\ target \in [LocalCalls -> Envs \cup {None}] /\ child \in [LocalCalls -> Children]
      /\ known \in [Envs -> {"none", "ready", "gone"}] /\ folder \in [Envs -> BOOLEAN]
      /\ verdict \in [Envs -> LocalCalls \cup {None}]
  BY DEF ExecutionTypeOK, Children
<1>N. NoChild.state = None /\ ~NoChild.tardy BY DEF NoChild
<1>1. ASSUME NEW e \in Envs, CreateEnvironment(e) PROVE CallsSound' /\ Verdicts' /\ NoFolder'
  <2>1. /\ UNCHANGED <<at, target, child, verdict, began, pursued>>
        /\ \A f \in Envs : f # e => known'[f] = known[f] /\ folder'[f] = folder[f]
        /\ known'[e] = "ready"
    BY <1>0, <1>1 DEF CreateEnvironment
  <2>2. CallsSound' BY <2>1 DEF CallsSound, Alive
  <2>3. Verdicts' BY <2>1 DEF Verdicts, VerdictIsTrue
  <2>4. NoFolder' BY <2>1, StillNoFolder
  <2>5. QED BY <2>2, <2>3, <2>4
<1>2. ASSUME NEW c \in LocalCalls, NEW e \in Envs, RunCommand(c, e)
      PROVE  CallsSound' /\ Verdicts' /\ NoFolder'
  <2>1. Spawned(c, e, "build", None) BY <1>2 DEF RunCommand
  <2>2. /\ UNCHANGED <<began, known, folder, pursued, verdict>> /\ at[c] = "idle"
        /\ at'[c] = "running" /\ target'[c] = e
        /\ \A d \in LocalCalls \ {c} : target'[d] = target[d] /\ at'[d] = at[d]
    BY <1>0, <1>2 DEF RunCommand, Starts
  <2>3. /\ \A d \in LocalCalls : d # c => child'[d] = child[d]
        /\ child'[c].state \in {"alive", "failed"} /\ child'[c].set >= 1
    BY <2>1, Spawning
  <2>4. child[c] = NoChild /\ c \notin pursued BY <1>N, <2>2 DEF CallsSound
  <2>5. CallsSound'
    <3>1. child'[c].state # None BY <2>3 DEF None
    <3>2. QED BY <2>2, <2>3, <2>4, <3>1, OneCallSound
  <2>6. Verdicts' BY <1>N, <2>2, <2>3, <2>4, OneCallVerdict
  <2>7. NoFolder' BY <1>N, <2>2, <2>3, <2>4, StillNoFolder
  <2>8. QED BY <2>5, <2>6, <2>7
<1>3. ASSUME NEW c \in LocalCalls, NEW e \in Envs, StartPreview(c, e) \/ WriteFile(c, e)
      PROVE  CallsSound' /\ Verdicts' /\ NoFolder'
  <2>1. /\ UNCHANGED <<began, known, folder, pursued, verdict, child>> /\ at[c] = "idle"
        /\ at'[c] \in {"port", "writing"} /\ target'[c] = e
        /\ \A d \in LocalCalls \ {c} : target'[d] = target[d] /\ at'[d] = at[d]
    BY <1>0, <1>3 DEF StartPreview, WriteFile, Starts
  <2>2. child[c] = NoChild /\ c \notin pursued BY <1>N, <2>1 DEF CallsSound
  <2>3. ~Alive(c)' BY <1>N, <2>1, <2>2 DEF Alive, None
  <2>4. CallsSound' BY <2>1, <2>2, <2>3, OneCallSound
  <2>5. Verdicts' BY <1>N, <2>1, <2>2, OneCallVerdict
  <2>6. NoFolder' BY <1>N, <2>1, <2>2, StillNoFolder
  <2>7. QED BY <2>4, <2>5, <2>6
<1>4. ASSUME NEW c \in LocalCalls, NEW e \in Envs, Destroy(c, e)
      PROVE  CallsSound' /\ Verdicts' /\ NoFolder'
  <2>1. /\ UNCHANGED <<known, folder, pursued, verdict>> /\ at[c] = "idle"
        /\ began' = began \cup {e} /\ at'[c] = "stopping all" /\ target'[c] = e
        /\ \A d \in LocalCalls \ {c} : target'[d] = target[d] /\ at'[d] = at[d]
        /\ child' = [child EXCEPT ![c].set = held[e]]
    BY <1>0, <1>4 DEF Destroy, Starts
  <2>2. child[c] = NoChild /\ c \notin pursued BY <1>N, <2>1 DEF CallsSound
  <2>3. /\ \A d \in LocalCalls \ {c} : child'[d] = child[d]
        /\ child'[c].state = None /\ child'[c].tardy = child[c].tardy
    BY <1>0, <1>N, <2>1, <2>2, ChildFields
  <2>4. ~Alive(c)' BY <2>3 DEF Alive, None
  <2>5. CallsSound' BY <2>1, <2>2, <2>3, <2>4, OneCallSound
  <2>6. Verdicts' BY <1>N, <2>1, <2>2, <2>3, OneCallVerdict
  <2>7. NoFolder' BY <1>N, <2>1, <2>2, <2>3, StillNoFolder
  <2>8. QED BY <2>5, <2>6, <2>7
<1>5. ASSUME NEW c \in LocalCalls, Exits(c) PROVE CallsSound' /\ Verdicts' /\ NoFolder'
  <2>1. PICK how \in {"ok", "bad", "killed"} :
          child' = [child EXCEPT ![c].state = how, ![c].listens = FALSE]
    BY <1>5 DEF Exits
  <2>2. /\ child'[c].state = how /\ child'[c].set = child[c].set
        /\ child'[c].tardy = child[c].tardy /\ child'[c].timedOut = child[c].timedOut
        /\ \A d \in LocalCalls \ {c} : child'[d] = child[d]
        /\ UNCHANGED <<at, target, began, known, folder, pursued, verdict>> /\ Alive(c)
    BY <1>0, <1>5, <2>1, ChildFields DEF Exits
  <2>3. /\ at[c] \notin {"idle", "port", "writing", "stopping all", "removing"}
        /\ child'[c].state # None /\ ~Alive(c)' /\ child[c].state # "ok"
    BY <1>N, <2>2 DEF CallsSound, Alive, None
  <2>4. CallsSound'
    <3>1. at[c] # "idle" => target[c] \in Envs BY DEF CallsSound
    <3>2. QED BY <2>2, <2>3, <3>1, OneCallSound
  <2>5. Verdicts'
    <3>1. c \in pursued /\ at[c] \in {"running", "stopping"} =>
            child[c].timedOut \/ target[c] \in began
      BY DEF Verdicts
    <3>2. QED BY <2>2, <2>3, <3>1, OneCallVerdict
  <2>6. NoFolder' BY <2>2, StillNoFolder
  <2>7. QED BY <2>4, <2>5, <2>6
<1>6. ASSUME NEW c \in LocalCalls, Listens(c) \/ Resists(c) \/ TimesOut(c)
      PROVE  CallsSound' /\ Verdicts' /\ NoFolder'
  <2>1. /\ child'[c].state = child[c].state /\ child'[c].set = child[c].set
        /\ child'[c].tardy = child[c].tardy
        /\ child'[c].timedOut = child[c].timedOut \/ child'[c].timedOut
        /\ \A d \in LocalCalls \ {c} : child'[d] = child[d] /\ at'[d] = at[d]
        /\ UNCHANGED <<target, began, known, folder, verdict>>
        /\ at'[c] = at[c] \/ (at[c] = "running" /\ at'[c] = "stopping" /\ child'[c].timedOut)
        /\ Alive(c) \/ at[c] = "running"
        /\ pursued' = pursued \/ (pursued' = pursued \cup {c} /\ Alive(c) /\ child'[c].timedOut)
    <3>1. CASE Listens(c)
      BY <1>0, <3>1, ChildFields DEF Listens, Alive, None
    <3>2. CASE Resists(c)
      BY <1>0, <3>2, ChildFields DEF Resists, Alive, None
    <3>3. CASE TimesOut(c)
      BY <1>0, <3>3, ChildFields DEF TimesOut, Goes
    <3>4. QED BY <1>6, <3>1, <3>2, <3>3
  <2>2. /\ at[c] \notin {"idle", "port", "writing", "stopping all", "removing"}
        /\ target[c] \in Envs /\ (Alive(c)' => child'[c].set >= 1)
        /\ (c \in pursued => child[c].state # None) /\ (Alive(c) => child[c].state # None)
    BY <1>N, <2>1 DEF CallsSound, Alive, None
  <2>3. CallsSound' BY <2>1, <2>2, OneCallSound
  <2>4. Verdicts'
    <3>1. c \in pursued /\ at[c] \in {"running", "stopping"} =>
            child[c].timedOut \/ target[c] \in began
      BY DEF Verdicts
    <3>2. QED BY <2>1, <2>2, <3>1, OneCallVerdict
  <2>5. NoFolder' BY <2>1, StillNoFolder
  <2>6. QED BY <2>3, <2>4, <2>5
<1>7. ASSUME NEW c \in LocalCalls, SpawnPreview(c) PROVE CallsSound' /\ Verdicts' /\ NoFolder'
  <2>1. PICK port \in Ports : Spawned(c, target[c], "preview", port) BY <1>7 DEF SpawnPreview
  <2>2. /\ UNCHANGED <<began, known, target, folder, pursued, verdict>>
        /\ at'[c] = "polling" /\ at[c] = "port"
        /\ \A d \in LocalCalls \ {c} : at'[d] = at[d]
    BY <1>0, <1>7 DEF SpawnPreview, Goes
  <2>3. child[c] = NoChild /\ target[c] \in Envs /\ c \notin pursued BY <1>N, <2>2 DEF CallsSound
  <2>4. /\ \A d \in LocalCalls : d # c => child'[d] = child[d]
        /\ child'[c].state \in {"alive", "failed"} /\ child'[c].set >= 1
    BY <2>1, <2>3, Spawning
  <2>5. CallsSound'
    <3>1. child'[c].state # None BY <2>4 DEF None
    <3>2. QED BY <2>2, <2>3, <2>4, <3>1, OneCallSound
  <2>6. Verdicts' BY <1>N, <2>2, <2>3, <2>4, OneCallVerdict
  <2>7. NoFolder' BY <1>N, <2>2, <2>3, <2>4, StillNoFolder
  <2>8. QED BY <2>5, <2>6, <2>7
<1>8. ASSUME NEW c \in LocalCalls, MakeDirectories(c) PROVE CallsSound' /\ Verdicts' /\ NoFolder'
  <2>1. /\ child' = [child EXCEPT ![c].tardy = target[c] \in began]
        /\ \A d \in LocalCalls \ {c} : child'[d] = child[d] /\ at'[d] = at[d]
        /\ UNCHANGED <<target, held, began, known, pursued, verdict>>
        /\ at[c] = "writing" /\ at'[c] = "done"
        /\ \A e \in Envs : e # target[c] => folder'[e] = folder[e]
    BY <1>0, <1>8 DEF MakeDirectories, Goes
  <2>2. /\ child[c] = NoChild /\ target[c] \in Envs /\ c \notin pursued
        /\ \A e \in Envs : known[e] = "gone" => e \in began
    BY <1>N, <2>1 DEF CallsSound
  <2>3. child'[c].state = None /\ child'[c].tardy = (target[c] \in began)
    <3>1. child'[c].state = child[c].state /\ child'[c].tardy = (target[c] \in began)
      BY <2>1, ChildFields, Zenon
    <3>2. QED BY <1>N, <2>2, <3>1
  <2>4. ~Alive(c)' BY <2>3 DEF Alive, None
  <2>5. CallsSound' BY <2>1, <2>2, <2>3, <2>4, OneCallSound
  <2>6. Verdicts' BY <1>N, <2>1, <2>2, <2>3, OneCallVerdict
  <2>7. NoFolder'
    <3>1. ASSUME NEW e \in Envs, known'[e] = "gone", folder'[e], ~KeepWorkspace
          PROVE  \E d \in LocalCalls : target'[d] = e /\ child'[d].tardy
      <4>1. CASE e = target[c] BY <2>1, <2>2, <2>3, <3>1, <4>1
      <4>2. CASE e # target[c]
        <5>1. PICK d \in LocalCalls : target[d] = e /\ child[d].tardy
          BY <2>1, <3>1, <4>2 DEF NoFolder
        <5>2. QED BY <2>1, <4>2, <5>1
      <4>3. QED BY <4>1, <4>2
    <3>2. QED BY <3>1, ExecutionAssumption DEF NoFolder
  <2>8. QED BY <2>5, <2>6, <2>7
<1>9. ASSUME NEW c \in LocalCalls, StopAllEnds(c) PROVE CallsSound' /\ Verdicts' /\ NoFolder'
  <2>1. /\ UNCHANGED <<child, target, began, known, folder, pursued, verdict>>
        /\ at[c] = "stopping all" /\ at'[c] = "removing"
        /\ \A d \in LocalCalls \ {c} : at'[d] = at[d]
    BY <1>0, <1>9 DEF StopAllEnds, Goes
  <2>2. /\ child[c].state = None /\ target[c] \in began /\ target[c] \in Envs /\ c \notin pursued
    BY <2>1 DEF CallsSound
  <2>3. ~Alive(c)' BY <2>1, <2>2 DEF Alive, None
  <2>4. CallsSound' BY <2>1, <2>2, <2>3, OneCallSound
  <2>5. Verdicts' BY <2>1, <2>2, OneCallVerdict
  <2>6. NoFolder' BY <2>1, StillNoFolder
  <2>7. QED BY <2>4, <2>5, <2>6
<1>10. ASSUME NEW c \in LocalCalls, RemoveWorkspace(c) \/ RemovalFails(c)
       PROVE  CallsSound' /\ Verdicts' /\ NoFolder'
  <2>1. /\ UNCHANGED <<child, target, began, pursued, verdict>>
        /\ at[c] = "removing" /\ at'[c] = "done"
        /\ \A d \in LocalCalls \ {c} : at'[d] = at[d]
        /\ \A e \in Envs : e # target[c] => known'[e] = known[e] /\ folder'[e] = folder[e]
        /\ ~KeepWorkspace /\ target[c] \in Envs => UNCHANGED <<known, folder>> \/ ~folder'[target[c]]
    BY <1>0, <1>10 DEF RemoveWorkspace, RemovalFails, Goes
  <2>2. /\ child[c].state = None /\ target[c] \in began /\ target[c] \in Envs /\ c \notin pursued
    BY <2>1 DEF CallsSound
  <2>3. ~Alive(c)' BY <2>1, <2>2 DEF Alive, None
  <2>4. CallsSound' BY <2>1, <2>2, <2>3, OneCallSound
  <2>5. Verdicts' BY <2>1, <2>2, OneCallVerdict
  <2>6. NoFolder'
    <3>1. CASE KeepWorkspace BY <3>1 DEF NoFolder
    <3>2. CASE ~KeepWorkspace BY <2>1, <2>2, <3>2, StillNoFolder
    <3>3. QED BY <3>1, <3>2
  <2>7. QED BY <2>4, <2>5, <2>6
<1>11. ASSUME NEW c \in LocalCalls,
              \/ CommandFails(c) \/ PreviewAnswers(c) \/ PreviewExited(c) \/ PreviewFails(c)
              \/ PreviewDeadline(c)
       PROVE  CallsSound' /\ Verdicts' /\ NoFolder'
  <2>1. /\ UNCHANGED <<child, target, began, known, folder, verdict>>
        /\ at[c] \in {"running", "polling", "giving up"} /\ at'[c] \in {"served", "done", "giving up"}
        /\ \A d \in LocalCalls \ {c} : at'[d] = at[d]
        /\ pursued' = pursued \/ (pursued' = pursued \cup {c} /\ Alive(c))
    BY <1>0, <1>11 DEF CommandFails, PreviewAnswers, PreviewExited, PreviewFails, PreviewDeadline, Goes
  <2>2. /\ target[c] \in Envs /\ (Alive(c) => child[c].set >= 1)
        /\ (c \in pursued => child[c].state # None) /\ (Alive(c) => child[c].state # None)
    BY <2>1 DEF CallsSound, Alive, None
  <2>3. Alive(c)' = Alive(c) BY <2>1 DEF Alive
  <2>4. CallsSound' BY <2>1, <2>2, <2>3, OneCallSound
  <2>5. Verdicts' BY <2>1, <2>2, OneCallVerdict
  <2>6. NoFolder' BY <2>1, StillNoFolder
  <2>7. QED BY <2>4, <2>5, <2>6
<1>12. ASSUME NEW c \in LocalCalls, CommandEnds(c) PROVE CallsSound' /\ Verdicts' /\ NoFolder'
  <2>1. /\ UNCHANGED <<child, target, began, known, folder, pursued>>
        /\ at[c] \in {"running", "stopping"} /\ at'[c] = "done"
        /\ \A d \in LocalCalls \ {c} : at'[d] = at[d]
        /\ verdict' = [verdict EXCEPT ![target[c]] = IF Succeeded(c) THEN c ELSE None]
    BY <1>0, <1>12 DEF CommandEnds, Goes
  <2>2. /\ target[c] \in Envs /\ (Alive(c) => child[c].set >= 1)
        /\ (c \in pursued => child[c].state # None)
    BY <2>1 DEF CallsSound, Alive
  <2>3. Alive(c)' = Alive(c) BY <2>1 DEF Alive
  <2>4. CallsSound' BY <2>1, <2>2, <2>3, OneCallSound
  <2>5. Verdicts'
    <3>1. c \in pursued => child[c].timedOut \/ target[c] \in began BY <2>1 DEF Verdicts
    <3>2. ASSUME NEW e \in Envs, verdict'[e] # None
          PROVE  /\ at'[verdict'[e]] = "done"
                 /\ e \notin began => child[verdict'[e]].state = "ok" /\ verdict'[e] \notin pursued
      <4>1. CASE e = target[c]
        <5>1. verdict'[e] = c /\ Succeeded(c) BY <1>0, <2>1, <3>2, <4>1
        <5>2. QED BY <2>1, <3>1, <4>1, <5>1 DEF Succeeded
      <4>2. CASE e # target[c]
        <5>1. verdict'[e] = verdict[e] BY <1>0, <2>1, <4>2
        <5>2. verdict[e] \in LocalCalls /\ at[verdict[e]] = "done" /\ verdict[e] # c
          BY <1>0, <2>1, <3>2, <5>1 DEF Verdicts
        <5>3. QED BY <2>1, <3>2, <5>1, <5>2 DEF Verdicts, VerdictIsTrue
      <4>3. QED BY <4>1, <4>2
    <3>3. \A d \in LocalCalls : d \in pursued' /\ at'[d] \in {"running", "stopping"} =>
            child'[d].timedOut \/ target'[d] \in began'
      BY <2>1 DEF Verdicts
    <3>4. QED BY <2>1, <3>2, <3>3 DEF Verdicts, VerdictIsTrue
  <2>6. NoFolder' BY <2>1, StillNoFolder
  <2>7. QED BY <2>4, <2>5, <2>6
<1>13. ASSUME NEW c \in LocalCalls, StopNext(c) PROVE CallsSound' /\ Verdicts' /\ NoFolder'
  <2>1. PICK d \in ToStop(c) : pursued' = pursued \cup {d} BY <1>13 DEF StopNext
  <2>2. UNCHANGED <<at, child, target, began, known, folder, verdict>> /\ at[c] = "stopping all"
    BY <1>13 DEF StopNext
  <2>3. /\ d \in LocalCalls /\ Alive(d) /\ target[d] = target[c] /\ target[d] \in began
        /\ child[d].state # None
    BY <2>1, <2>2 DEF ToStop, CallsSound, Alive, None
  <2>4. CallsSound' BY <2>1, <2>2, <2>3 DEF CallsSound, Alive
  <2>5. Verdicts'
    <3>1. \A x \in LocalCalls : x \in pursued' /\ at'[x] \in {"running", "stopping"} =>
            child'[x].timedOut \/ target'[x] \in began'
      BY <2>1, <2>2, <2>3 DEF Verdicts
    <3>2. \A e \in Envs : verdict[e] # None => at[verdict[e]] = "done"
      BY DEF Verdicts
    <3>3. VerdictIsTrue' BY <2>1, <2>2, <2>3 DEF Verdicts, VerdictIsTrue, Alive
    <3>4. QED BY <2>2, <3>1, <3>2, <3>3 DEF Verdicts
  <2>6. NoFolder' BY <2>2, StillNoFolder
  <2>7. QED BY <2>4, <2>5, <2>6
<1>14. CASE UNCHANGED <<at, child, target, began, known, folder, verdict, pursued>>
  BY <1>14 DEF CallsSound, Verdicts, VerdictIsTrue, NoFolder, Alive
<1>15. QED
  BY <1>1, <1>2, <1>3, <1>4, <1>5, <1>6, <1>7, <1>8, <1>9, <1>10, <1>11, <1>12, <1>13, <1>14
     DEF ExecutionNext, executionVars, NextStopped

LEMMA LocalStep ==
  ASSUME LocalIInv, [ExecutionNext]_executionVars
  PROVE  LocalIInv'
<1>1. ExecutionTypeOK' BY LocalTypes
<1>2. began' \subseteq Envs BY <1>1 DEF ExecutionTypeOK
<1>3. DueStep BY <1>1, LocalDue
<1>4. InTheMap' /\ InTheLoop' /\ NoneDue' BY <1>2, <1>3, DueIsKept DEF LocalIInv
<1>5. CallsSound' /\ Verdicts' /\ NoFolder' BY <1>1, LocalCallsMove
<1>6. QED BY <1>1, <1>4, <1>5 DEF LocalIInv

LEMMA LocalHolds ==
  ASSUME LocalIInv
  PROVE  GoneIsGone /\ VerdictIsTrue
BY DEF LocalIInv, NoneDue, Due, NoFolder, Verdicts, GoneIsGone

-----------------------------------------------------------------------------
(* DaytonaExecution: environments in remote sandboxes *)

\* A sandbox the provider knows has its handle, and a call that began on one holds it;
\* one that is not made yet does not run.
Handled ==
  /\ \A s \in Sandboxes : Known(s) => s \in handle
  /\ \A s \in Sandboxes : making[s] # "over" => state[s] = "none"
  /\ \A s \in Sandboxes : making[s] = "folder" => s \in handle
  /\ \A s \in Sandboxes : making[s] = "no" => s \notin running
  /\ \A c \in DaytonaCalls, s \in Sandboxes, operation \in {"build", "preview", "delete"} :
       Awaits(c, s, operation) => Held(c) /\ state[s] # "none"

DaytonaIInv == DaytonaTypeOK /\ Handled /\ RunningIsOwned

Operations == {"build", "preview", "delete"} \X Sandboxes \X BOOLEAN

LEMMA DaytonaStart ==
  ASSUME DaytonaInit
  PROVE  DaytonaIInv
<1> USE DaytonaAssumption DEF DaytonaInit
<1>1. DaytonaTypeOK
  <2>1. attempts \in 0..MaxAttempts OBVIOUS
  <2>2. QED BY <2>1 DEF DaytonaTypeOK
<1>2. \A c \in DaytonaCalls, s \in Sandboxes, operation \in {"build", "preview", "delete"} :
        ~Awaits(c, s, operation)
  BY DEF Awaits, Idle
<1>3. Handled BY <1>2 DEF Handled, Known
<1>4. QED BY <1>1, <1>3 DEF DaytonaIInv, RunningIsOwned

\* A call takes up an operation on a sandbox that is known, and so held.
LEMMA Begun ==
  ASSUME DaytonaTypeOK, Handled, NEW c \in DaytonaCalls, NEW s \in Sandboxes,
         NEW operation \in {"build", "preview", "delete"}, Begin(c, s, operation)
  PROVE  /\ does' \in [DaytonaCalls -> {Idle} \cup Operations]
         /\ Known(s) /\ s \in handle
         /\ \A d \in DaytonaCalls, t \in Sandboxes, o \in {"build", "preview", "delete"} :
              Awaits(d, t, o)' => Awaits(d, t, o) \/ (d = c /\ t = s /\ Held(d)')
         /\ does[c] = Idle /\ \A d \in DaytonaCalls : d # c => does'[d] = does[d]
<1>1. does \in [DaytonaCalls -> {Idle} \cup Operations] BY DEF DaytonaTypeOK, Operations
<1>2. s \in handle /\ Known(s) BY DEF Begin, Handled
<1>3. does'[c] = <<operation, s, TRUE>> /\ \A d \in DaytonaCalls : d # c => does'[d] = does[d]
  BY <1>1, <1>2 DEF Begin
<1>4. <<operation, s, TRUE>> \in Operations BY DEF Operations
<1>5. does' \in [DaytonaCalls -> {Idle} \cup Operations]
  <2>1. \A d \in DaytonaCalls : does'[d] \in {Idle} \cup Operations BY <1>1, <1>3, <1>4
  <2>2. QED BY <1>1, <2>1 DEF Begin
<1>6. ASSUME NEW d \in DaytonaCalls, NEW t \in Sandboxes, NEW o \in {"build", "preview", "delete"},
             Awaits(d, t, o)'
      PROVE  Awaits(d, t, o) \/ (d = c /\ t = s /\ Held(d)')
  <2>1. CASE d # c BY <1>3, <1>6, <2>1 DEF Awaits
  <2>2. CASE d = c
    <3>1. PICK h \in BOOLEAN : <<operation, s, TRUE>> = <<o, t, h>> BY <1>3, <1>6, <2>2 DEF Awaits
    <3>2. t = s BY <3>1
    <3>3. does'[c][3] = TRUE BY <1>3
    <3>4. QED BY <2>2, <3>2, <3>3 DEF Held
  <2>3. QED BY <2>1, <2>2
<1>7. QED BY <1>2, <1>3, <1>5, <1>6 DEF Begin

LEMMA BegunHeld ==
  ASSUME Handled, NEW c \in DaytonaCalls, NEW s \in Sandboxes, Known(s),
         \A d \in DaytonaCalls, t \in Sandboxes, o \in {"build", "preview", "delete"} :
           Awaits(d, t, o)' => Awaits(d, t, o) \/ (d = c /\ t = s /\ Held(d)'),
         \A d \in DaytonaCalls : d # c => does'[d] = does[d],
         does[c] = Idle
  PROVE  \A d \in DaytonaCalls, t \in Sandboxes, o \in {"build", "preview", "delete"} :
           Awaits(d, t, o)' => Held(d)' /\ state[t] # "none"
<1>1. ASSUME NEW d \in DaytonaCalls, NEW t \in Sandboxes, NEW o \in {"build", "preview", "delete"},
             Awaits(d, t, o)'
      PROVE  Held(d)' /\ state[t] # "none"
  <2>1. CASE d = c /\ t = s /\ Held(d)' BY <2>1 DEF Known
  <2>2. CASE Awaits(d, t, o)
    <3>1. d # c BY <2>2 DEF Awaits, Idle
    <3>2. QED BY <2>2, <3>1 DEF Handled, Held
  <2>3. QED BY <1>1, <2>1, <2>2
<1>2. QED BY <1>1

LEMMA Ended ==
  ASSUME DaytonaTypeOK, NEW c \in DaytonaCalls, Ends(c)
  PROVE  /\ does' \in [DaytonaCalls -> {Idle} \cup Operations]
         /\ \A d \in DaytonaCalls, t \in Sandboxes, o \in {"build", "preview", "delete"} :
              Awaits(d, t, o)' => Awaits(d, t, o) /\ Held(d)' = Held(d)
<1>1. does \in [DaytonaCalls -> {Idle} \cup Operations] BY DEF DaytonaTypeOK, Operations
<1>2. does'[c] = Idle /\ \A d \in DaytonaCalls : d # c => does'[d] = does[d]
  BY <1>1 DEF Ends
<1>3. does' \in [DaytonaCalls -> {Idle} \cup Operations]
  BY <1>1 DEF Ends
<1>4. ASSUME NEW d \in DaytonaCalls, NEW t \in Sandboxes, NEW o \in {"build", "preview", "delete"},
             Awaits(d, t, o)'
      PROVE  Awaits(d, t, o) /\ Held(d)' = Held(d)
  <2>1. CASE d = c BY <1>2, <1>4, <2>1 DEF Awaits, Idle
  <2>2. CASE d # c BY <1>2, <1>4, <2>2 DEF Awaits, Held
  <2>3. QED BY <2>1, <2>2
<1>5. QED BY <1>3, <1>4

\* Nothing new is awaited: what is left of the invariant then.
LEMMA HandledStays ==
  ASSUME Handled,
         \A d \in DaytonaCalls, t \in Sandboxes, o \in {"build", "preview", "delete"} :
           Awaits(d, t, o)' => Awaits(d, t, o) /\ Held(d)' = Held(d),
         \A t \in Sandboxes : Known(t)' => t \in handle',
         \A t \in Sandboxes : making'[t] # "over" => state'[t] = "none",
         \A t \in Sandboxes : making'[t] = "folder" => t \in handle',
         \A t \in Sandboxes : making'[t] = "no" => t \notin running',
         \A t \in Sandboxes : state'[t] = "none" => state[t] = "none"
  PROVE  Handled'
BY DEF Handled

LEMMA DaytonaStep ==
  ASSUME DaytonaIInv, [DaytonaNext]_daytonaVars
  PROVE  DaytonaIInv'
<1> USE DaytonaAssumption DEF DaytonaIInv
<1>0. /\ running \subseteq Sandboxes /\ handle \subseteq Sandboxes /\ half \subseteq Sandboxes
      /\ state \in [Sandboxes -> {"none", "ACTIVE", "CLEANUP_REQUESTED", "CLEANUP_FAILED", "CLEANED"}]
      /\ making \in [Sandboxes -> {"no", "folder", "over"}]
  BY DEF DaytonaTypeOK
<1>1. ASSUME NEW s \in Sandboxes, AskSandbox(s) PROVE DaytonaIInv'
  <2>1. /\ UNCHANGED <<state, does>> /\ making'[s] \in {"folder", "over"} /\ making[s] = "no"
        /\ \A t \in Sandboxes \ {s} : making'[t] = making[t]
        /\ running' = running \/ running' = running \cup {s}
        /\ handle' = handle \/ handle' = handle \cup {s}
        /\ making'[s] = "folder" => s \in handle'
        /\ s \in running' => making'[s] = "folder" \/ s \in half'
        /\ half \subseteq half' /\ half' \subseteq half \cup {s}
    BY <1>0, <1>1 DEF AskSandbox, Handled
  <2>2. DaytonaTypeOK' BY <1>1 DEF AskSandbox, DaytonaTypeOK
  <2>3. Handled' BY <2>1 DEF Handled, Known, Awaits, Held
  <2>4. RunningIsOwned' BY <1>0, <2>1 DEF RunningIsOwned, Known
  <2>5. QED BY <2>2, <2>3, <2>4
<1>2. ASSUME NEW s \in Sandboxes, PrepareSandbox(s) PROVE DaytonaIInv'
  <2>1. /\ UNCHANGED <<running, handle, does>> /\ making'[s] = "over" /\ making[s] = "folder"
        /\ \A t \in Sandboxes \ {s} : making'[t] = making[t] /\ state'[t] = state[t]
        /\ \/ s \in running /\ state'[s] = "ACTIVE" /\ UNCHANGED half
           \/ half' = half \cup {s} /\ state'[s] = state[s]
    BY <1>0, <1>2 DEF PrepareSandbox
  <2>2. DaytonaTypeOK' BY <1>2 DEF PrepareSandbox, DaytonaTypeOK
  <2>3. s \in handle /\ state[s] = "none" BY <2>1 DEF Handled
  <2>4. Handled' BY <2>1, <2>3 DEF Handled, Known, Awaits, Held
  <2>5. RunningIsOwned' BY <1>0, <2>1, <2>3 DEF RunningIsOwned, Known
  <2>6. QED BY <2>2, <2>4, <2>5
<1>3. ASSUME NEW s \in Sandboxes, Expires(s) PROVE DaytonaIInv'
  BY <1>3 DEF Expires, DaytonaTypeOK, Handled, RunningIsOwned, Known, Awaits, Held
<1>4. ASSUME NEW c \in DaytonaCalls, NEW s \in Sandboxes, ExecuteBuild(c, s) \/ LaunchPreview(c, s)
      PROVE  DaytonaIInv'
  <2>1. Begin(c, s, "build") \/ Begin(c, s, "preview") BY <1>4 DEF ExecuteBuild, LaunchPreview
  <2>2. UNCHANGED <<running, handle, state, making, session, lastBuild, attempts, half>>
    BY <1>4 DEF ExecuteBuild, LaunchPreview
  <2>3. /\ does' \in [DaytonaCalls -> {Idle} \cup Operations]
        /\ Known(s) /\ s \in handle
        /\ \A d \in DaytonaCalls, t \in Sandboxes, o \in {"build", "preview", "delete"} :
             Awaits(d, t, o)' => Awaits(d, t, o) \/ (d = c /\ t = s /\ Held(d)')
        /\ does[c] = Idle /\ \A d \in DaytonaCalls : d # c => does'[d] = does[d]
    BY <2>1, Begun
  <2>4. \A d \in DaytonaCalls, t \in Sandboxes, o \in {"build", "preview", "delete"} :
          Awaits(d, t, o)' => Held(d)' /\ state[t] # "none"
    BY <2>2, <2>3, BegunHeld
  <2>5. DaytonaTypeOK' BY <2>2, <2>3 DEF DaytonaTypeOK, Operations
  <2>6. Handled' BY <2>2, <2>4 DEF Handled, Known
  <2>7. RunningIsOwned' BY <2>2 DEF RunningIsOwned, Known
  <2>8. QED BY <2>5, <2>6, <2>7
<1>5. ASSUME NEW c \in DaytonaCalls, NEW s \in Sandboxes, RequestCleanup(c, s) PROVE DaytonaIInv'
  <2>1. Begin(c, s, "delete") BY <1>5 DEF RequestCleanup
  <2>2. /\ UNCHANGED <<running, handle, making, session, lastBuild, half>>
        /\ state' = [state EXCEPT ![s] = "CLEANUP_REQUESTED"]
    BY <1>5 DEF RequestCleanup
  <2>3. /\ does' \in [DaytonaCalls -> {Idle} \cup Operations]
        /\ Known(s) /\ s \in handle
        /\ \A d \in DaytonaCalls, t \in Sandboxes, o \in {"build", "preview", "delete"} :
             Awaits(d, t, o)' => Awaits(d, t, o) \/ (d = c /\ t = s /\ Held(d)')
        /\ does[c] = Idle /\ \A d \in DaytonaCalls : d # c => does'[d] = does[d]
    BY <2>1, Begun
  <2>4. \A d \in DaytonaCalls, t \in Sandboxes, o \in {"build", "preview", "delete"} :
          Awaits(d, t, o)' => Held(d)' /\ state[t] # "none"
    BY <2>3, BegunHeld
  <2>5. attempts' \in 0..MaxAttempts BY <1>5 DEF RequestCleanup, DaytonaTypeOK
  <2>6. DaytonaTypeOK' BY <2>2, <2>3, <2>5 DEF DaytonaTypeOK, Operations
  <2>7. making[s] = "over" BY <1>0, <2>3 DEF Handled, Known
  <2>8. Handled' BY <1>0, <2>2, <2>3, <2>4, <2>7 DEF Handled, Known
  <2>9. RunningIsOwned' BY <1>0, <2>2, <2>3 DEF RunningIsOwned, Known
  <2>10. QED BY <2>6, <2>8, <2>9
<1>6. ASSUME NEW c \in DaytonaCalls, NEW s \in Sandboxes,
             BuildAnswers(c, s) \/ BuildThrows(c, s) \/ PreviewLaunched(c, s)
      PROVE  DaytonaIInv'
  <2>1. Ends(c) /\ UNCHANGED <<running, handle, state, making, attempts, half>>
    BY <1>6 DEF BuildAnswers, BuildThrows, PreviewLaunched
  <2>2. /\ session' \in [Sandboxes -> BOOLEAN]
        /\ lastBuild' \in [Sandboxes -> {"none", "ok", "bad", "timeout"}]
    <3>1. /\ session \in [Sandboxes -> BOOLEAN]
          /\ lastBuild \in [Sandboxes -> {"none", "ok", "bad", "timeout"}]
      BY DEF DaytonaTypeOK
    <3>2. CASE BuildAnswers(c, s)
      <4>1. PICK result \in {"bad", "timeout", "ok"} : lastBuild' = [lastBuild EXCEPT ![s] = result]
        BY <3>2 DEF BuildAnswers
      <4>2. QED BY <3>1, <3>2, <4>1 DEF BuildAnswers
    <3>3. CASE BuildThrows(c, s) BY <3>1, <3>3 DEF BuildThrows
    <3>4. CASE PreviewLaunched(c, s) BY <3>1, <3>4 DEF PreviewLaunched
    <3>5. QED BY <1>6, <3>2, <3>3, <3>4
  <2>3. /\ does' \in [DaytonaCalls -> {Idle} \cup Operations]
        /\ \A d \in DaytonaCalls, t \in Sandboxes, o \in {"build", "preview", "delete"} :
             Awaits(d, t, o)' => Awaits(d, t, o) /\ Held(d)' = Held(d)
    BY <2>1, Ended
  <2>4. DaytonaTypeOK' BY <2>1, <2>2, <2>3 DEF DaytonaTypeOK, Operations
  <2>5. Handled' BY <2>1, <2>3, HandledStays DEF Handled, Known
  <2>6. RunningIsOwned' BY <2>1 DEF RunningIsOwned, Known
  <2>7. QED BY <2>4, <2>5, <2>6
<1>7. ASSUME NEW c \in DaytonaCalls, NEW s \in Sandboxes, Cleaned(c, s) PROVE DaytonaIInv'
  <2>1. Ends(c) /\ Awaits(c, s, "delete") /\ UNCHANGED <<making, session, lastBuild, attempts, half>>
    BY <1>7 DEF Cleaned
  <2>2. Held(c) /\ state[s] # "none" BY <2>1 DEF Handled
  <2>3. /\ running' = running \ {s} /\ handle' = handle \ {s}
        /\ state' = [state EXCEPT ![s] = "CLEANED"]
    BY <1>7, <2>2 DEF Cleaned
  <2>4. /\ does' \in [DaytonaCalls -> {Idle} \cup Operations]
        /\ \A d \in DaytonaCalls, t \in Sandboxes, o \in {"build", "preview", "delete"} :
             Awaits(d, t, o)' => Awaits(d, t, o) /\ Held(d)' = Held(d)
    BY <2>1, Ended
  <2>5. DaytonaTypeOK' BY <2>1, <2>3, <2>4 DEF DaytonaTypeOK, Operations
  <2>6. making[s] = "over" BY <1>0, <2>2 DEF Handled
  <2>7. Handled' BY <1>0, <2>1, <2>3, <2>4, <2>6, HandledStays DEF Handled, Known
  <2>8. RunningIsOwned' BY <1>0, <2>1, <2>3 DEF RunningIsOwned, Known
  <2>9. QED BY <2>5, <2>7, <2>8
<1>8. ASSUME NEW c \in DaytonaCalls, NEW s \in Sandboxes, CleanupFails(c, s) PROVE DaytonaIInv'
  <2>1. Ends(c) /\ Awaits(c, s, "delete")
        /\ UNCHANGED <<handle, making, session, lastBuild, attempts, half>>
    BY <1>8 DEF CleanupFails
  <2>2. state[s] # "none" BY <2>1 DEF Handled
  <2>3. /\ running' \subseteq running
        /\ \A t \in Sandboxes \ {s} : state'[t] = state[t]
        /\ state'[s] = IF state[s] = "CLEANED" THEN "CLEANED" ELSE "CLEANUP_FAILED"
        /\ state' \in [Sandboxes -> {"none", "ACTIVE", "CLEANUP_REQUESTED", "CLEANUP_FAILED", "CLEANED"}]
    BY <1>0, <1>8 DEF CleanupFails, Kept
  <2>4. /\ does' \in [DaytonaCalls -> {Idle} \cup Operations]
        /\ \A d \in DaytonaCalls, t \in Sandboxes, o \in {"build", "preview", "delete"} :
             Awaits(d, t, o)' => Awaits(d, t, o) /\ Held(d)' = Held(d)
    BY <2>1, Ended
  <2>5. DaytonaTypeOK' BY <2>1, <2>3, <2>4 DEF DaytonaTypeOK, Operations
  <2>6. making[s] = "over" /\ (state[s] # "CLEANED" => s \in handle)
    BY <1>0, <2>2 DEF Handled, Known
  <2>7. Handled' BY <1>0, <2>1, <2>3, <2>4, <2>6, HandledStays DEF Handled, Known
  <2>8. RunningIsOwned' BY <1>0, <2>1, <2>2, <2>3, <2>6 DEF RunningIsOwned, Known
  <2>9. QED BY <2>5, <2>7, <2>8
<1>9. CASE UNCHANGED daytonaVars
  BY <1>9 DEF daytonaVars, DaytonaTypeOK, Handled, RunningIsOwned, Known, Awaits, Held
<1>10. QED
  BY <1>1, <1>2, <1>3, <1>4, <1>5, <1>6, <1>7, <1>8, <1>9 DEF DaytonaNext

-----------------------------------------------------------------------------
(* WebClient *)

\* A site that the address names and the page does not show is being opened
OnItsWay ==
  route \in Sites /\ shown # route /\ ~mishap =>
    \E o \in Openings : opening[o].call = "site" /\ opening[o].site = route

TurnsAreAwaited == turnsPending <= 1 /\ (turnsPending = 1 => Busy)
ShownIsSelected == shown # Nobody => selected.site = shown

PageIInv == ClientTypeOK /\ OnItsWay /\ TurnsAreAwaited /\ ShownIsSelected

\* What a request in flight is, is told from none by its field "call".
LEMMA RequestsAreNotUnset ==
  /\ \A r \in Work : r # Unset <=> "call" \in DOMAIN r
  /\ \A c \in OpeningCalls : c = NoCall => c.call = "none"
  /\ \A h \in Shots : h.site \in Sites => h \in [site : Sites, version : 0..New]
BY PageAssumption DEF Work, Unset, OpeningCalls, NoCall, Shots, Nobody

LEMMA NewestVersion ==
  ASSUME PageAssumption, ClientTypeOK, NEW s \in Sites
  PROVE  /\ versions[s] \in 0..New /\ Shot(s) \in Shots /\ Shot(s).site = s
         /\ Shot(s) \in [site : Sites, version : 0..New]
BY DEF ClientTypeOK, Shot, Shots

\* The effect of a new address or a new site shown opens the site that the address names.
LEMMA RenderingOpens ==
  ASSUME ClientTypeOK, OnItsWay, NEW before \in [Openings -> OpeningCalls],
         Rendered(before, route', shown'), mishap' = mishap,
         \A o \in Openings : opening[o].site # shown' => before[o] = opening[o]
  PROVE  opening' \in [Openings -> OpeningCalls] /\ OnItsWay'
<1>1. CASE (route' # route \/ shown' # shown) /\ route' \in Sites \ {shown'}
  <2>1. PICK o \in Openings : /\ before[o] = NoCall
                              /\ opening' = [before EXCEPT ![o] = [site |-> route', call |-> "site"]]
    BY <1>1 DEF Rendered
  <2>2. [site |-> route', call |-> "site"] \in OpeningCalls
    BY <1>1 DEF OpeningCalls
  <2>3. /\ opening' \in [Openings -> OpeningCalls]
        /\ opening'[o].call = "site" /\ opening'[o].site = route'
    BY <2>1, <2>2
  <2> QED
    BY <2>3 DEF OnItsWay
<1>2. CASE ~((route' # route \/ shown' # shown) /\ route' \in Sites \ {shown'})
  <2>1. opening' = before
    BY <1>2 DEF Rendered
  <2>2. ASSUME route' \in Sites, shown' # route', ~mishap'
        PROVE  \E o \in Openings : opening'[o].call = "site" /\ opening'[o].site = route'
    <3>1. route' = route /\ shown' = shown
      BY <1>2, <2>2
    <3>2. PICK o \in Openings : opening[o].call = "site" /\ opening[o].site = route
      BY <3>1, <2>2 DEF OnItsWay
    <3>3. opening'[o] = opening[o]
      BY <3>1, <3>2, <2>1, <2>2
    <3> QED
      BY <3>1, <3>2, <3>3
  <2> QED
    BY <2>1, <2>2 DEF OnItsWay
<1> QED
  BY <1>1, <1>2

LEMMA PageStart ==
  ASSUME PageAssumption, ClientInit
  PROVE  PageIInv
<1>1. ClientTypeOK
  <2>1. {0, 1, New} \subseteq 0..New /\ MaxEvents \in Nat
    BY PageAssumption DEF New
  <2>2. versions \in [Sites -> 0..New]
    BY <2>1 DEF ClientInit
  <2>3. Unset \in Shots /\ Unset \in Work /\ NoCall \in OpeningCalls
    BY DEF Shots, Work, OpeningCalls
  <2>4. /\ route = "/" /\ shown = Nobody /\ selected = Unset /\ showing = Unset
        /\ opening = [o \in Openings |-> NoCall] /\ working = Unset /\ turnsPending = 0
        /\ asked = Nobody /\ deleting = {} /\ mishap = FALSE /\ crossed = FALSE
        /\ events = 0 /\ served \subseteq Sites
    BY DEF ClientInit
  <2>5. opening \in [Openings -> OpeningCalls]
    BY <2>3, <2>4
  <2>6. mishap \in BOOLEAN /\ crossed \in BOOLEAN
    BY <2>4, Zenon
  <2>7. events \in 0..MaxEvents /\ turnsPending \in Nat
    BY <2>1, <2>4
  <2>8. served \subseteq Sites /\ route \in Sites \cup {"/", "/build"}
        /\ shown \in Sites \cup {Nobody} /\ selected \in Shots /\ showing \in Shots
        /\ working \in Work
    BY <2>3, <2>4
  <2>9. /\ asked \in Sites \cup {Nobody}
        /\ deleting \subseteq [site : Sites, saw : Sites \cup {Nobody}, gone : BOOLEAN]
    BY <2>4
  <2> QED
    BY <2>2, <2>5, <2>6, <2>7, <2>8, <2>9 DEF ClientTypeOK
<1>2. OnItsWay /\ TurnsAreAwaited /\ ShownIsSelected
  BY PageAssumption DEF ClientInit, OnItsWay, TurnsAreAwaited, ShownIsSelected
<1> QED
  BY <1>1, <1>2 DEF PageIInv

-----------------------------------------------------------------------------
(* What the user does *)

LEMMA UserKeepsPage ==
  ASSUME PageAssumption, PageIInv,
         \/ OpenFromList \/ Browse \/ NewRun \/ RetryPreview \/ Generate \/ EditShown
         \/ AskDelete \/ CancelDelete \/ ConfirmDelete
  PROVE  PageIInv'
<1> USE DEF PageIInv
<1>0. UserActs => events' \in 0..MaxEvents
  BY PageAssumption DEF UserActs, ClientTypeOK
<1>e. \A o \in Openings : opening[o].site # shown' => opening[o] = opening[o]
  OBVIOUS
<1>t. opening \in [Openings -> OpeningCalls]
  BY DEF ClientTypeOK
<1>c. UserClicks => UserActs
  BY DEF UserClicks
<1>d. deleting \subseteq [site : Sites, saw : Sites \cup {Nobody}, gone : BOOLEAN]
  BY DEF ClientTypeOK
<1>1. CASE OpenFromList
  <2>1. PICK s \in Sites : SiteAlive(s) /\ route' = s /\ turnsPending' = 0
                           /\ Rendered(opening, s, shown)
    BY <1>1 DEF OpenFromList
  <2>2. /\ UserActs
        /\ UNCHANGED <<versions, served, shown, selected, showing, working, asked, deleting, mishap,
                       crossed>>
    BY <1>c, <1>1 DEF OpenFromList
  <2>3. Rendered(opening, route', shown')
    BY <2>1, <2>2
  <2>4. opening' \in [Openings -> OpeningCalls] /\ OnItsWay'
    BY <1>t, <1>e, <2>2, <2>3, RenderingOpens
  <2>5. ClientTypeOK'
    BY <1>0, <2>1, <2>2, <2>4 DEF ClientTypeOK
  <2>6. TurnsAreAwaited' /\ ShownIsSelected'
    BY <2>1, <2>2 DEF TurnsAreAwaited, ShownIsSelected
  <2> QED
    BY <2>4, <2>5, <2>6
<1>2. CASE Browse
  <2>1. PICK s \in Sites \cup {"/"} : route' = s /\ Rendered(opening, s, shown)
    BY <1>2 DEF Browse
  <2>2. /\ UserActs
        /\ UNCHANGED <<versions, served, shown, selected, showing, working, turnsPending, asked,
                       deleting, mishap, crossed>>
    BY <1>2 DEF Browse
  <2>3. Rendered(opening, route', shown')
    BY <2>1, <2>2
  <2>4. opening' \in [Openings -> OpeningCalls] /\ OnItsWay'
    BY <1>t, <1>e, <2>2, <2>3, RenderingOpens
  <2>5. ClientTypeOK'
    BY <1>0, <2>1, <2>2, <2>4 DEF ClientTypeOK
  <2>6. TurnsAreAwaited' /\ ShownIsSelected'
    BY <2>2 DEF TurnsAreAwaited, ShownIsSelected, Busy
  <2> QED
    BY <2>4, <2>5, <2>6
<1>3. CASE NewRun
  <2>1. /\ UserActs /\ route' = "/" /\ shown' = Nobody /\ selected' = Unset /\ showing' = Unset
        /\ turnsPending' = 0
        /\ UNCHANGED <<versions, served, opening, working, asked, deleting, mishap>>
    BY <1>c, <1>3 DEF NewRun, Leaves
  <2>c. crossed' \in BOOLEAN
    BY <1>3 DEF NewRun, Turns
  <2>2. ClientTypeOK'
    BY <1>0, <2>1, <2>c DEF ClientTypeOK, Shots
  <2>3. OnItsWay'
    BY <2>1, PageAssumption DEF OnItsWay
  <2>4. TurnsAreAwaited' /\ ShownIsSelected'
    BY <2>1 DEF TurnsAreAwaited, ShownIsSelected
  <2> QED
    BY <2>2, <2>3, <2>4
<1>4. CASE RetryPreview
  <2>1. /\ shown # Nobody /\ UserActs
        /\ UNCHANGED <<versions, served, route, shown, selected, showing, working, turnsPending,
                       asked, deleting, mishap, crossed>>
    BY <1>c, <1>4 DEF RetryPreview
  <2>2. PICK o \in Openings :
          /\ opening[o] = NoCall
          /\ opening' = [opening EXCEPT ![o] = [site |-> shown, call |-> "preview",
                                                version |-> selected.version]]
    BY <1>4 DEF RetryPreview
  <2>3. shown \in Sites /\ selected.site = shown /\ selected \in Shots
    BY <2>1 DEF ClientTypeOK, ShownIsSelected
  <2>4. selected.version \in 0..New
    BY <2>3, RequestsAreNotUnset
  <2>5. [site |-> shown, call |-> "preview", version |-> selected.version] \in OpeningCalls
    BY <2>3, <2>4 DEF OpeningCalls
  <2>6. opening' \in [Openings -> OpeningCalls]
    BY <1>t, <2>2, <2>5
  <2>7. ClientTypeOK'
    BY <1>0, <2>1, <2>6 DEF ClientTypeOK
  <2>8. \A p \in Openings : opening[p].call = "site" => opening'[p] = opening[p]
    BY <1>t, <2>2 DEF NoCall
  <2>9. OnItsWay'
    BY <2>1, <2>8 DEF OnItsWay
  <2>10. TurnsAreAwaited' /\ ShownIsSelected'
    BY <2>1 DEF TurnsAreAwaited, ShownIsSelected, Busy
  <2> QED
    BY <2>7, <2>9, <2>10
<1>5. CASE Generate
  <2>1. /\ UserActs /\ route' = "/build" /\ working' = [site |-> Nobody, call |-> "job"]
        /\ turnsPending' = 1
        /\ UNCHANGED <<versions, served, shown, selected, showing, opening, asked, deleting, mishap,
                       crossed>>
    BY <1>c, <1>5 DEF Generate
  <2>2. working' \in Work /\ "call" \in DOMAIN working'
    BY <2>1 DEF Work
  <2>3. ClientTypeOK'
    BY <1>0, <2>1, <2>2 DEF ClientTypeOK
  <2>4. OnItsWay'
    BY <2>1, PageAssumption DEF OnItsWay
  <2>5. TurnsAreAwaited' /\ ShownIsSelected'
    BY <2>1, <2>2, RequestsAreNotUnset DEF TurnsAreAwaited, ShownIsSelected, Busy
  <2> QED
    BY <2>3, <2>4, <2>5
<1>6. CASE EditShown
  <2>1. /\ ~Busy /\ shown # Nobody /\ UserActs
        /\ working' = [site |-> shown, call |-> "job", base |-> selected]
        /\ turnsPending' = turnsPending + 1
        /\ UNCHANGED <<versions, served, route, shown, selected, showing, opening, asked, deleting,
                       mishap, crossed>>
    BY <1>c, <1>6 DEF EditShown
  <2>2. shown \in Sites /\ selected \in Shots
    BY <2>1 DEF ClientTypeOK
  <2>3. working' \in Work /\ "call" \in DOMAIN working'
    BY <2>1, <2>2 DEF Work
  <2>4. ClientTypeOK'
    BY <1>0, <2>1, <2>3 DEF ClientTypeOK
  <2>5. turnsPending = 0
    BY <2>1 DEF TurnsAreAwaited, ClientTypeOK
  <2>6. OnItsWay' /\ TurnsAreAwaited' /\ ShownIsSelected'
    BY <2>1, <2>3, <2>5, RequestsAreNotUnset DEF OnItsWay, TurnsAreAwaited, ShownIsSelected, Busy
  <2> QED
    BY <2>4, <2>6
<1>7. CASE AskDelete \/ CancelDelete \/ ConfirmDelete
  <2>1. UNCHANGED <<versions, served, route, shown, selected, showing, opening, working,
                    turnsPending, mishap, crossed>>
    BY <1>7 DEF AskDelete, CancelDelete, ConfirmDelete
  <2>a. asked' \in Sites \cup {Nobody} /\ (UserActs \/ events' = events)
    BY <1>c, <1>7 DEF AskDelete, CancelDelete, ConfirmDelete
  <2>d. deleting' \subseteq [site : Sites, saw : Sites \cup {Nobody}, gone : BOOLEAN]
    <3>1. CASE AskDelete \/ CancelDelete
      BY <1>d, <3>1 DEF AskDelete, CancelDelete
    <3>2. CASE ConfirmDelete
      <4>1. /\ asked # Nobody
            /\ deleting' = deleting \cup {[site |-> asked, saw |-> shown, gone |-> FALSE]}
        BY <3>2 DEF ConfirmDelete
      <4>2. [site |-> asked, saw |-> shown, gone |-> FALSE]
              \in [site : Sites, saw : Sites \cup {Nobody}, gone : BOOLEAN]
        BY <4>1 DEF ClientTypeOK
      <4> QED
        BY <1>d, <4>1, <4>2
    <3> QED
      BY <1>7, <3>1, <3>2
  <2>2. ClientTypeOK'
    BY <1>0, <2>1, <2>a, <2>d DEF ClientTypeOK
  <2>3. OnItsWay' /\ TurnsAreAwaited' /\ ShownIsSelected'
    BY <2>1 DEF OnItsWay, TurnsAreAwaited, ShownIsSelected, Busy
  <2> QED
    BY <2>2, <2>3
<1> QED
  BY <1>1, <1>2, <1>3, <1>4, <1>5, <1>6, <1>7

-----------------------------------------------------------------------------
(* What the server answers *)

LEMMA OpeningsKeepPage ==
  ASSUME PageAssumption, PageIInv, NEW o \in Openings,
         SiteAnswers(o) \/ PreviewOpens(o) \/ OpeningFails(o)
  PROVE  PageIInv'
<1> USE DEF PageIInv
<1>t. opening \in [Openings -> OpeningCalls]
  BY DEF ClientTypeOK
<1>1. CASE SiteAnswers(o)
  <2> DEFINE s == opening[o].site
             next == [opening EXCEPT ![o] = IF s \in served \/ versions[s] = 0 THEN NoCall
                                            ELSE [site |-> s, call |-> "preview",
                                                  version |-> versions[s]]]
  <2>1. /\ opening[o].call = "site" /\ shown' = s /\ selected' = Shot(s)
        /\ showing' = (IF s \in served THEN Shot(s) ELSE Unset)
        /\ Rendered(next, route, s)
        /\ UNCHANGED <<versions, served, route, working, turnsPending, asked, deleting, mishap,
                       events>>
    BY <1>1 DEF SiteAnswers, ShowsSite
  <2>c. crossed' \in BOOLEAN
    BY <1>1 DEF SiteAnswers, Turns
  <2>2. s \in Sites
    BY <1>t, <2>1 DEF OpeningCalls, NoCall
  <2>3. versions[s] \in 0..New /\ Shot(s) \in Shots /\ Shot(s).site = s
    BY <2>2, NewestVersion
  <2>4. /\ NoCall \in OpeningCalls
        /\ [site |-> s, call |-> "preview", version |-> versions[s]] \in OpeningCalls
    BY <2>2, <2>3 DEF OpeningCalls
  <2>5. next \in [Openings -> OpeningCalls]
    BY <1>t, <2>4
  <2>6. \A p \in Openings : opening[p].site # shown' => next[p] = opening[p]
    BY <1>t, <2>1
  <2>7. Rendered(next, route', shown')
    BY <2>1
  <2>8. opening' \in [Openings -> OpeningCalls] /\ OnItsWay'
    BY <2>1, <2>5, <2>6, <2>7, RenderingOpens
  <2>9. Unset \in Shots
    BY DEF Shots
  <2>10. ClientTypeOK'
    BY <2>1, <2>c, <2>2, <2>3, <2>8, <2>9 DEF ClientTypeOK
  <2>11. TurnsAreAwaited' /\ ShownIsSelected'
    BY <2>1, <2>3 DEF TurnsAreAwaited, ShownIsSelected, Busy
  <2> QED
    BY <2>8, <2>10, <2>11
<1>2. CASE PreviewOpens(o)
  <2>1. /\ opening[o].call = "preview"
        /\ showing' = [site |-> opening[o].site, version |-> opening[o].version]
        /\ served' \subseteq served \cup {opening[o].site}
        /\ opening' = [opening EXCEPT ![o] = NoCall]
        /\ UNCHANGED <<versions, route, shown, selected, working, turnsPending, asked, deleting,
                       mishap, crossed, events>>
    BY <1>2 DEF PreviewOpens
  <2>2. opening[o].site \in Sites /\ opening[o].version \in 0..New
    BY <1>t, <2>1 DEF OpeningCalls, NoCall
  <2>3. showing' \in Shots
    BY <2>1, <2>2 DEF Shots
  <2>4. opening' \in [Openings -> OpeningCalls]
    BY <1>t, <2>1 DEF OpeningCalls
  <2>5. ClientTypeOK'
    BY <2>1, <2>2, <2>3, <2>4 DEF ClientTypeOK
  <2>6. \A p \in Openings : opening[p].call = "site" => opening'[p] = opening[p]
    BY <1>t, <2>1
  <2>7. OnItsWay'
    BY <2>1, <2>6 DEF OnItsWay
  <2>8. TurnsAreAwaited' /\ ShownIsSelected'
    BY <2>1 DEF TurnsAreAwaited, ShownIsSelected, Busy
  <2> QED
    BY <2>5, <2>7, <2>8
<1>3. CASE OpeningFails(o)
  <2>1. /\ opening' = [opening EXCEPT ![o] = NoCall] /\ mishap' = TRUE
        /\ UNCHANGED <<versions, served, route, shown, selected, showing, working, turnsPending,
                       asked, deleting, crossed, events>>
    BY <1>3 DEF OpeningFails
  <2>2. opening' \in [Openings -> OpeningCalls]
    BY <1>t, <2>1 DEF OpeningCalls
  <2>3. ClientTypeOK'
    BY <2>1, <2>2 DEF ClientTypeOK
  <2>4. OnItsWay' /\ TurnsAreAwaited' /\ ShownIsSelected'
    BY <2>1 DEF OnItsWay, TurnsAreAwaited, ShownIsSelected, Busy
  <2> QED
    BY <2>3, <2>4
<1> QED
  BY <1>1, <1>2, <1>3

LEMMA WorkKeepsPage ==
  ASSUME PageAssumption, PageIInv,
         JobSucceeds \/ JobFails \/ WorkAnswers \/ WorkEnds
  PROVE  PageIInv'
<1> USE DEF PageIInv
<1>t. opening \in [Openings -> OpeningCalls] /\ working \in Work
  BY DEF ClientTypeOK
<1>e. \A o \in Openings : opening[o].site # shown' => opening[o] = opening[o]
  OBVIOUS
<1>u. Unset \in Shots /\ Unset \in Work
  BY DEF Shots, Work
<1>1. CASE JobSucceeds
  <2>0. working # Unset
        /\ UNCHANGED <<route, shown, selected, showing, opening, turnsPending, asked, deleting,
                       mishap, crossed, events>>
    BY <1>1 DEF JobSucceeds
  <2>1. PICK s \in Sites :
          /\ (versions[s] = New \/ versions[s] < MaxSiteVersion)
          /\ versions' = [versions EXCEPT ![s] = IF @ = New THEN 1 ELSE @ + 1]
          /\ \E previewed \in BOOLEAN :
               /\ served' = IF previewed THEN served \cup {s} ELSE served \ {s}
               /\ working' = [site |-> s, call |-> "site",
                              job |-> [site |-> s, version |-> versions'[s]],
                              previewed |-> previewed]
    BY <1>1 DEF JobSucceeds
  <2>2. versions' \in [Sites -> 0..New] /\ versions'[s] \in 0..New
    <3>1. versions \in [Sites -> 0..New] /\ versions[s] \in 0..New /\ New \in Nat
          /\ New = MaxSiteVersion + 2 /\ MaxSiteVersion \in Nat
      BY PageAssumption DEF ClientTypeOK, New
    <3>2. (IF versions[s] = New THEN 1 ELSE versions[s] + 1) \in 0..New
      BY <3>1, <2>1
    <3> QED
      BY <3>1, <3>2, <2>1
  <2>3. PICK previewed \in BOOLEAN :
          /\ served' = IF previewed THEN served \cup {s} ELSE served \ {s}
          /\ working' = [site |-> s, call |-> "site",
                         job |-> [site |-> s, version |-> versions'[s]], previewed |-> previewed]
    BY <2>1
  <2>4. working' \in Work /\ "call" \in DOMAIN working'
    BY <2>2, <2>3 DEF Work
  <2>5. served' \subseteq Sites
    BY <2>3 DEF ClientTypeOK
  <2>6. ClientTypeOK'
    BY <2>0, <2>2, <2>4, <2>5 DEF ClientTypeOK
  <2>7. OnItsWay' /\ TurnsAreAwaited' /\ ShownIsSelected'
    BY <2>0, <2>4, RequestsAreNotUnset DEF OnItsWay, TurnsAreAwaited, ShownIsSelected, Busy
  <2> QED
    BY <2>6, <2>7
<1>2. CASE JobFails
  <2>1. /\ turnsPending' = 0 /\ working' = Unset
        /\ UNCHANGED <<served, route, shown, selected, showing, opening, asked, deleting, mishap,
                       crossed, events>>
    BY <1>2 DEF JobFails, Settles
  <2>2. versions' \in [Sites -> 0..New]
    BY <1>2, PageAssumption DEF JobFails, ClientTypeOK, New
  <2>3. ClientTypeOK'
    BY <1>u, <2>1, <2>2 DEF ClientTypeOK
  <2>4. OnItsWay' /\ TurnsAreAwaited' /\ ShownIsSelected'
    BY <2>1 DEF OnItsWay, TurnsAreAwaited, ShownIsSelected
  <2> QED
    BY <2>3, <2>4
<1>3. CASE WorkAnswers
  <2> DEFINE s == working.site
             to(stand) == [working EXCEPT !.call = stand]
  <2>1. /\ working # Unset /\ working.call \in {"site", "preview"}
        /\ UNCHANGED <<versions, route, turnsPending, asked, deleting, mishap, events>>
    BY <1>3 DEF WorkAnswers
  <2>c. crossed' \in BOOLEAN
    BY <1>3 DEF WorkAnswers, Turns
  <2>2. /\ working \in [site : Sites, call : {"site", "preview", "navigate"},
                        job : [site : Sites, version : 0..New], previewed : BOOLEAN]
        /\ s \in Sites /\ working.job \in [site : Sites, version : 0..New]
    <3>1. working \in [site : Sites, call : {"site", "preview", "navigate"},
                       job : [site : Sites, version : 0..New], previewed : BOOLEAN]
      BY <1>t, <2>1 DEF Work
    <3> QED
      BY <3>1, Zenon
  <2>3. ASSUME NEW stand \in {"preview", "navigate"}
        PROVE  to(stand) \in Work /\ to(stand) # Unset
    <3>1. to(stand) \in [site : Sites, call : {"site", "preview", "navigate"},
                        job : [site : Sites, version : 0..New], previewed : BOOLEAN]
          /\ "call" \in DOMAIN to(stand)
      BY <2>2
    <3>2. to(stand) \in Work
      BY <3>1 DEF Work
    <3> QED
      BY <3>1, <3>2, RequestsAreNotUnset
  <2>4. working' \in {to("preview"), to("navigate")}
    BY <1>3 DEF WorkAnswers
  <2>5. working' \in Work /\ working' # Unset
    BY <2>3, <2>4
  <2>6. ASSUME opening' \in [Openings -> OpeningCalls], OnItsWay', served' \subseteq Sites,
               showing' \in Shots, selected' \in Shots, shown' \in Sites \cup {Nobody},
               ShownIsSelected'
        PROVE  PageIInv'
    <3>1. ClientTypeOK'
      BY <2>1, <2>c, <2>5, <2>6 DEF ClientTypeOK
    <3>2. TurnsAreAwaited'
      BY <2>1, <2>5 DEF TurnsAreAwaited, Busy
    <3> QED
      BY <2>6, <3>1, <3>2
  <2>7. CASE /\ ShowsSite(s) /\ Rendered(opening, route, s) /\ UNCHANGED served
    <3>1. /\ shown' = s /\ selected' = Shot(s) /\ served' = served
          /\ showing' = (IF s \in served THEN Shot(s) ELSE Unset)
          /\ Rendered(opening, route', shown')
      BY <2>1, <2>7 DEF ShowsSite
    <3>2. Shot(s) \in Shots /\ Shot(s).site = s
      BY <2>2, NewestVersion
    <3>3. opening' \in [Openings -> OpeningCalls] /\ OnItsWay'
      BY <1>t, <1>e, <2>1, <3>1, RenderingOpens
    <3>4. ShownIsSelected' /\ showing' \in Shots /\ selected' \in Shots
          /\ shown' \in Sites \cup {Nobody} /\ served' \subseteq Sites
      BY <1>u, <2>2, <3>1, <3>2 DEF ShownIsSelected, ClientTypeOK
    <3> QED
      BY <2>6, <3>3, <3>4
  <2>8. CASE /\ showing' = working.job /\ served' = served \cup {s}
             /\ UNCHANGED <<shown, selected, opening>>
    <3>1. showing' \in Shots
      BY <2>2, <2>8 DEF Shots
    <3>2. /\ OnItsWay' /\ ShownIsSelected' /\ opening' \in [Openings -> OpeningCalls]
          /\ selected' \in Shots /\ shown' \in Sites \cup {Nobody} /\ served' \subseteq Sites
      BY <2>1, <2>2, <2>8 DEF OnItsWay, ShownIsSelected, ClientTypeOK
    <3> QED
      BY <2>6, <3>1, <3>2
  <2>9. CASE UNCHANGED <<served, shown, selected, showing, opening>>
    <3>1. /\ OnItsWay' /\ ShownIsSelected' /\ opening' \in [Openings -> OpeningCalls]
          /\ showing' \in Shots
          /\ selected' \in Shots /\ shown' \in Sites \cup {Nobody} /\ served' \subseteq Sites
      BY <2>1, <2>9 DEF OnItsWay, ShownIsSelected, ClientTypeOK
    <3> QED
      BY <2>6, <3>1
  <2> QED
    BY <1>3, <2>7, <2>8, <2>9 DEF WorkAnswers
<1>4. CASE WorkEnds
  <2>1. /\ working # Unset /\ working.call = "navigate" /\ route' = working.site
        /\ Rendered(opening, working.site, shown)
        /\ showing' = (IF working.previewed THEN working.job ELSE showing)
        /\ turnsPending' = 0 /\ working' = Unset
        /\ UNCHANGED <<versions, served, shown, selected, asked, deleting, mishap, crossed, events>>
    BY <1>4 DEF WorkEnds, Settles
  <2>2. working \in [site : Sites, call : {"site", "preview", "navigate"},
                     job : [site : Sites, version : 0..New], previewed : BOOLEAN]
    BY <1>t, <2>1 DEF Work
  <2>3. working.site \in Sites /\ working.job \in [site : Sites, version : 0..New]
    BY <2>2, Zenon
  <2>4. Rendered(opening, route', shown')
    BY <2>1
  <2>5. opening' \in [Openings -> OpeningCalls] /\ OnItsWay'
    BY <1>t, <1>e, <2>1, <2>4, RenderingOpens
  <2>6. showing' \in Shots
    BY <2>1, <2>3 DEF Shots, ClientTypeOK
  <2>7. ClientTypeOK'
    BY <1>u, <2>1, <2>3, <2>5, <2>6 DEF ClientTypeOK
  <2>8. TurnsAreAwaited' /\ ShownIsSelected'
    BY <2>1 DEF TurnsAreAwaited, ShownIsSelected
  <2> QED
    BY <2>5, <2>7, <2>8
<1> QED
  BY <1>1, <1>2, <1>3, <1>4

LEMMA DeletionsKeepPage ==
  ASSUME PageAssumption, PageIInv, NEW d \in deleting,
         ServerDeletes(d) \/ Deleted(d) \/ DeleteFails(d)
  PROVE  PageIInv'
<1> USE DEF PageIInv
<1>1. UNCHANGED <<opening, working, asked, mishap, events>>
  BY DEF ServerDeletes, Deleted, DeleteFails
<1>2. d \in [site : Sites, saw : Sites \cup {Nobody}, gone : BOOLEAN]
  BY DEF ClientTypeOK
<1>3. deleting' \subseteq [site : Sites, saw : Sites \cup {Nobody}, gone : BOOLEAN]
  <2>1. deleting' \subseteq deleting \cup {[d EXCEPT !.gone = TRUE]}
    BY DEF ServerDeletes, Deleted, DeleteFails
  <2>2. [d EXCEPT !.gone = TRUE] \in [site : Sites, saw : Sites \cup {Nobody}, gone : BOOLEAN]
    BY <1>2
  <2> QED
    BY <2>1, <2>2 DEF ClientTypeOK
<1>4. versions' \in [Sites -> 0..New] /\ served' \subseteq Sites
  <2>1. versions' = versions \/ versions' = [versions EXCEPT ![d.site] = Gone]
    BY DEF ServerDeletes, Deleted, DeleteFails
  <2>2. Gone \in 0..New
    BY PageAssumption DEF Gone, New
  <2>3. versions' \in [Sites -> 0..New]
    BY <2>1, <2>2 DEF ClientTypeOK
  <2>4. served' \subseteq served
    BY DEF ServerDeletes, Deleted, DeleteFails
  <2> QED
    BY <2>3, <2>4 DEF ClientTypeOK
<1>5. crossed' \in BOOLEAN
  <2>1. crossed' = crossed \/ Turns
    BY DEF ServerDeletes, Deleted, DeleteFails
  <2> QED
    BY <2>1 DEF Turns, ClientTypeOK
<1>6. Leaves \/ UNCHANGED <<route, shown, selected, showing, turnsPending>>
  BY DEF ServerDeletes, Deleted, DeleteFails
<1>7. CASE Leaves
  <2>1. /\ route' = "/" /\ shown' = Nobody /\ selected' = Unset /\ showing' = Unset
        /\ turnsPending' = 0
    BY <1>7 DEF Leaves
  <2>2. ClientTypeOK'
    BY <1>1, <1>3, <1>4, <1>5, <2>1 DEF ClientTypeOK, Shots
  <2>3. OnItsWay' /\ TurnsAreAwaited' /\ ShownIsSelected'
    BY <2>1, PageAssumption DEF OnItsWay, TurnsAreAwaited, ShownIsSelected
  <2> QED
    BY <2>2, <2>3
<1>8. CASE UNCHANGED <<route, shown, selected, showing, turnsPending>>
  <2>1. ClientTypeOK'
    BY <1>1, <1>3, <1>4, <1>5, <1>8 DEF ClientTypeOK
  <2>2. OnItsWay' /\ TurnsAreAwaited' /\ ShownIsSelected'
    BY <1>1, <1>8 DEF OnItsWay, TurnsAreAwaited, ShownIsSelected, Busy
  <2> QED
    BY <2>1, <2>2
<1> QED
  BY <1>6, <1>7, <1>8

LEMMA PageStep ==
  ASSUME PageAssumption, PageIInv, [ClientNext]_clientVars
  PROVE  PageIInv'
<1>1. CASE UNCHANGED clientVars
  <2>1. UNCHANGED <<versions, served, route, shown, selected, showing, opening, working,
                    turnsPending, asked, deleting, mishap, crossed, events>>
    BY <1>1 DEF clientVars
  <2>2. ClientTypeOK'
    BY <2>1 DEF PageIInv, ClientTypeOK
  <2>3. OnItsWay' /\ TurnsAreAwaited' /\ ShownIsSelected'
    BY <2>1 DEF PageIInv, OnItsWay, TurnsAreAwaited, ShownIsSelected, Busy
  <2> QED
    BY <2>2, <2>3 DEF PageIInv
<1> QED
  BY <1>1, UserKeepsPage, OpeningsKeepPage, WorkKeepsPage, DeletionsKeepPage DEF ClientNext

-----------------------------------------------------------------------------
(* The preview beside the site *)

Foreign == {shown, showing.site} \subseteq Sites /\ showing.site # shown

JobIsOfItsSite == Busy /\ working.call # "job" => working.job.site = working.site
PreviewsAreShown ==
  ~crossed => /\ \A o \in Openings : opening[o].call = "preview" => opening[o].site = shown
              /\ Busy /\ working.call = "preview" => working.site = shown
\* What shows a preview of another site is about to show another site
ForeignIsReplaced == Foreign /\ ~mishap /\ ~crossed => \E o \in Openings : opening[o].call = "site"

PreviewParts == JobIsOfItsSite /\ PreviewsAreShown /\ ForeignIsReplaced

\* The effect of an address opens a site where no call was, and leaves every other opening.
LEMMA RenderingKeeps ==
  ASSUME NEW before \in [Openings -> OpeningCalls], NEW to, NEW site, Rendered(before, to, site)
  PROVE  \A o \in Openings : /\ before[o].call = "site" => opening'[o].call = "site"
                             /\ opening'[o].call = "preview" => opening'[o] = before[o]
<1>1. CASE opening' = before
  BY <1>1
<1>2. CASE \E o \in Openings :
             before[o] = NoCall /\ opening' = [before EXCEPT ![o] = [site |-> to, call |-> "site"]]
  <2>1. PICK o \in Openings :
          before[o] = NoCall /\ opening' = [before EXCEPT ![o] = [site |-> to, call |-> "site"]]
    BY <1>2
  <2>2. opening'[o].call = "site" /\ \A p \in Openings \ {o} : opening'[p] = before[p]
    BY <2>1
  <2> QED
    BY <2>1, <2>2
<1> QED
  BY <1>1, <1>2 DEF Rendered

\* What neither shows anything nor turns elsewhere keeps the previews in order.
LEMMA QuietKeepsPreviews ==
  ASSUME PreviewParts, UNCHANGED <<shown, showing, crossed>>, mishap => mishap',
         \A o \in Openings : ~mishap' /\ opening[o].call = "site" => opening'[o].call = "site",
         \A o \in Openings : opening'[o].call = "preview" =>
                               opening'[o] = opening[o] \/ opening'[o].site = shown,
         JobIsOfItsSite', Busy' /\ working'.call = "preview" => working' = working
  PROVE  PreviewParts'
<1>1. PreviewsAreShown'
  BY DEF PreviewParts, PreviewsAreShown, Busy
<1>2. ForeignIsReplaced'
  BY DEF PreviewParts, ForeignIsReplaced, Foreign
<1> QED
  BY <1>1, <1>2 DEF PreviewParts

\* A site that is shown comes with its own preview or none, and no other is awaited unless crossed.
LEMMA ShowingKeepsPreviews ==
  ASSUME PageAssumption, PageIInv, PreviewParts, NEW s \in Sites, ShowsSite(s), Turns,
         \A o \in Openings : opening'[o].call = "preview" =>
                               opening'[o] = opening[o] \/ opening'[o].site = s,
         JobIsOfItsSite',
         Busy' /\ working'.call = "preview" => working' = working \/ working'.site = s
  PROVE  PreviewParts'
<1>1. shown' = s /\ showing' \in {Shot(s), Unset} /\ Shot(s).site = s
  BY DEF ShowsSite, Shot
<1>2. ~Foreign'
  BY <1>1, PageAssumption DEF Foreign, Unset, Nobody
<1>3. PreviewsAreShown'
  <2> SUFFICES ASSUME ~crossed'
               PROVE  /\ \A o \in Openings : opening'[o].call = "preview" => opening'[o].site = shown'
                      /\ Busy' /\ working'.call = "preview" => working'.site = shown'
    BY DEF PreviewsAreShown
  <2>1. ~crossed /\ (shown' = shown \/ ~AwaitsPreview)
    BY DEF Turns
  <2>2. CASE shown' = shown
    BY <1>1, <2>1, <2>2 DEF PreviewParts, PreviewsAreShown, Busy
  <2>3. CASE ~AwaitsPreview
    BY <1>1, <2>3 DEF AwaitsPreview, Busy
  <2> QED
    BY <2>1, <2>2, <2>3
<1> QED
  BY <1>2, <1>3 DEF PreviewParts, ForeignIsReplaced

LEMMA LeavingKeepsPreviews ==
  ASSUME PageAssumption, PageIInv, PreviewParts, Leaves, Turns, UNCHANGED <<opening, working>>
  PROVE  PreviewParts'
<1>1. shown' = Nobody
  BY DEF Leaves
<1>2. ~Foreign'
  BY <1>1, PageAssumption DEF Foreign, Nobody
<1>3. PreviewsAreShown'
  BY DEF PreviewParts, PreviewsAreShown, Turns, AwaitsPreview, Busy
<1>4. JobIsOfItsSite'
  BY DEF PreviewParts, JobIsOfItsSite, Busy
<1> QED
  BY <1>2, <1>3, <1>4 DEF PreviewParts, ForeignIsReplaced

LEMMA UserKeepsPreviews ==
  ASSUME PageAssumption, PageIInv, PreviewParts,
         \/ OpenFromList \/ Browse \/ NewRun \/ RetryPreview \/ Generate \/ EditShown
         \/ AskDelete \/ CancelDelete \/ ConfirmDelete
  PROVE  PreviewParts'
<1>t. opening \in [Openings -> OpeningCalls]
  BY DEF PageIInv, ClientTypeOK
<1>j. UNCHANGED working => JobIsOfItsSite'
  BY DEF PreviewParts, JobIsOfItsSite, Busy
<1>1. CASE OpenFromList \/ Browse
  <2>1. /\ UNCHANGED <<shown, showing, crossed, mishap, working>>
        /\ \E s \in Sites \cup {"/"} : Rendered(opening, s, shown)
    BY <1>1 DEF OpenFromList, Browse
  <2> QED
    BY <1>t, <1>j, <2>1, RenderingKeeps, QuietKeepsPreviews
<1>2. CASE NewRun
  BY <1>2, LeavingKeepsPreviews DEF NewRun
<1>3. CASE RetryPreview
  <2>1. UNCHANGED <<shown, showing, crossed, mishap, working>>
    BY <1>3 DEF RetryPreview
  <2>2. PICK o \in Openings :
          /\ opening[o] = NoCall
          /\ opening' = [opening EXCEPT ![o] = [site |-> shown, call |-> "preview",
                                                version |-> selected.version]]
    BY <1>3 DEF RetryPreview
  <2>3. opening'[o].site = shown /\ \A p \in Openings \ {o} : opening'[p] = opening[p]
    BY <1>t, <2>2
  <2>4. opening[o].call # "site"
    BY <2>2 DEF NoCall
  <2> QED
    BY <1>j, <2>1, <2>3, <2>4, QuietKeepsPreviews
<1>4. CASE Generate \/ EditShown
  <2>1. UNCHANGED <<shown, showing, crossed, mishap, opening>> /\ working'.call = "job"
    BY <1>4 DEF Generate, EditShown
  <2>2. JobIsOfItsSite'
    BY <2>1 DEF JobIsOfItsSite
  <2> QED
    BY <2>1, <2>2, QuietKeepsPreviews
<1>5. CASE AskDelete \/ CancelDelete \/ ConfirmDelete
  <2>1. UNCHANGED <<shown, showing, crossed, mishap, opening, working>>
    BY <1>5 DEF AskDelete, CancelDelete, ConfirmDelete
  <2> QED
    BY <1>j, <2>1, QuietKeepsPreviews
<1> QED
  BY <1>1, <1>2, <1>3, <1>4, <1>5

LEMMA AnswersKeepPreviews ==
  ASSUME PageAssumption, PageIInv, PreviewParts,
         \/ \E o \in Openings : SiteAnswers(o) \/ PreviewOpens(o) \/ OpeningFails(o)
         \/ \E d \in deleting : ServerDeletes(d) \/ Deleted(d) \/ DeleteFails(d)
  PROVE  PreviewParts'
<1>t. opening \in [Openings -> OpeningCalls]
  BY DEF PageIInv, ClientTypeOK
<1>j. UNCHANGED working => JobIsOfItsSite'
  BY DEF PreviewParts, JobIsOfItsSite, Busy
<1>1. ASSUME NEW o \in Openings, SiteAnswers(o)
      PROVE  PreviewParts'
  <2> DEFINE s == opening[o].site
             next == [opening EXCEPT ![o] = IF s \in served \/ versions[s] = 0 THEN NoCall
                                            ELSE [site |-> s, call |-> "preview",
                                                  version |-> versions[s]]]
  <2>1. /\ opening[o].call = "site" /\ ShowsSite(s) /\ Rendered(next, route, s) /\ Turns
        /\ UNCHANGED working
    BY <1>1 DEF SiteAnswers
  <2>2. s \in Sites
    BY <1>t, <2>1 DEF OpeningCalls, NoCall
  <2>3. versions[s] \in 0..New
    BY <2>2, NewestVersion DEF PageIInv
  <2>4. /\ NoCall \in OpeningCalls
        /\ [site |-> s, call |-> "preview", version |-> versions[s]] \in OpeningCalls
    BY <2>2, <2>3 DEF OpeningCalls
  <2>5. next \in [Openings -> OpeningCalls]
    BY <1>t, <2>4
  <2>6. \A p \in Openings : next[p].call = "preview" => next[p] = opening[p] \/ next[p].site = s
    BY <1>t DEF NoCall
  <2>7. \A p \in Openings : opening'[p].call = "preview" =>
                              opening'[p] = opening[p] \/ opening'[p].site = s
    BY <2>1, <2>5, <2>6, RenderingKeeps
  <2> QED
    BY <1>j, <2>1, <2>2, <2>7, ShowingKeepsPreviews
<1>2. ASSUME NEW o \in Openings, PreviewOpens(o)
      PROVE  PreviewParts'
  <2>1. /\ opening[o].call = "preview" /\ showing'.site = opening[o].site
        /\ opening' = [opening EXCEPT ![o] = NoCall] /\ UNCHANGED <<shown, working, crossed, mishap>>
    BY <1>2 DEF PreviewOpens
  <2>2. \A p \in Openings : opening'[p] = opening[p] \/ opening'[p] = NoCall
    BY <1>t, <2>1
  <2>3. PreviewsAreShown'
    BY <2>1, <2>2 DEF PreviewParts, PreviewsAreShown, Busy, NoCall
  <2>4. ForeignIsReplaced'
    BY <2>1 DEF PreviewParts, PreviewsAreShown, ForeignIsReplaced, Foreign
  <2> QED
    BY <1>j, <2>1, <2>3, <2>4 DEF PreviewParts
<1>3. ASSUME NEW o \in Openings, OpeningFails(o)
      PROVE  PreviewParts'
  <2>1. /\ opening' = [opening EXCEPT ![o] = NoCall] /\ mishap' = TRUE
        /\ UNCHANGED <<shown, showing, working, crossed>>
    BY <1>3 DEF OpeningFails
  <2>2. \A p \in Openings : opening'[p].call = "preview" => opening'[p] = opening[p]
    BY <1>t, <2>1 DEF NoCall
  <2> QED
    BY <1>j, <2>1, <2>2, QuietKeepsPreviews
<1>4. ASSUME NEW d \in deleting, ServerDeletes(d) \/ Deleted(d) \/ DeleteFails(d)
      PROVE  PreviewParts'
  <2>1. UNCHANGED <<opening, working, mishap>>
    BY <1>4 DEF ServerDeletes, Deleted, DeleteFails
  <2>2. (Leaves /\ Turns) \/ (UNCHANGED <<shown, showing>> /\ (crossed' = crossed \/ Turns))
    BY <1>4 DEF ServerDeletes, Deleted, DeleteFails
  <2>3. CASE Leaves /\ Turns
    BY <2>1, <2>3, LeavingKeepsPreviews
  <2>4. CASE UNCHANGED <<shown, showing>> /\ (crossed' = crossed \/ Turns)
    <3>1. crossed' = crossed
      BY <2>4 DEF Turns, PageIInv, ClientTypeOK
    <3> QED
      BY <1>j, <2>1, <2>4, <3>1, QuietKeepsPreviews
  <2> QED
    BY <2>2, <2>3, <2>4
<1> QED
  BY <1>1, <1>2, <1>3, <1>4

LEMMA WorkKeepsPreviews ==
  ASSUME PageAssumption, PageIInv, PageIInv', PreviewParts,
         JobSucceeds \/ JobFails \/ WorkAnswers \/ WorkEnds
  PROVE  PreviewParts'
<1>t. opening \in [Openings -> OpeningCalls] /\ working \in Work
  BY DEF PageIInv, ClientTypeOK
<1>1. CASE JobSucceeds
  <2>1. UNCHANGED <<shown, showing, opening, crossed, mishap>> /\ working'.call = "site"
        /\ working'.job.site = working'.site
    BY <1>1 DEF JobSucceeds
  <2>2. JobIsOfItsSite'
    BY <2>1 DEF JobIsOfItsSite
  <2> QED
    BY <2>1, <2>2, QuietKeepsPreviews
<1>2. CASE JobFails
  <2>1. UNCHANGED <<shown, showing, opening, crossed, mishap>> /\ ~Busy'
    BY <1>2 DEF JobFails, Settles, Busy
  <2>2. JobIsOfItsSite'
    BY <2>1 DEF JobIsOfItsSite
  <2> QED
    BY <2>1, <2>2, QuietKeepsPreviews
<1>3. CASE WorkAnswers \/ WorkEnds
  <2> DEFINE s == working.site
  <2>1. working # Unset /\ working.call \in {"site", "preview", "navigate"}
    BY <1>3 DEF WorkAnswers, WorkEnds
  <2>2. /\ working \in [site : Sites, call : {"site", "preview", "navigate"},
                         job : [site : Sites, version : 0..New], previewed : BOOLEAN]
        /\ s \in Sites /\ working.job.site = s
    <3>1. working \in [site : Sites, call : {"site", "preview", "navigate"},
                       job : [site : Sites, version : 0..New], previewed : BOOLEAN]
      BY <1>t, <2>1 DEF Work
    <3>2. working.job.site = s
      BY <2>1 DEF PreviewParts, JobIsOfItsSite, Busy
    <3> QED
      BY <3>1, <3>2, Zenon
  <2>3. CASE WorkEnds
    <3>1. /\ route' = s /\ Rendered(opening, s, shown) /\ working' = Unset
          /\ showing' = (IF working.previewed THEN working.job ELSE showing)
          /\ UNCHANGED <<shown, crossed, mishap>>
      BY <2>3 DEF WorkEnds, Settles
    <3>2. /\ \A o \in Openings : opening[o].call = "site" => opening'[o].call = "site"
          /\ \A o \in Openings : opening'[o].call = "preview" => opening'[o] = opening[o]
      BY <1>t, <3>1, RenderingKeeps
    <3>3. ~Busy'
      BY <3>1 DEF Busy
    <3>4. PreviewsAreShown' /\ JobIsOfItsSite'
      BY <3>1, <3>2, <3>3 DEF PreviewParts, PreviewsAreShown, JobIsOfItsSite
    <3>5. ForeignIsReplaced'
      <4>1. CASE showing' = working.job
        <5>1. ASSUME Foreign', ~mishap'
              PROVE  \E o \in Openings : opening'[o].call = "site"
          <6>1. route' \in Sites /\ shown' # route'
            BY <2>2, <3>1, <4>1, <5>1 DEF Foreign
          <6> QED
            BY <5>1, <6>1 DEF PageIInv, OnItsWay
        <5> QED
          BY <5>1 DEF ForeignIsReplaced
      <4>2. CASE showing' = showing
        BY <3>1, <3>2, <4>2 DEF PreviewParts, ForeignIsReplaced, Foreign
      <4> QED
        BY <3>1, <4>1, <4>2
    <3> QED
      BY <3>4, <3>5 DEF PreviewParts
  <2>4. CASE WorkAnswers
    <3>1. Turns /\ UNCHANGED mishap
      BY <2>4 DEF WorkAnswers
    <3>2. /\ working' = [working EXCEPT !.call = "preview"]
             \/ working' = [working EXCEPT !.call = "navigate"]
      BY <2>4 DEF WorkAnswers
    <3>3. working'.site = s /\ working'.job = working.job
          /\ (working'.call = "preview" => working' = [working EXCEPT !.call = "preview"])
      BY <2>2, <3>2
    <3>4. JobIsOfItsSite'
      BY <2>2, <3>3 DEF JobIsOfItsSite
    <3>5. CASE ShowsSite(s) /\ Rendered(opening, route, s)
      <4>1. \A o \in Openings : opening'[o].call = "preview" => opening'[o] = opening[o]
        BY <1>t, <3>5, RenderingKeeps
      <4> QED
        BY <2>2, <3>1, <3>3, <3>4, <3>5, <4>1, ShowingKeepsPreviews
    <3>6. CASE /\ working.call = "preview" /\ showing' = working.job
               /\ working' = [working EXCEPT !.call = "navigate"] /\ UNCHANGED <<shown, selected, opening>>
      <4>1. crossed' = crossed
        BY <3>1, <3>6 DEF Turns, PageIInv, ClientTypeOK
      <4>2. working'.call # "preview"
        BY <2>2, <3>6
      <4>3. PreviewsAreShown'
        BY <3>6, <4>1, <4>2 DEF PreviewParts, PreviewsAreShown
      <4>4. ForeignIsReplaced'
        BY <2>1, <2>2, <3>6, <4>1 DEF PreviewParts, PreviewsAreShown, ForeignIsReplaced, Foreign, Busy
      <4> QED
        BY <3>4, <4>3, <4>4 DEF PreviewParts
    <3>7. CASE /\ working' = [working EXCEPT !.call = "navigate"]
               /\ UNCHANGED <<served, shown, selected, showing, opening>>
      <4>1. crossed' = crossed
        BY <3>1, <3>7 DEF Turns, PageIInv, ClientTypeOK
      <4>2. working'.call # "preview"
        BY <2>2, <3>7
      <4> QED
        BY <3>1, <3>4, <3>7, <4>1, <4>2, QuietKeepsPreviews
    <3> QED
      BY <2>4, <3>5, <3>6, <3>7 DEF WorkAnswers
  <2> QED
    BY <1>3, <2>3, <2>4
<1> QED
  BY <1>1, <1>2, <1>3

LEMMA PreviewsStart ==
  ASSUME PageAssumption, ClientInit
  PROVE  PreviewParts
BY DEF ClientInit, PreviewParts, JobIsOfItsSite, PreviewsAreShown, ForeignIsReplaced, Foreign, Busy,
       NoCall, Nobody

LEMMA PreviewsStep ==
  ASSUME PageAssumption, PageIInv, PageIInv', PreviewParts, [ClientNext]_clientVars
  PROVE  PreviewParts'
<1>1. CASE UNCHANGED clientVars
  <2>1. UNCHANGED <<shown, showing, opening, working, mishap, crossed>>
    BY <1>1 DEF clientVars
  <2> QED
    BY <2>1 DEF PreviewParts, JobIsOfItsSite, PreviewsAreShown, ForeignIsReplaced, Foreign, Busy
<1> QED
  BY <1>1, UserKeepsPreviews, AnswersKeepPreviews, WorkKeepsPreviews DEF ClientNext

LEMMA PageHolds ==
  ASSUME PageAssumption, PageIInv, PreviewParts
  PROVE  PageIsConsistent
<1>1. AtRest => \A o \in Openings : opening[o].call # "site"
  BY RequestsAreNotUnset DEF AtRest, PageIInv, ClientTypeOK, NoCall
<1>2. AtRest /\ route \in Sites /\ ~mishap => shown = route
  BY <1>1 DEF PageIInv, OnItsWay
<1>3. AtRest /\ {shown, showing.site} \subseteq Sites /\ ~mishap /\ ~crossed => showing.site = shown
  BY <1>1 DEF PreviewParts, ForeignIsReplaced, Foreign
<1>4. shown # Nobody => selected.site = shown
  BY DEF PageIInv, ShownIsSelected
<1>5. turnsPending <= 1 /\ (turnsPending = 1 => Busy)
  BY DEF PageIInv, TurnsAreAwaited
<1> QED
  BY <1>2, <1>3, <1>4, <1>5 DEF PageIsConsistent

\* The parts of the page and of the server it talks to keep their shapes.
THEOREM PageTypeCorrect == ClientSpec => []ClientTypeOK
<1>1. PageIInv => ClientTypeOK
  BY DEF PageIInv
<1> QED
  BY <1>1, PageStart, PageStep, PageAssumption, PTL DEF ClientSpec

\* One turn is pending at most, an edit starts from a version of the site it edits, and a page
\* that waits for nothing shows the site its address names, with a preview of that site unless it
\* turned elsewhere while a preview was awaited, for any sites, openings, deletions and order of
\* the answers (PageIsConsistent, which the services run checks for two sites).
THEOREM PageStaysConsistent == ClientSpec => []PageIsConsistent
BY PageStart, PageStep, PreviewsStart, PreviewsStep, PageHolds, PageAssumption, PTL DEF ClientSpec

-----------------------------------------------------------------------------
(* Environments *)

\* The parts of the local provider keep their shapes.
THEOREM LocalTypeCorrect == ExecutionSpec => []ExecutionTypeOK
<1>1. LocalIInv => ExecutionTypeOK
  BY DEF LocalIInv
<1> QED
  BY <1>1, LocalStart, LocalStep, PTL DEF ExecutionSpec

\* The parts of the remote provider keep their shapes.
THEOREM DaytonaTypeCorrect == DaytonaSpec => []DaytonaTypeOK
<1>1. DaytonaIInv => DaytonaTypeOK
  BY DEF DaytonaIInv
<1> QED
  BY <1>1, DaytonaStart, DaytonaStep, PTL DEF DaytonaSpec

\* A destroyed environment leaves nothing behind, a verdict is that of a build that ended by
\* itself, and a sandbox that runs can be destroyed, for any environments, sandboxes, calls
\* and ports (EnvironmentsAccounted, which the services run checks for one of each).
THEOREM EnvironmentsSound == ExecutionSpec /\ DaytonaSpec => []EnvironmentsAccounted
<1>1. ExecutionSpec => [](GoneIsGone /\ VerdictIsTrue)
  BY LocalStart, LocalStep, LocalHolds, PTL DEF ExecutionSpec
<1>2. DaytonaIInv => RunningIsOwned
  BY DEF DaytonaIInv
<1>3. DaytonaSpec => []RunningIsOwned
  BY <1>2, DaytonaStart, DaytonaStep, PTL DEF DaytonaSpec
<1> QED
  BY <1>1, <1>3, PTL DEF EnvironmentsAccounted
=============================================================================
