------------------------ MODULE TemplateInstantiation ------------------------
(***************************************************************************)
(* A user takes a template as it is: the archive is fetched and checked,   *)
(* unpacked to a temporary directory, installed, built and opened in an    *)
(* environment, and what it leaves becomes version 1 of a new site, whose  *)
(* preview the preview manager adopts. Every step can fail. Project and    *)
(* version are two writes, and the owner sees the project from the first   *)
(* one on. Every call makes a site of its own: calls share nothing.        *)
(***************************************************************************)
EXTENDS Naturals, FiniteSets

CONSTANTS Instantiations

Artifacts == {"source", "manifest", "qa report", "build"}

VARIABLES
  template,     \* template[i]: the record asked for: "absent", "inactive" or "active"
  archive,      \* archive[i]: the archive in the store: "absent", "intact" or "damaged"
  stage,        \* stage[i]: where the call stands
  scratch,      \* scratch[i]: its temporary directory exists
  environment,  \* environment[i]: "none", "live", "previewing" or "gone"
  stored,       \* stored[i]: artifacts under the prefix of the site
  project,      \* project[i]: "none", "draft", "active" or "deleted"
  adopted,      \* adopted[i]: the preview manager owns the environment
  failure,      \* failure[i]: the call has thrown
  spared,       \* spared[i]: what a clean-up of it that failed left behind
  ownerLeft     \* ownerLeft[i]: the owner deleted the site

instantiationVars == <<template, archive, stage, scratch, environment, stored, project, adopted,
                       failure, spared, ownerLeft>>

InstantiationInit ==
  /\ template \in [Instantiations -> {"absent", "inactive", "active"}]
  /\ archive \in [Instantiations -> {"absent", "intact", "damaged"}]
  /\ stage = [i \in Instantiations |-> "resolve"]
  /\ scratch = [i \in Instantiations |-> FALSE]
  /\ environment = [i \in Instantiations |-> "none"]
  /\ stored = [i \in Instantiations |-> {}]
  /\ project = [i \in Instantiations |-> "none"]
  /\ adopted = [i \in Instantiations |-> FALSE]
  /\ failure = [i \in Instantiations |-> FALSE]
  /\ spared = [i \in Instantiations |-> {}]
  /\ ownerLeft = [i \in Instantiations |-> FALSE]

Stands(i, s) == stage[i] = s
GoesOn(i, s) == stage' = [stage EXCEPT ![i] = s]
Throws(i, s) == GoesOn(i, s) /\ failure' = [failure EXCEPT ![i] = TRUE]

\* The record, the archive and its digest: nothing is there yet that must be undone
Resolve(i) ==
  /\ Stands(i, "resolve")
  /\ IF template[i] = "active" /\ archive[i] = "intact"
     THEN GoesOn(i, "unpack") /\ scratch' = [scratch EXCEPT ![i] = TRUE] /\ UNCHANGED failure
     ELSE Throws(i, "over") /\ UNCHANGED scratch
  /\ UNCHANGED <<template, archive, environment, stored, project, adopted, spared,
                 ownerLeft>>

\* A store, or the creation of the directory, that fails
ResolveFails(i) ==
  /\ Stands(i, "resolve") /\ Throws(i, "over")
  /\ UNCHANGED <<template, archive, scratch, environment, stored, project, adopted, spared,
                 ownerLeft>>

\* Any step up to the commit can throw, one that stores may have stored by then
Guarded == {"unpack", "environment", "files", "install", "build", "preview", "qa", "snapshot",
            "report", "build_artifact", "project", "commit"}
Storing == [snapshot |-> {"source", "manifest"}, report |-> {"qa report"},
            build_artifact |-> {"build"}]
StepFails(i) ==
  /\ stage[i] \in Guarded /\ Throws(i, "erase")
  /\ \E some \in SUBSET (IF stage[i] \in DOMAIN Storing THEN Storing[stage[i]] ELSE {}) :
       stored' = [stored EXCEPT ![i] = @ \cup some]
  /\ UNCHANGED <<template, archive, scratch, environment, project, adopted, spared,
                 ownerLeft>>

\* Steps that change nothing but the environment: unpack, validate, write, install, build
Following == [unpack |-> "environment", files |-> "install", install |-> "build",
              build |-> "preview", qa |-> "snapshot"]
Proceeds(i) ==
  /\ stage[i] \in DOMAIN Following /\ GoesOn(i, Following[stage[i]])
  /\ UNCHANGED <<template, archive, scratch, environment, stored, project, adopted, failure, spared,
                 ownerLeft>>

CreateSiteEnvironment(i) ==
  /\ Stands(i, "environment") /\ GoesOn(i, "files")
  /\ environment' = [environment EXCEPT ![i] = "live"]
  /\ UNCHANGED <<template, archive, scratch, stored, project, adopted, failure, spared,
                 ownerLeft>>

OpenPreview(i) ==
  /\ Stands(i, "preview") /\ GoesOn(i, "qa")
  /\ environment' = [environment EXCEPT ![i] = "previewing"]
  /\ UNCHANGED <<template, archive, scratch, stored, project, adopted, failure, spared,
                 ownerLeft>>

\* The snapshot is two objects, the QA report and the build one each
Stores(i, s, after) ==
  /\ Stands(i, s) /\ GoesOn(i, after)
  /\ stored' = [stored EXCEPT ![i] = @ \cup Storing[s]]
  /\ UNCHANGED <<template, archive, scratch, environment, project, adopted, failure, spared,
                 ownerLeft>>

\* projects.save: the answer can be lost
SaveProject(i) ==
  /\ Stands(i, "project")
  /\ project' = [project EXCEPT ![i] = "draft"]
  /\ \/ GoesOn(i, "commit") /\ UNCHANGED failure
     \/ Throws(i, "erase")
  /\ UNCHANGED <<template, archive, scratch, environment, stored, adopted, spared,
                 ownerLeft>>

\* commit finds the project as this call saved it, or refuses; its answer can be lost
MutCommitsBlindly(i) == TRUE
Commits(i) == project[i] = "draft"
Commit(i) ==
  /\ Stands(i, "commit") /\ Commits(i)
  /\ project' = [project EXCEPT ![i] = "active"]
  /\ \/ GoesOn(i, "tidy") /\ UNCHANGED failure
     \/ Throws(i, "erase")
  /\ UNCHANGED <<template, archive, scratch, environment, stored, adopted, spared,
                 ownerLeft>>

\* cleanupSite: the row, then the artifacts; what it throws is swallowed
MutErasesActiveOnly(i) ==
  /\ project' = [project EXCEPT ![i] = IF @ = "active" THEN "deleted" ELSE @]
  /\ stored' = [stored EXCEPT ![i] = {}] /\ UNCHANGED spared
Erased(i) ==
  /\ project' = [project EXCEPT ![i] = IF @ = "none" THEN @ ELSE "deleted"]
  /\ \/ stored' = [stored EXCEPT ![i] = {}] /\ UNCHANGED spared
     \/ spared' = [spared EXCEPT ![i] = @ \cup {"artifacts"}] /\ UNCHANGED stored
NotErased(i) ==
  spared' = [spared EXCEPT ![i] = @ \cup {"project", "artifacts"}] /\ UNCHANGED <<project, stored>>

Erase(i) ==
  /\ Stands(i, "erase") /\ GoesOn(i, "tidy")
  /\ Erased(i) \/ NotErased(i)
  /\ UNCHANGED <<template, archive, scratch, environment, adopted, failure, ownerLeft>>

\* finally: the temporary directory. If its removal throws, the environment is not looked at
\* any more, and a call that had succeeded fails: its site is not erased
RemoveScratch(i) ==
  /\ Stands(i, "tidy")
  /\ \/ /\ scratch' = [scratch EXCEPT ![i] = FALSE] /\ UNCHANGED failure
        /\ GoesOn(i, IF failure[i] THEN "destroy" ELSE "adopt")
     \/ Throws(i, "over") /\ UNCHANGED scratch
  /\ UNCHANGED <<template, archive, environment, stored, project, adopted, spared, ownerLeft>>

\* Only a call that did not succeed destroys its environment, and does not hear whether it did
Destroyed(i) ==
  IF environment[i] = "none" THEN UNCHANGED <<environment, spared>>
  ELSE \/ environment' = [environment EXCEPT ![i] = "gone"] /\ UNCHANGED spared
       \/ spared' = [spared EXCEPT ![i] = @ \cup {"environment"}] /\ UNCHANGED environment

DestroyEnvironment(i) ==
  /\ Stands(i, "destroy") /\ GoesOn(i, "over") /\ Destroyed(i)
  /\ UNCHANGED <<template, archive, scratch, stored, project, adopted, failure, ownerLeft>>

\* instantiateTemplate hands the environment to the preview manager, which may refuse: then
\* the environment and the site go together
Adopt(i) ==
  /\ Stands(i, "adopt") /\ GoesOn(i, "over")
  /\ adopted' = [adopted EXCEPT ![i] = TRUE]
  /\ UNCHANGED <<template, archive, scratch, environment, stored, project, failure, spared, ownerLeft>>

AdoptRefused(i) ==
  /\ Stands(i, "adopt") /\ Throws(i, "refused")
  /\ UNCHANGED <<template, archive, scratch, environment, stored, project, adopted, spared,
                 ownerLeft>>

EraseAgain(i) ==
  /\ Stands(i, "refused") /\ GoesOn(i, "destroy")
  /\ Erased(i) \/ NotErased(i)
  /\ UNCHANGED <<template, archive, scratch, environment, adopted, failure, ownerLeft>>

\* The owner lists the project as soon as it is saved, and may delete it at once: a preview
\* that is adopted by then is stopped first, one that is not is adopted all the same
OwnerDeletes(i) ==
  /\ project[i] \in {"draft", "active"} /\ ownerLeft' = [ownerLeft EXCEPT ![i] = TRUE]
  /\ environment' = IF adopted[i] THEN [environment EXCEPT ![i] = "gone"] ELSE environment
  /\ project' = [project EXCEPT ![i] = "deleted"]
  /\ stored' = [stored EXCEPT ![i] = {}]
  /\ UNCHANGED <<template, archive, stage, scratch, adopted, failure, spared>>

InstantiationNext ==
  \E i \in Instantiations :
    \/ Resolve(i) \/ ResolveFails(i) \/ StepFails(i) \/ Proceeds(i)
    \/ CreateSiteEnvironment(i) \/ OpenPreview(i)
    \/ Stores(i, "snapshot", "report")
    \/ Stores(i, "report", "build_artifact")
    \/ Stores(i, "build_artifact", "project")
    \/ SaveProject(i) \/ Commit(i) \/ Erase(i) \/ RemoveScratch(i) \/ DestroyEnvironment(i)
    \/ Adopt(i) \/ AdoptRefused(i) \/ EraseAgain(i) \/ OwnerDeletes(i)

InstantiationSpec == InstantiationInit /\ [][InstantiationNext]_instantiationVars

-----------------------------------------------------------------------------
Leavings == {"project", "artifacts", "environment"}

InstantiationTypeOK ==
  /\ template \in [Instantiations -> {"absent", "inactive", "active"}]
  /\ archive \in [Instantiations -> {"absent", "intact", "damaged"}]
  /\ stage \in [Instantiations -> Guarded \cup {"resolve", "erase", "tidy", "destroy", "adopt",
                                                "refused", "over"}]
  /\ {scratch, adopted, failure, ownerLeft} \subseteq [Instantiations -> BOOLEAN]
  /\ environment \in [Instantiations -> {"none", "live", "previewing", "gone"}]
  /\ stored \in [Instantiations -> SUBSET Artifacts]
  /\ project \in [Instantiations -> {"none", "draft", "active", "deleted"}]
  /\ spared \in [Instantiations -> SUBSET Leavings]

\* The site of a call as its owner finds it: all of it, or nothing once the owner deleted it
SiteIsWhole(i) ==
  IF ownerLeft[i] THEN project[i] = "deleted"
  ELSE project[i] = "active" /\ stored[i] = Artifacts /\ environment[i] = "previewing"

\* The call erased the site, or tried to and the clean-up failed
ErasedOrTried(i) ==
  /\ project[i] \in {"none", "deleted"} \/ "project" \in spared[i]
  /\ stored[i] = {} \/ "artifacts" \in spared[i]

\* A call ends with everything or with nothing. When it returns, the site is whole, unless
\* its owner has deleted it since, its preview is owned and its directory gone. When it
\* throws, nobody owns a preview of it and no project and artifact is left that it did not
\* fail to erase, and no environment that it did not fail to destroy. The failure to remove
\* its directory is the one that it does not clean up after: the environment stays, and a
\* site that was committed by then stays whole, although the call has thrown.
AllOrNothing ==
  \A i \in Instantiations : stage[i] = "over" =>
    IF ~failure[i] THEN SiteIsWhole(i) /\ adopted[i] /\ ~scratch[i]
    ELSE /\ ~adopted[i]
         /\ ErasedOrTried(i) \/ (scratch[i] /\ SiteIsWhole(i))
         /\ environment[i] \in {"none", "gone"} \/ "environment" \in spared[i] \/ scratch[i]
=============================================================================
