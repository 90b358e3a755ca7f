---------------------------- MODULE SitePlanning ----------------------------
(***************************************************************************)
(* The plan of a site (agents/intelligence, planning): one request to a    *)
(* model, or one for each task, whose answer is parsed and validated, a    *)
(* cache of plans shared by the process, and rules that plan without a     *)
(* model when it fails. The pipeline makes a SiteSpec of the plan, which   *)
(* is validated once more.                                                 *)
(*                                                                         *)
(* Of a plan this module keeps its page paths, whether its auth part names *)
(* OWNER collections and whether its runtime enforces them.                *)
(***************************************************************************)
EXTENDS Naturals, Sequences, SequencesExt

CONSTANTS
  Plannings,       \* calls of the planner
  Prompts,         \* what users ask for
  KeyOf,           \* KeyOf[p]: p trimmed, in lower case, with single spaces
  Requested,       \* Requested[p]: the page paths the rules find in p
  Answers,         \* what a model may answer: whether it is JSON, and the forms whose other
                   \* parts are as they must be
  MaxBundlePages, MaxPlanPages,   \* 12 and 16
  MaxEntries       \* of the cache

\* Whatever is asked for has a key and a page that the rules find; a cache holds something
ASSUME PlanningAssumption ==
  /\ Prompts \subseteq DOMAIN KeyOf \cap DOMAIN Requested
  /\ MaxEntries \in Nat \ {0}

VARIABLES
  mode,       \* mode[c]: "AGENT", "AGENT_WITH_FALLBACK" or "DETERMINISTIC"
  separate,   \* separate[c]: c is plan() with the strategy SEPARATE
  asked,      \* asked[c]: its prompt
  stand,      \* stand[c]: "idle", "waiting", "done", "failed"
  tasks,      \* tasks[c]: answers that SEPARATE has collected
  parts,      \* parts[c]: what it keeps of them
  plan,       \* plan[c]: the plan returned
  flagged,    \* flagged[c]: its telemetry has the status FALLBACK
  spec,       \* spec[c]: "none", "valid" or "invalid"
  cancelled,  \* calls whose signal was aborted
  cache,      \* entries in the order of the Map
  validated   \* history: key and plan of every answer that was validated

planningVars == <<mode, separate, asked, stand, tasks, parts, plan, flagged, spec, cancelled,
                  cache, validated>>

Waiting == "waiting"
NoPlan == [by |-> "none", pages |-> <<>>, owns |-> FALSE, enforced |-> FALSE]

PlanningInit ==
  /\ mode \in [Plannings -> {"AGENT", "AGENT_WITH_FALLBACK", "DETERMINISTIC"}]
  /\ separate \in [Plannings -> BOOLEAN]
  /\ asked \in [Plannings -> Prompts]
  /\ stand = [c \in Plannings |-> "idle"]
  /\ tasks = [c \in Plannings |-> 0]
  /\ parts = [c \in Plannings |-> NoPlan]
  /\ plan = [c \in Plannings |-> NoPlan]
  /\ flagged = [c \in Plannings |-> FALSE]
  /\ spec = [c \in Plannings |-> "none"]
  /\ cancelled = {} /\ cache = <<>> /\ validated = {}

-----------------------------------------------------------------------------
(* Validation *)

Distinct(paths) == \A i, j \in DOMAIN paths : paths[i] = paths[j] => i = j
Absolute(path) == path # "relative"
Safe(path) == Absolute(path) /\ path # "/.."

PagesFit(paths, most) ==
  /\ paths # <<>> /\ Len(paths) <= most
  /\ Distinct(paths) /\ \A i \in DOMAIN paths : Safe(paths[i])

\* The consolidated form asks for requirements and a design and has defaults for the rest: a
\* bundle that also keeps its bounds is one. Auth is taken as it is
ValidSitePlan(value) == "plan" \in value.forms /\ PagesFit(value.pages, MaxPlanPages)

\* The form with a part for each task: an OWNER collection must be enforced
ValidBundle(value) ==
  /\ "bundle" \in value.forms /\ PagesFit(value.pages, MaxBundlePages)
  /\ value.owns => value.enforced

\* A JSON value after the outer fence is gone; a SitePlan is tried first, a bundle only
\* when it is none
Parsed(value) == value.json
Validated(value) == Parsed(value) /\ (ValidSitePlan(value) \/ ValidBundle(value))

PlanOf(value) ==
  [by |-> "agent", pages |-> value.pages, owns |-> value.owns, enforced |-> value.enforced]

\* The pages the prompt names, or else those its words suggest, of which there is always one
RulesPages(p) == Requested[p]

\* What the rules plan is not validated: ownerCollections are read off the runtime
RulesPlan(p) == [by |-> "rules", pages |-> RulesPages(p), owns |-> FALSE, enforced |-> FALSE]

\* sitePlanToSiteSpec, assembleSiteSpec
ValidSpec(value) ==
  /\ value.pages # <<>> /\ Distinct(value.pages)
  /\ \A i \in DOMAIN value.pages : Absolute(value.pages[i])

-----------------------------------------------------------------------------
(* The cache of the process *)

Key(c) == KeyOf[asked[c]]
EntriesOf(key) == {i \in DOMAIN cache : cache[i].key = key}
CacheHit(c) == \E i \in EntriesOf(Key(c)) : cache[i].fresh
Without(key) ==
  IF EntriesOf(key) = {} THEN cache ELSE RemoveAt(cache, CHOOSE i \in EntriesOf(key) : TRUE)

MutNoEviction(key, value) ==
  IF \E i \in DOMAIN cache : cache[i].key = key
  THEN [i \in DOMAIN cache |->
          IF cache[i].key = key THEN [key |-> key, plan |-> value, fresh |-> TRUE] ELSE cache[i]]
  ELSE Append(cache, [key |-> key, plan |-> value, fresh |-> TRUE])

\* A full cache loses its oldest entry, even when the key is there already
Stored(key, value) ==
  LET kept == IF Len(cache) >= MaxEntries THEN Tail(cache) ELSE cache
      new == [key |-> key, plan |-> value, fresh |-> TRUE]
  IN IF \E i \in DOMAIN kept : kept[i].key = key
     THEN [i \in DOMAIN kept |-> IF kept[i].key = key THEN new ELSE kept[i]]
     ELSE Append(kept, new)

Expire ==
  \E i \in DOMAIN cache :
    /\ cache[i].fresh
    /\ cache' = [cache EXCEPT ![i].fresh = FALSE]
    /\ UNCHANGED <<mode, separate, asked, stand, tasks, parts, plan, flagged, spec, cancelled,
                   validated>>

-----------------------------------------------------------------------------
(* One call *)

Returns(c, value, byFallback) ==
  /\ stand' = [stand EXCEPT ![c] = "done"]
  /\ plan' = [plan EXCEPT ![c] = value]
  /\ flagged' = [flagged EXCEPT ![c] = byFallback]

Throws(c) == stand' = [stand EXCEPT ![c] = "failed"] /\ UNCHANGED <<plan, flagged>>

MutAlwaysFallsBack(c) == Returns(c, RulesPlan(asked[c]), TRUE)

\* The catch of planSite takes every cause, a cancellation too; the one of plan()
\* with SEPARATE does not exist
Fails(c) ==
  IF separate[c] \/ mode[c] = "AGENT" THEN Throws(c)
  ELSE Returns(c, RulesPlan(asked[c]), TRUE)

\* The cache is asked before the mode; plan() with SEPARATE has no cache
CacheAnswers(c) ==
  /\ stand[c] = "idle" /\ ~separate[c] /\ CacheHit(c)
  /\ \E i \in EntriesOf(Key(c)) : Returns(c, cache[i].plan, FALSE)
  /\ UNCHANGED <<mode, separate, asked, tasks, parts, spec, cancelled, cache, validated>>

\* An expired entry is removed by the look that finds it
Looked(c) == IF separate[c] THEN cache ELSE Without(Key(c))

RulesAnswer(c) ==
  /\ stand[c] = "idle" /\ (separate[c] \/ ~CacheHit(c)) /\ mode[c] = "DETERMINISTIC"
  /\ Returns(c, RulesPlan(asked[c]), FALSE)
  /\ cache' = Looked(c)
  /\ UNCHANGED <<mode, separate, asked, tasks, parts, spec, cancelled, validated>>

\* request() throws at once for an aborted signal, in the try of planSite
AskPlanner(c) ==
  /\ stand[c] = "idle" /\ (separate[c] \/ ~CacheHit(c)) /\ mode[c] # "DETERMINISTIC"
  /\ IF c \in cancelled THEN Fails(c)
     ELSE stand' = [stand EXCEPT ![c] = Waiting] /\ UNCHANGED <<plan, flagged>>
  /\ cache' = Looked(c)
  /\ UNCHANGED <<mode, separate, asked, tasks, parts, spec, cancelled, validated>>

MutStoredUnchecked(c, value) ==
  /\ stand[c] = Waiting /\ ~separate[c]
  /\ IF Parsed(value)
     THEN /\ Returns(c, PlanOf(value), FALSE)
          /\ cache' = Stored(Key(c), PlanOf(value))
          /\ validated' = IF Validated(value) THEN validated \cup {<<Key(c), PlanOf(value)>>}
                         ELSE validated
     ELSE Fails(c) /\ UNCHANGED <<cache, validated>>
  /\ UNCHANGED <<mode, separate, asked, tasks, parts, spec, cancelled>>

\* The answer to planSite
TakePlan(c, value) ==
  /\ stand[c] = Waiting /\ ~separate[c]
  /\ IF Validated(value)
     THEN /\ Returns(c, PlanOf(value), FALSE)
          /\ cache' = Stored(Key(c), PlanOf(value))
          /\ validated' = validated \cup {<<Key(c), PlanOf(value)>>}
     ELSE Fails(c) /\ UNCHANGED <<cache, validated>>
  /\ UNCHANGED <<mode, separate, asked, tasks, parts, spec, cancelled>>

\* The answers to plan() with SEPARATE: requirements come first, the runtime fourth, auth
\* fifth, and the merged parts are not validated again
TakePart(c, value) ==
  /\ stand[c] = Waiting /\ separate[c]
  /\ IF Parsed(value) /\ ValidBundle(value)
     THEN LET n == tasks[c] + 1
              merged == [by |-> "agent",
                         pages |-> IF n = 1 THEN value.pages ELSE parts[c].pages,
                         owns |-> IF n = 5 THEN value.owns ELSE parts[c].owns,
                         enforced |-> IF n = 4 THEN value.enforced ELSE parts[c].enforced]
          IN /\ tasks' = [tasks EXCEPT ![c] = n]
             /\ parts' = [parts EXCEPT ![c] = merged]
             /\ IF n = 7 THEN Returns(c, merged, FALSE)
                ELSE IF c \in cancelled THEN Throws(c)
                ELSE UNCHANGED <<stand, plan, flagged>>
     ELSE Throws(c) /\ UNCHANGED <<tasks, parts>>
  /\ UNCHANGED <<mode, separate, asked, spec, cancelled, cache, validated>>

\* The provider fails, the run's budget refuses, or the timer or the relay aborts the request
ModelFails(c) ==
  /\ stand[c] = Waiting
  /\ Fails(c)
  /\ UNCHANGED <<mode, separate, asked, tasks, parts, spec, cancelled, cache, validated>>

AbortPlanning(c) ==
  /\ c \notin cancelled /\ stand[c] \in {"idle", Waiting}
  /\ cancelled' = cancelled \cup {c}
  /\ UNCHANGED <<mode, separate, asked, stand, tasks, parts, plan, flagged, spec, cache, validated>>

\* The pipeline goes on with the plan it was given
MakeSpec(c) ==
  /\ stand[c] = "done" /\ spec[c] = "none"
  /\ spec' = [spec EXCEPT ![c] = IF ValidSpec(plan[c]) THEN "valid" ELSE "invalid"]
  /\ UNCHANGED <<mode, separate, asked, stand, tasks, parts, plan, flagged, cancelled, cache,
                 validated>>

PlanningNext ==
  \/ Expire
  \/ \E c \in Plannings :
       \/ CacheAnswers(c) \/ RulesAnswer(c) \/ AskPlanner(c) \/ ModelFails(c) \/ AbortPlanning(c)
       \/ MakeSpec(c)
       \/ \E value \in Answers : TakePlan(c, value) \/ TakePart(c, value)

PlanningSpec == PlanningInit /\ [][PlanningNext]_planningVars

-----------------------------------------------------------------------------
(* Properties *)

Modes == {"AGENT", "AGENT_WITH_FALLBACK", "DETERMINISTIC"}
AgentPlans == {PlanOf(value) : value \in Answers}
Entries == [key : {KeyOf[p] : p \in Prompts}, plan : AgentPlans, fresh : BOOLEAN]

\* Calls and entries keep their shape, and a key has one entry at most.
PlanningTypeOK ==
  /\ mode \in [Plannings -> Modes] /\ separate \in [Plannings -> BOOLEAN]
  /\ asked \in [Plannings -> Prompts] /\ tasks \in [Plannings -> 0..7]
  /\ stand \in [Plannings -> {"idle", Waiting, "done", "failed"}]
  /\ DOMAIN parts = Plannings /\ DOMAIN plan = Plannings
  /\ \A c \in Plannings : plan[c].by \in {"none", "agent", "rules"}
  /\ flagged \in [Plannings -> BOOLEAN] /\ spec \in [Plannings -> {"none", "valid", "invalid"}]
  /\ cancelled \subseteq Plannings /\ cache \in Seq(Entries)
  /\ \A i, j \in DOMAIN cache : cache[i].key = cache[j].key => i = j

\* The cache keeps within its size what a model was asked for the same prompt and what was
\* validated; it never remembers a fallback.
CacheIsChecked ==
  /\ Len(cache) <= MaxEntries
  /\ \A i \in DOMAIN cache : <<cache[i].key, cache[i].plan>> \in validated

\* What planSite returns is a validated answer to the same prompt, of which a site can be
\* made, or it is what the rules make of the very prompt; a fallback is said to be one, and
\* there is none in the mode AGENT.
PlanIsAccounted(c) ==
  stand[c] = "done" /\ ~separate[c] =>
    \/ /\ plan[c].by = "agent" /\ <<Key(c), plan[c]>> \in validated
       /\ ~flagged[c] /\ spec[c] # "invalid"
    \/ /\ plan[c] = RulesPlan(asked[c])
       /\ mode[c] # "AGENT" /\ (flagged[c] <=> mode[c] = "AGENT_WITH_FALLBACK")

PlansAreChecked == CacheIsChecked /\ \A c \in Plannings : PlanIsAccounted(c)
=============================================================================
