--------------------------- MODULE PromptRegistry ---------------------------
(***************************************************************************)
(* The prompts and contracts of one agent (agents/prompts, agents/         *)
(* contracts): immutable versions, a pointer to the prompt that new runs   *)
(* use, the record of its releases, and the two ways in which a run finds  *)
(* its prompt. The contract in force is the highest active version; the    *)
(* prompt in force is the one released.                                    *)
(***************************************************************************)
EXTENDS Naturals, Sequences, FiniteSetsExt

CONSTANTS
  PromptVersions, ContractVersions,
  PromptDefs,    \* [status, fits: versions of the contract, reply: a format or "any"]
  ContractDefs,  \* [status, reply, names: a prompt version or 0]
  MaxReleases

ASSUME RegistryAssumption ==
  /\ PromptVersions \subseteq Nat \ {0} /\ ContractVersions \subseteq Nat \ {0}
  /\ \A def \in PromptDefs : def.fits \subseteq ContractVersions
  /\ MaxReleases \in Nat

VARIABLES
  prompts,    \* prompts[v]: Unregistered or a definition
  contracts,  \* contracts[k]
  current,    \* the prompt version for new runs, or 0
  releases,   \* the release history
  first       \* history: the pointer that a registration set by itself

registryVars == <<prompts, contracts, current, releases, first>>

Unregistered == [status |-> "unregistered"]
Registered(def) == def # Unregistered
Active(def) == def.status = "ACTIVE"

RegistryInit ==
  /\ prompts = [v \in PromptVersions |-> Unregistered]
  /\ contracts = [k \in ContractVersions |-> Unregistered]
  /\ current = 0 /\ releases = <<>> /\ first = 0

-----------------------------------------------------------------------------
RegisterContract(k, def) ==
  /\ ~Registered(contracts[k])
  /\ contracts' = [contracts EXCEPT ![k] = def]
  /\ UNCHANGED <<prompts, current, releases, first>>

MutRepliesUnchecked(def) == Active(def) => def.fits # {} /\ \A k \in def.fits : Registered(contracts[k])

\* An active prompt meets contracts that exist and whose answers have its format
ValidPrompt(def) ==
  Active(def) =>
    /\ def.fits # {}
    /\ \A k \in def.fits : Registered(contracts[k]) /\ def.reply \in {"any", contracts[k].reply}

MutNoRecord(v) == current' = v /\ UNCHANGED releases

Points(v) ==
  /\ current' = v
  /\ releases' = Append(releases, [from |-> current, to |-> v])

\* A version that is asked to be current and is not active stays registered, and register throws
RegisterPrompt(v, def, asCurrent) ==
  /\ ~Registered(prompts[v]) /\ ValidPrompt(def)
  /\ prompts' = [prompts EXCEPT ![v] = def]
  /\ IF asCurrent /\ Active(def) THEN Points(v) /\ UNCHANGED first
     ELSE IF ~asCurrent /\ Active(def) /\ current = 0
     THEN current' = v /\ first' = v /\ UNCHANGED releases
     ELSE UNCHANGED <<current, releases, first>>
  /\ UNCHANGED contracts

MutAnyStatus(v) ==
  /\ Registered(prompts[v])
  /\ Points(v) /\ UNCHANGED <<prompts, contracts, first>>

\* setCurrentPrompt, and a rollback, which is a release of an earlier version
Release(v) ==
  /\ Registered(prompts[v]) /\ Active(prompts[v])
  /\ Points(v) /\ UNCHANGED <<prompts, contracts, first>>

RegistryNext ==
  \/ \E k \in ContractVersions, def \in ContractDefs : RegisterContract(k, def)
  \/ /\ Len(releases) < MaxReleases
     /\ \/ \E v \in PromptVersions, def \in PromptDefs, asCurrent \in BOOLEAN :
             RegisterPrompt(v, def, asCurrent)
        \/ \E v \in PromptVersions : Release(v)

RegistrySpec == RegistryInit /\ [][RegistryNext]_registryVars

-----------------------------------------------------------------------------
(* What a new run uses: a version, or 0 when it is refused *)

ActiveContracts == {k \in ContractVersions : Active(contracts[k])}
InForce == Max(ActiveContracts)

Usable(v) ==
  /\ v \in PromptVersions /\ Registered(prompts[v])
  /\ InForce \in prompts[v].fits /\ Active(prompts[v])

\* resolveAgentPrompt: the released prompt
ForAgent ==
  IF /\ ActiveContracts # {} /\ Usable(current)
     /\ prompts[current].reply \in {"any", contracts[InForce].reply}
  THEN current ELSE 0

\* resolveSitePlanningPrompt: the version the contract names, if it names one; the format of
\* the answer is not compared
ForPlanner ==
  IF ActiveContracts = {} THEN 0
  ELSE LET v == IF contracts[InForce].names = 0 THEN current ELSE contracts[InForce].names
       IN IF Usable(v) THEN v ELSE 0

-----------------------------------------------------------------------------
(* Properties *)

\* Definitions are of the known ones, the pointer names a version or none, and so do the
\* releases.
RegistryTypeOK ==
  /\ prompts \in [PromptVersions -> PromptDefs \cup {Unregistered}]
  /\ contracts \in [ContractVersions -> ContractDefs \cup {Unregistered}]
  /\ current \in PromptVersions \cup {0} /\ first \in PromptVersions \cup {0}
  /\ releases \in Seq([from : PromptVersions \cup {0}, to : PromptVersions])

\* The pointer names an active prompt, and the release history leads to it without a gap
\* from what the first registration chose.
PointerIsReleased ==
  /\ current # 0 => Active(prompts[current])
  /\ \A i \in DOMAIN releases :
       releases[i].from = (IF i = 1 THEN first ELSE releases[i - 1].to)
  /\ current = (IF releases = <<>> THEN first ELSE releases[Len(releases)].to)

\* A run gets an active prompt made for the contract in force, and the model is told the
\* format which that contract's answers are read by.
PromptFitsContract ==
  \A v \in {ForAgent, ForPlanner} \ {0} :
    /\ Active(prompts[v]) /\ InForce \in prompts[v].fits
    /\ prompts[v].reply \in {"any", contracts[InForce].reply}

\* The pointer of a prompt is released, and what a run is given fits its contract.
PromptsHold == PointerIsReleased /\ PromptFitsContract
=============================================================================
