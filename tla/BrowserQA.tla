------------------------------ MODULE BrowserQA ------------------------------
(***************************************************************************)
(* One browser QA run of a generated site (src/src/browser-qa): Chromium   *)
(* is launched, every viewport visits every route in a context of its own, *)
(* the checks run on each page, and the report's status decides whether    *)
(* the pipeline may commit the version.                                    *)
(*                                                                         *)
(* Two clocks race the checks: the page's deadline timer, which closes the *)
(* context under the check that is running, and the budget of the run.     *)
(* What the report keeps of a check is folded to what its status reads:    *)
(* whether some result blocks, whether some result warns, and which checks *)
(* have a result for which page.                                           *)
(***************************************************************************)
EXTENDS Naturals, Sequences

CONSTANTS
    Viewports,      \* the viewports, in the order they are visited
    Routes,         \* the routes, sorted and without repetition
    HasAssets,      \* whether the site's asset manifest names an asset
    LaunchRetries   \* policy.browserLaunchRetries

ASSUME QAAssumption ==
  Viewports \in Seq(STRING) /\ Routes \in Seq(STRING) /\ LaunchRetries \in Nat

VARIABLES
    acceptance,  \* "STRICT", "USABLE_GENERATION", or "TEMPLATE": a template is published
    qaPhase,       \* where the run stands
    launches,    \* browser launches that timed out
    browser,     \* "none", "open" or "closed"
    page,        \* the number of the page being visited
    limit,       \* what budgetMs of the page is cut from: "page" or "run"
    context,     \* "none", "open" or "closed"
    probe,       \* whether a probe page is open
    todo,        \* the checks this page has left, by their place in Checks
    expired,     \* the flag of #runPage
    events,      \* events observed on this page and its probes: page events, popups
    blocking,    \* whether some result is a FAIL of severity ERROR
    warned,      \* whether some result warns
    checked,     \* <<page, check>> that have a result
    raised,      \* every event of those kinds a load or a check has raised
    overrun,     \* whether some deadline passed before its page was finished
    report       \* the status of the report, "none", or "thrown"

qaVars == <<acceptance, qaPhase, launches, browser, page, limit, context, probe,
            todo, expired, events, blocking, warned, checked, raised, overrun,
            report>>

\* The kinds of event whose judgement the properties follow.
Kinds == {"error", "popup"}

Pages == 1 .. Len(Viewports) * Len(Routes)

\* Routes are the inner loop.
IsHome(p) == Routes[((p - 1) % Len(Routes)) + 1] = Routes[1]

(***************************************************************************)
(* The checks. "own" says that the check is of category INTERACTION or     *)
(* FORM and works on a probe page; "home" that it applies to the first     *)
(* route only. A verdict is what the report's status reads of a result:    *)
(* "WARNING" (a WARNING, or a FAIL of that severity), "BLOCKS" (a FAIL of  *)
(* severity ERROR), "DEMOTED" (one that the usable generation policy turns *)
(* into a warning), "PASS" (SKIPPED included).                             *)
(***************************************************************************)
Check(id, verdicts) ==
    [id |-> id, own |-> FALSE, home |-> FALSE, verdicts |-> {"PASS"} \cup verdicts]
Interaction(id, verdicts) == [Check(id, verdicts) EXCEPT !.own = TRUE]

PageError     == Check("runtime.page-error", {"BLOCKS"})
ConsoleError  == Check("runtime.console-error", {"WARNING"})
FailedRequest == Check("network.failed-request", {"BLOCKS", "WARNING"})
RouteLoad     == Check("route.load", {"BLOCKS"})
InternalLinks == Check("internal-links", {"BLOCKS", "DEMOTED", "WARNING"})
CoreChecks == <<PageError, ConsoleError, FailedRequest, RouteLoad, InternalLinks>>

Overflow         == Check("responsive-overflow", {"WARNING"})
InteractionSmoke == Interaction("interaction-smoke", {"DEMOTED", "WARNING"})
MobileNav        == Interaction("interaction.mobile-nav", {"WARNING"})
FormSmoke        == Interaction("form-smoke", {"WARNING"})
SafetyEvents     == Interaction("browser-safety-events", {"BLOCKS", "DEMOTED"})
InteractionChecks ==
    <<Overflow, InteractionSmoke, MobileNav, FormSmoke, SafetyEvents>>

BrokenImages  == Check("broken-images", {"WARNING"})
Accessibility == Check("accessibility-smoke", {"WARNING"})
RuntimeChecks == (IF HasAssets THEN <<BrokenImages>> ELSE <<>>) \o <<Accessibility>>

MeaningfulContent == Check("generation.meaningful-content", {})
PrimaryNavigation ==
    [Interaction("generation.primary-navigation", {}) EXCEPT !.home = TRUE]
Controls == Interaction("functional.controls", {})
RequirementAdvisories ==
    [Interaction("generation.requirement-advisories", {"WARNING"})
       EXCEPT !.home = TRUE]

\* The checks of an edit, and those of a generation.
StrictChecks == CoreChecks \o InteractionChecks \o RuntimeChecks
GenerationChecks ==
    CoreChecks \o <<MeaningfulContent, PrimaryNavigation>>
      \o InteractionChecks \o RuntimeChecks
      \o <<Controls, RequirementAdvisories>>

\* The checks of a template (templates/publishing/template-browser-qa.ts): some of the
\* shared ones, two of them made blocking, and its own.
SeriousConsole == Check("template.console-error", {"BLOCKS", "WARNING"})
LocalResources == Check("template.local-resources", {"BLOCKS", "WARNING"})
TemplateContent == Check("template.meaningful-content", {"BLOCKS"})
BlockingOverflow == Check(Overflow.id, {"BLOCKS"})
LocalImages == Check("template.broken-images", {"BLOCKS", "WARNING"})
BlockingInteraction == Interaction(InteractionSmoke.id, {"BLOCKS"})
PreviewCapture == Check("template.preview-capture", {})
TemplateChecks ==
    <<PageError, SeriousConsole, LocalResources, RouteLoad, TemplateContent, BlockingOverflow,
      LocalImages, BlockingInteraction, SafetyEvents, PreviewCapture>>

Checks == IF acceptance = "STRICT" THEN StrictChecks
          ELSE IF acceptance = "TEMPLATE" THEN TemplateChecks ELSE GenerationChecks
Ids == {Checks[k].id : k \in DOMAIN Checks}

\* advisoryChecks: a failure of one of these warns in a generation.
AdvisoryChecks == {"generation.requirement-advisories", "functional.requirements",
             "functional.navigation", "functional.controls", "interaction-smoke",
             "interaction.mobile-nav", "form-smoke", "responsive-overflow",
             "broken-images", "accessibility-smoke", "runtime.console-error"}

\* The checks that only read the events the runner observed.
Readers == {PageError.id, ConsoleError.id, FailedRequest.id, SafetyEvents.id,
            SeriousConsole.id, LocalResources.id}

Finals == {PageError.id, ConsoleError.id}
\* afterInteractions, which usableGenerationChecks sets.
LateChecks == IF acceptance = "USABLE_GENERATION" THEN {FailedRequest.id, SafetyEvents.id} ELSE {}

\* The checks that read the events come after those that may raise them; those
\* of one rank keep their order.
Rank(c) == IF c.id \in Finals THEN 2 ELSE IF c.id \in LateChecks THEN 1 ELSE 0
Before(j, k) == \/ Rank(Checks[j]) < Rank(Checks[k])
                \/ Rank(Checks[j]) = Rank(Checks[k]) /\ j < k
NextUp(k) == k \in todo /\ \A j \in todo \ {k} : Before(k, j)

Applies(c) == c.home => IsHome(page)

MutOnlyTheRunBudget == expired /\ limit = "run"

\* The flag the timer, the reserve and a cut check raise, read before each
\* check and once more when the last one has returned.
DeadlinePassed == expired

\* applyUsableGenerationReportPolicy, then aggregateBrowserQAStatus.
Blocks(verdict) == \/ verdict = "BLOCKS"
                   \/ verdict = "DEMOTED" /\ acceptance # "USABLE_GENERATION"
Warns(verdict) == verdict \in {"WARNING", "DEMOTED"} /\ ~Blocks(verdict)

\* A check that throws is a FAIL of severity ERROR, whatever its own is.
Thrown(c) == IF c.id \in AdvisoryChecks THEN "DEMOTED" ELSE "BLOCKS"

-----------------------------------------------------------------------------

QAInit ==
    /\ acceptance \in {"STRICT", "USABLE_GENERATION", "TEMPLATE"}
    /\ qaPhase = "launching" /\ launches = 0 /\ browser = "none"
    /\ page = 0 /\ limit = "page"
    /\ context = "none" /\ probe = FALSE /\ todo = {}
    /\ expired = FALSE /\ events = {}
    /\ blocking = FALSE /\ warned = FALSE /\ checked = {}
    /\ raised = {} /\ overrun = FALSE /\ report = "none"

PageVars == <<limit, context, probe, todo, expired, events>>
ResultVars == <<blocking, warned, checked>>
History == <<raised, overrun>>

Launched ==
    /\ qaPhase = "launching"
    /\ qaPhase' = "next" /\ browser' = "open" /\ page' = 1
    /\ UNCHANGED <<acceptance, launches, PageVars, ResultVars, History, report>>

\* Only a timeout is retried, and only so often.
LaunchTimesOut ==
    /\ qaPhase = "launching" /\ launches < LaunchRetries
    /\ launches' = launches + 1
    /\ UNCHANGED <<acceptance, qaPhase, browser, page, PageVars, ResultVars,
                   History, report>>

\* A launch that fails for good is a report of its own with one failure.
LaunchFails ==
    /\ qaPhase = "launching"
    /\ qaPhase' = "over" /\ report' = "FAIL" /\ blocking' = TRUE
    /\ UNCHANGED <<acceptance, launches, browser, page, PageVars, warned,
                   checked, History>>

-----------------------------------------------------------------------------
(* The page loop of run().                                                 *)

\* No time is left before the page begins: qa.run-budget, and the loop breaks.
OutOfTime ==
    /\ qaPhase = "next" /\ page \in Pages
    /\ qaPhase' = "closing" /\ blocking' = TRUE /\ overrun' = TRUE
    /\ UNCHANGED <<acceptance, launches, browser, page, PageVars, warned,
                   checked, raised, report>>

\* The time left only shrinks: a page cut by the run's budget is not followed
\* by one that has its own in full.
OpenPage ==
    /\ qaPhase = "next" /\ page \in Pages
    /\ \E l \in IF limit = "run" THEN {"run"} ELSE {"page", "run"} : limit' = l
    /\ qaPhase' = "loading" /\ context' = "open"
    /\ expired' = FALSE /\ events' = {}
    /\ UNCHANGED <<acceptance, launches, browser, page, probe, todo, ResultVars,
                   History, report>>

AllVisited ==
    /\ qaPhase = "next" /\ page \notin Pages
    /\ qaPhase' = "closing"
    /\ UNCHANGED <<acceptance, launches, browser, page, PageVars, ResultVars,
                   History, report>>

\* The deadline timer: the flag, and the context closed under whoever uses it.
DeadlineFires ==
    /\ context = "open" /\ qaPhase \in {"loading", "checking", "probing"}
    /\ expired' = TRUE /\ context' = "closed" /\ overrun' = TRUE
    /\ UNCHANGED <<acceptance, qaPhase, launches, browser, page, limit, probe,
                   todo, events, ResultVars, raised, report>>

\* The page is left: its results join the report, and the loop goes on to the
\* next page, or stops when the run's own budget was the limit.
LeavePage(cut) ==
    /\ context' = "none" /\ probe' = FALSE /\ todo' = {}
    /\ IF cut /\ limit = "run"
       THEN qaPhase' = "closing" /\ page' = page
       ELSE qaPhase' = "next" /\ page' = page + 1

\* deadlineResult(): the results so far and a failure that names the budget.
CutShort ==
    /\ LeavePage(TRUE)
    /\ blocking' = TRUE
    /\ UNCHANGED <<acceptance, launches, browser, limit, expired, events,
                   warned, checked, raised, report>>

\* Anything that throws outside a check, the closing of a probe included, ends
\* the whole run of pages with qa.infrastructure; a context the deadline closed
\* is a cut page instead.
PageThrows ==
    /\ qaPhase \in {"loading", "probing"}
    /\ IF DeadlinePassed
       THEN CutShort
       ELSE /\ qaPhase' = "closing" /\ context' = "none" /\ probe' = FALSE
            /\ todo' = {} /\ blocking' = TRUE
            /\ UNCHANGED <<acceptance, launches, browser, page, limit, expired,
                           events, warned, checked, raised, report>>
    /\ UNCHANGED overrun

\* goto, the settle window and the screenshot: page-readiness has its result.
Loads ==
    /\ qaPhase = "loading" /\ context = "open"
    /\ \E ready \in BOOLEAN, seen \in SUBSET Kinds :
         /\ events' = seen
         /\ raised' = raised \cup seen
         /\ blocking' = (blocking \/ ~ready)
    /\ qaPhase' = "checking" /\ todo' = DOMAIN Checks
    /\ UNCHANGED <<acceptance, launches, browser, page, limit, context, probe,
                   expired, warned, checked, overrun, report>>

-----------------------------------------------------------------------------
(* The check loop of #runPage.                                             *)

StopAtDeadline ==
    /\ qaPhase = "checking" /\ DeadlinePassed
    /\ CutShort
    /\ UNCHANGED overrun

EndOfPage ==
    /\ qaPhase = "checking" /\ ~DeadlinePassed /\ todo = {}
    /\ LeavePage(FALSE)
    /\ UNCHANGED <<acceptance, launches, browser, limit, expired, events,
                   ResultVars, History, report>>

Turn(k) == qaPhase = "checking" /\ ~DeadlinePassed /\ NextUp(k)

ResultStored(c) == checked' = checked \cup {<<page, c.id>>}

SkipCheck(k) ==
    /\ Turn(k) /\ ~Applies(Checks[k])
    /\ ResultStored(Checks[k])
    /\ todo' = todo \ {k}
    /\ UNCHANGED <<acceptance, qaPhase, launches, browser, page, limit, context,
                   probe, expired, events, blocking, warned, History, report>>

OpenProbe(k) ==
    /\ Turn(k) /\ Applies(Checks[k]) /\ Checks[k].own
    /\ context = "open"
    /\ qaPhase' = "probing" /\ probe' = TRUE
    /\ UNCHANGED <<acceptance, launches, browser, page, limit, context, todo,
                   expired, events, ResultVars, History, report>>

\* Whether a check runs now: on its probe, or on the shared page.
Running(k) == \/ qaPhase = "probing" /\ NextUp(k)
              \/ Turn(k) /\ Applies(Checks[k]) /\ ~Checks[k].own

\* The reserve of the page is gone before the check starts.
NoTimeForCheck(k) ==
    /\ Running(k)
    /\ CutShort
    /\ overrun' = TRUE

\* A check that returns: what it saw, with its own severity. One that reads
\* events has its verdict from what was observed; any other may raise an error
\* while it works, on the probe or on the shared page.
CheckReturns(k) ==
    /\ Running(k) /\ (context = "open" \/ Checks[k].id \in Readers)
    /\ LET c == Checks[k]
       IN  \E seen \in SUBSET Kinds, verdict \in c.verdicts :
             /\ ~c.own /\ c.id \in Readers => seen = {}
             /\ c.id = PageError.id =>
                  verdict = IF "error" \in events THEN "BLOCKS" ELSE "PASS"
             /\ c.id = SafetyEvents.id /\ "popup" \in events \cup seen =>
                  verdict = "BLOCKS"
             /\ events' = events \cup seen
             /\ raised' = raised \cup seen
             /\ blocking' = (blocking \/ Blocks(verdict))
             /\ warned' = (warned \/ Warns(verdict))
             /\ ResultStored(c)
    /\ qaPhase' = "checking" /\ probe' = FALSE /\ todo' = todo \ {k}
    /\ UNCHANGED <<acceptance, launches, browser, page, limit, context,
                   expired, overrun, report>>

\* A check that throws or times out: FAIL with severity ERROR whatever the
\* check's own is. A check cut by the page's time raises the flag.
CheckThrows(k) ==
    /\ Running(k)
    /\ LET c == Checks[k]
       IN  \E seen \in SUBSET Kinds, cut \in BOOLEAN :
             /\ c.own \/ c.id \notin Readers
             /\ context = "closed" => seen = {}
             /\ events' = events \cup seen
             /\ raised' = raised \cup seen
             /\ expired' = (expired \/ cut)
             /\ overrun' = (overrun \/ cut)
             /\ blocking' = (blocking \/ Blocks(Thrown(c)))
             /\ warned' = (warned \/ Warns(Thrown(c)))
             /\ ResultStored(c)
    /\ qaPhase' = "checking" /\ probe' = FALSE /\ todo' = todo \ {k}
    /\ UNCHANGED <<acceptance, launches, browser, page, limit, context, report>>

-----------------------------------------------------------------------------

\* aggregateBrowserQAStatus over every result.
StatusOf == IF blocking THEN "FAIL"
            ELSE IF warned THEN "PASS_WITH_WARNINGS" ELSE "PASS"

\* browser.close() may throw, and then run() has no report.
CloseBrowser ==
    /\ qaPhase = "closing"
    /\ qaPhase' = "over" /\ browser' = "closed"
    /\ report' \in {StatusOf, "thrown"}
    /\ UNCHANGED <<acceptance, launches, page, PageVars, ResultVars, History>>

QANext ==
    \/ Launched \/ LaunchTimesOut \/ LaunchFails
    \/ OutOfTime \/ OpenPage \/ AllVisited
    \/ DeadlineFires \/ PageThrows \/ Loads
    \/ StopAtDeadline \/ EndOfPage
    \/ \E k \in DOMAIN Checks :
         \/ SkipCheck(k) \/ OpenProbe(k)
         \/ NoTimeForCheck(k) \/ CheckReturns(k) \/ CheckThrows(k)
    \/ CloseBrowser

QASpec == QAInit /\ [][QANext]_qaVars

-----------------------------------------------------------------------------

QATypeOK ==
    /\ acceptance \in {"STRICT", "USABLE_GENERATION", "TEMPLATE"}
    /\ qaPhase \in {"launching", "next", "loading", "checking", "probing",
                  "closing", "over"}
    /\ launches \in 0 .. LaunchRetries
    /\ browser \in {"none", "open", "closed"}
    /\ page \in Nat
    /\ limit \in {"page", "run"}
    /\ context \in {"none", "open", "closed"}
    /\ probe \in BOOLEAN /\ expired \in BOOLEAN
    /\ todo \subseteq DOMAIN Checks
    /\ blocking \in BOOLEAN /\ warned \in BOOLEAN
    /\ checked \subseteq Pages \X Ids
    /\ events \subseteq raised /\ raised \subseteq Kinds
    /\ overrun \in BOOLEAN
    /\ report \in {"none", "thrown", "PASS", "PASS_WITH_WARNINGS", "FAIL"}

Accepted == report \in {"PASS", "PASS_WITH_WARNINGS"}

\* A report the pipeline accepts covers everything: every check has a result
\* for every viewport and route, and no deadline cut a page short. The policy
\* that turns advisory failures into warnings must not let a check that the
\* deadline killed pass for one that ran, and neither budget may end the loops
\* early without a failure that says so. It also hides no uncaught error, and
\* no popup of a generation: whatever raised it, the load of a page or an
\* interaction on a probe, the check that reads it runs after every check that
\* may raise it. (browser-safety-events of an edit runs where it is listed.)
AcceptedIsChecked ==
    Accepted => /\ ~overrun
                /\ checked = Pages \X Ids
                /\ "error" \notin raised
                /\ acceptance = "USABLE_GENERATION" => "popup" \notin raised
=============================================================================
