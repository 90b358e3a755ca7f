------------------------------ MODULE WebClient ------------------------------
(***************************************************************************)
(* The playground page (web/src/App.tsx): the address, the site it shows   *)
(* with one of its versions and a preview, the thread of a conversation,   *)
(* and what it waits for from the development server. Any number of        *)
(* openings of a site may be under way, each of two calls; only one        *)
(* generation or edit is. Nothing tells a late answer from a timely one,   *)
(* but an effect that runs when the address or the shown site changes.     *)
(***************************************************************************)
EXTENDS Naturals, FiniteSets

CONSTANTS
  Sites,
  Openings,     \* openSite calls that can be under way at once
  MaxSiteVersion, MaxEvents

ASSUME PageAssumption ==
  /\ Sites \cap {"/", "/build", "nobody"} = {}
  /\ MaxSiteVersion \in Nat \ {0} /\ MaxEvents \in Nat

VARIABLES
  versions,     \* server: how many versions a site has, or New or Gone
  served,       \* server: sites whose newest version has a preview
  route,        \* "/", "/build" or a site
  shown,        \* detail: a site, or Nobody
  selected,     \* selectedVersion with the site it is of, or Unset
  showing,      \* the preview: a site and a version, or Unset
  opening,      \* per opening NoCall, or a site and the call it waits for
  working,      \* the request in flight, or Unset
  turnsPending, \* turns of the thread that are pending
  asked,        \* pendingDelete: the site the open dialog is about, or Nobody
  deleting,     \* deletions under way: the site, the site shown at the click, whether it is gone
  mishap,       \* history: an opening failed
  crossed,      \* history: the page turned elsewhere while a preview was awaited
  events        \* what the user did so far

clientVars == <<versions, served, route, shown, selected, showing, opening, working, turnsPending,
                asked, deleting, mishap, crossed, events>>

Nobody == "nobody"
Unset == [site |-> Nobody]
NoCall == [site |-> Nobody, call |-> "none"]
Gone == MaxSiteVersion + 1
New == MaxSiteVersion + 2
SiteAlive(s) == versions[s] <= MaxSiteVersion
Shot(s) == [site |-> s, version |-> versions[s]]

ClientInit ==
  /\ versions \in [Sites -> {0, 1, New}] /\ served \in SUBSET {s \in Sites : versions[s] = 1}
  /\ route = "/" /\ shown = Nobody /\ selected = Unset /\ showing = Unset
  /\ opening = [o \in Openings |-> NoCall] /\ working = Unset /\ turnsPending = 0
  /\ asked = Nobody /\ deleting = {} /\ mishap = FALSE /\ crossed = FALSE /\ events = 0

Busy == working # Unset
StartScreen == shown = Nobody /\ ~Busy
UserActs == events < MaxEvents /\ events' = events + 1
\* The dialog takes every click while it is open
UserClicks == asked = Nobody /\ UserActs

AwaitsPreview ==
  \/ \E o \in Openings : opening[o].call = "preview"
  \/ Busy /\ working.call = "preview"
Turns == crossed' = (crossed \/ (shown' # shown /\ AwaitsPreview))

-----------------------------------------------------------------------------

MutRouteAlone(current, newRoute, newShown) ==
  IF newRoute # route /\ newRoute \in Sites \ {newShown}
  THEN \E o \in Openings :
         current[o] = NoCall /\ opening' = [current EXCEPT ![o] = [site |-> newRoute, call |-> "site"]]
  ELSE opening' = current

\* The effect of a changed address or a changed shown site: a site the address names and the
\* page does not show is opened
Rendered(current, newRoute, newShown) ==
  IF (newRoute # route \/ newShown # shown) /\ newRoute \in Sites \ {newShown}
  THEN \E o \in Openings :
         current[o] = NoCall /\ opening' = [current EXCEPT ![o] = [site |-> newRoute, call |-> "site"]]
  ELSE opening' = current

MutKeepsPreview(s) ==
  /\ shown' = s /\ selected' = Shot(s)
  /\ showing' = IF s \in served THEN Shot(s) ELSE showing

\* openSite, after the first call: the site with its newest version (0 is none), and a preview
\* the server has of that version
ShowsSite(s) ==
  /\ shown' = s /\ selected' = Shot(s)
  /\ showing' = IF s \in served THEN Shot(s) ELSE Unset

OpenFromList ==
  /\ StartScreen /\ UserClicks
  /\ \E s \in Sites :
       /\ SiteAlive(s) /\ route' = s /\ turnsPending' = 0 /\ Rendered(opening, s, shown)
  /\ UNCHANGED <<versions, served, shown, selected, showing, working, asked, deleting, mishap, crossed>>

\* The back and forward buttons of the browser
Browse ==
  /\ UserActs /\ \E s \in Sites \cup {"/"} : route' = s /\ Rendered(opening, s, shown)
  /\ UNCHANGED <<versions, served, shown, selected, showing, working, turnsPending, asked, deleting,
                 mishap, crossed>>

Leaves == route' = "/" /\ shown' = Nobody /\ selected' = Unset /\ showing' = Unset /\ turnsPending' = 0

NewRun ==
  /\ UserClicks /\ Leaves
  /\ Turns
  /\ UNCHANGED <<versions, served, opening, working, asked, deleting, mishap>>

\* startVersionPreview, which the page offers where no preview is
RetryPreview ==
  /\ shown # Nobody /\ showing = Unset /\ selected.version # 0 /\ UserClicks
  /\ \E o \in Openings :
       /\ opening[o] = NoCall
       /\ opening' = [opening EXCEPT ![o] = [site |-> shown, call |-> "preview",
                                             version |-> selected.version]]
  /\ UNCHANGED <<versions, served, route, shown, selected, showing, working, turnsPending, asked,
                 deleting, mishap, crossed>>

-----------------------------------------------------------------------------
(* Openings; the server makes the preview an opening asks for *)

MutSelectsLate(o) ==
  LET s == opening[o].site IN
  /\ opening[o].call = "site" /\ SiteAlive(s) /\ shown' = s /\ UNCHANGED selected
  /\ showing' = IF s \in served THEN Shot(s) ELSE Unset
  /\ Rendered([opening EXCEPT ![o] = IF s \in served \/ versions[s] = 0 THEN NoCall
                                     ELSE [site |-> s, call |-> "preview", version |-> versions[s]]],
              route, s)
  /\ Turns
  /\ UNCHANGED <<versions, served, route, working, turnsPending, asked, deleting, mishap, events>>

SiteAnswers(o) ==
  LET s == opening[o].site IN
  /\ opening[o].call = "site" /\ SiteAlive(s) /\ ShowsSite(s)
  /\ Rendered([opening EXCEPT ![o] = IF s \in served \/ versions[s] = 0 THEN NoCall
                                     ELSE [site |-> s, call |-> "preview", version |-> versions[s]]],
              route, s)
  /\ Turns
  /\ UNCHANGED <<versions, served, route, working, turnsPending, asked, deleting, mishap, events>>

PreviewOpens(o) ==
  LET call == opening[o] IN
  /\ call.call = "preview" /\ SiteAlive(call.site)
  /\ showing' = [site |-> call.site, version |-> call.version]
  /\ served' = IF call.version = versions[call.site] THEN served \cup {call.site} ELSE served
  /\ opening' = [opening EXCEPT ![o] = NoCall]
  /\ UNCHANGED <<versions, route, shown, selected, working, turnsPending, asked, deleting, mishap,
                 crossed, events>>

OpeningFails(o) ==
  /\ opening[o] # NoCall /\ opening' = [opening EXCEPT ![o] = NoCall] /\ mishap' = TRUE
  /\ UNCHANGED <<versions, served, route, shown, selected, showing, working, turnsPending, asked,
                 deleting, crossed, events>>

-----------------------------------------------------------------------------
(* Generation and edit *)

Generate ==
  /\ StartScreen /\ UserClicks /\ route' = "/build"
  /\ working' = [site |-> Nobody, call |-> "job"] /\ turnsPending' = 1
  /\ UNCHANGED <<versions, served, shown, selected, showing, opening, asked, deleting, mishap, crossed>>

MutAlsoWhileBusy ==
  /\ shown # Nobody /\ UserClicks
  /\ working' = [site |-> shown, call |-> "job", base |-> selected]
  /\ turnsPending' = turnsPending + 1
  /\ UNCHANGED <<versions, served, route, shown, selected, showing, opening, asked, deleting, mishap,
                 crossed>>

EditShown ==
  /\ ~Busy /\ shown # Nobody /\ UserClicks
  /\ working' = [site |-> shown, call |-> "job", base |-> selected]
  /\ turnsPending' = turnsPending + 1
  /\ UNCHANGED <<versions, served, route, shown, selected, showing, opening, asked, deleting, mishap,
                 crossed>>

\* followJob and the first half of finishSuccess: the job leaves a new version with a preview
JobSucceeds ==
  /\ working # Unset /\ working.call = "job"
  /\ \E s \in Sites :
       /\ IF working.site = Nobody THEN versions[s] = New
          ELSE working.site = s /\ versions[s] < MaxSiteVersion
       /\ versions' = [versions EXCEPT ![s] = IF @ = New THEN 1 ELSE @ + 1]
       /\ \E previewed \in BOOLEAN :
            /\ served' = IF previewed THEN served \cup {s} ELSE served \ {s}
            /\ working' = [site |-> s, call |-> "site", job |-> [site |-> s, version |-> versions'[s]],
                           previewed |-> previewed]
  /\ UNCHANGED <<route, shown, selected, showing, opening, turnsPending, asked, deleting, mishap,
                 crossed, events>>

Settles == turnsPending' = 0 /\ working' = Unset

\* The job fails, and may leave a site without a version; or it does not, and the list of sites
\* cannot be read after it
JobFails ==
  /\ working # Unset /\ working.call \in {"job", "site"} /\ Settles
  /\ \/ UNCHANGED versions
     \/ /\ working.site = Nobody
        /\ \E s \in Sites : versions[s] = New /\ versions' = [versions EXCEPT ![s] = 0]
  /\ UNCHANGED <<served, route, shown, selected, showing, opening, asked, deleting, mishap, crossed, events>>

\* openSite within finishSuccess, which swallows its failures
WorkAnswers ==
  LET s == working.site IN
  /\ working # Unset /\ working.call \in {"site", "preview"}
  /\ \/ /\ working.call = "site" /\ SiteAlive(s) /\ ShowsSite(s)
        /\ working' = [working EXCEPT !.call = IF s \in served THEN "navigate" ELSE "preview"]
        /\ Rendered(opening, route, s) /\ UNCHANGED served
     \/ /\ working.call = "preview" /\ SiteAlive(s) /\ showing' = working.job
        /\ served' = served \cup {s} /\ working' = [working EXCEPT !.call = "navigate"]
        /\ UNCHANGED <<shown, selected, opening>>
     \/ /\ working' = [working EXCEPT !.call = "navigate"]
        /\ UNCHANGED <<served, shown, selected, showing, opening>>
  /\ Turns
  /\ UNCHANGED <<versions, route, turnsPending, asked, deleting, mishap, events>>

\* The second half: the address, the preview of the job, and the reply
WorkEnds ==
  /\ working # Unset /\ working.call = "navigate" /\ route' = working.site
  /\ Rendered(opening, working.site, shown)
  /\ showing' = IF working.previewed THEN working.job ELSE showing
  /\ Settles
  /\ UNCHANGED <<versions, served, shown, selected, asked, deleting, mishap, crossed, events>>

-----------------------------------------------------------------------------
(* Deleting: the list of the start screen opens the dialog, which stays open  *)
(* when an opening answers. confirmDelete sees the site shown at the click.   *)

AskDelete ==
  /\ StartScreen /\ UserClicks
  /\ \E s \in Sites : SiteAlive(s) /\ asked' = s
  /\ UNCHANGED <<versions, served, route, shown, selected, showing, opening, working, turnsPending,
                 deleting, mishap, crossed>>

CancelDelete ==
  /\ asked # Nobody /\ asked' = Nobody
  /\ UNCHANGED <<versions, served, route, shown, selected, showing, opening, working, turnsPending,
                 deleting, mishap, crossed, events>>

ConfirmDelete ==
  /\ asked # Nobody /\ asked' = Nobody
  /\ deleting' = deleting \cup {[site |-> asked, saw |-> shown, gone |-> FALSE]}
  /\ UNCHANGED <<versions, served, route, shown, selected, showing, opening, working, turnsPending,
                 mishap, crossed, events>>

\* The server deletes a site that is there, an edit of it or not, which its guard does not see;
\* the answer takes its time
ServerDeletes(d) ==
  /\ ~d.gone /\ SiteAlive(d.site)
  /\ versions' = [versions EXCEPT ![d.site] = Gone] /\ served' = served \ {d.site}
  /\ deleting' = (deleting \ {d}) \cup {[d EXCEPT !.gone = TRUE]}
  /\ UNCHANGED <<route, shown, selected, showing, opening, working, turnsPending, asked, mishap,
                 crossed, events>>

\* newRun, whatever the page shows by then
Deleted(d) ==
  /\ d.gone /\ deleting' = deleting \ {d}
  /\ IF d.saw = d.site THEN Leaves
     ELSE UNCHANGED <<route, shown, selected, showing, turnsPending>>
  /\ Turns
  /\ UNCHANGED <<versions, served, opening, working, asked, mishap, events>>

\* It is refused, or breaks off when the preview is stopped already, or its answer is lost when the
\* site is gone: the page only says so
DeleteFails(d) ==
  /\ deleting' = deleting \ {d} /\ served' \in {served, served \ {d.site}}
  /\ UNCHANGED <<versions, route, shown, selected, showing, opening, working, turnsPending,
                 asked, mishap, crossed, events>>

ClientNext ==
  \/ OpenFromList \/ Browse \/ NewRun \/ RetryPreview
  \/ \E o \in Openings : SiteAnswers(o) \/ PreviewOpens(o) \/ OpeningFails(o)
  \/ Generate \/ EditShown \/ JobSucceeds \/ JobFails \/ WorkAnswers \/ WorkEnds
  \/ AskDelete \/ CancelDelete \/ ConfirmDelete
  \/ \E d \in deleting : ServerDeletes(d) \/ Deleted(d) \/ DeleteFails(d)

ClientSpec == ClientInit /\ [][ClientNext]_clientVars

-----------------------------------------------------------------------------
(* Properties *)

Shots == {Unset} \cup [site : Sites, version : 0..New]
OpeningCalls == {NoCall} \cup [site : Sites, call : {"site"}]
           \cup [site : Sites, call : {"preview"}, version : 0..New]
Work == {Unset} \cup [site : {Nobody}, call : {"job"}]
          \cup [site : Sites, call : {"job"}, base : Shots]
          \cup [site : Sites, call : {"site", "preview", "navigate"},
                job : [site : Sites, version : 0..New], previewed : BOOLEAN]

\* Every part of the page keeps its shape.
ClientTypeOK ==
  /\ versions \in [Sites -> 0..New] /\ served \subseteq Sites
  /\ route \in Sites \cup {"/", "/build"} /\ shown \in Sites \cup {Nobody}
  /\ selected \in Shots /\ showing \in Shots
  /\ opening \in [Openings -> OpeningCalls] /\ working \in Work /\ turnsPending \in Nat
  /\ asked \in Sites \cup {Nobody}
  /\ deleting \subseteq [site : Sites, saw : Sites \cup {Nobody}, gone : BOOLEAN]
  /\ mishap \in BOOLEAN /\ crossed \in BOOLEAN /\ events \in 0..MaxEvents

AtRest == (\A o \in Openings : opening[o] = NoCall) /\ ~Busy

\* One turn is pending at most, and only while a request is in flight; the version that an edit
\* starts from is one of the site it edits, in whatever order the answers of openings, of a job
\* and of deletions came; and a page that waits for nothing shows the site its address names,
\* unless an opening failed. The preview it then shows beside a site is of that site, unless the
\* page turned elsewhere while a preview was awaited: nothing stops that one from being shown.
PageIsConsistent ==
  /\ turnsPending <= 1 /\ (turnsPending = 1 => Busy)
  /\ shown # Nobody => selected.site = shown
  /\ AtRest /\ route \in Sites /\ ~mishap => shown = route
  /\ AtRest /\ {shown, showing.site} \subseteq Sites /\ ~mishap /\ ~crossed => showing.site = shown
=============================================================================
