---------------------------- MODULE SourcePatches ----------------------------
(***************************************************************************)
(* How a bundle of patches from the model reaches the files of a site: the *)
(* edit bundle (applySiteEditPatchBundle), whose patches apply in order    *)
(* and may be rebased on one another, and the repair bundle                *)
(* (applyValidatedBuildRepairPatches), whose patches are independent       *)
(* ranges of one snapshot. Both resolve everything in memory, read the     *)
(* files again, and only then write.                                       *)
(*                                                                         *)
(* A source is a sequence of characters; while it is patched every letter  *)
(* keeps the position it had in the source the model was shown, 0 for a    *)
(* letter that a patch brought. Offsets count from 0, as in the code. Of   *)
(* the syntax of a source only the quotes around its literals are told.    *)
(***************************************************************************)
EXTENDS Naturals, FiniteSets, Sequences, SequencesExt

CONSTANTS
  Absent,       \* what files holds of a path without a file
  Sources,      \* Sources[f]: what file f may hold when the model is shown it
  Foreign,      \* what another writer may put into a file
  Finds, Replacements, \* what patches look for, and what they put in its place
  LineEnd,      \* LineEnd[c]: character c with its line ending normalised
  NewLine, Blanks, \* a normalised line ending, and the characters of an indentation
  Quotes,       \* the characters that open and close a literal
  Code,         \* the files that parse as code
  MaxPatches,   \* bound: patches of a bundle (8 in the code)
  MaxFaults     \* bound: external changes and failed writes of a run

Files == DOMAIN Sources
Characters == DOMAIN LineEnd
Texts == Seq(Characters)

ASSUME PatchAssumption ==
  /\ MaxPatches \in Nat /\ MaxFaults \in Nat
  /\ LineEnd \in [Characters -> Characters]
  /\ NewLine \in Characters /\ Blanks \subseteq Characters /\ Quotes \subseteq Characters
  /\ Code \subseteq Files
  /\ Absent \notin Texts
  /\ \A f \in Files : Sources[f] \subseteq Texts \cup {Absent}
  /\ Foreign \subseteq Texts
  /\ Finds \subseteq Texts \ {<<>>}
  /\ Replacements \subseteq Texts

VARIABLES
  kind,      \* "edit" or "repair"
  ranged,    \* whether an edit is held to the regions the model was shown
  disk,      \* the workspace
  snapshot,  \* the source the bundle was asked about
  supplied,  \* supplied[f]: the regions of it that the model was shown
  patchPhase,  \* where the bundle stands
  paths,     \* the files the bundle names
  original,  \* the source read when the bundle arrives
  staged,    \* staged[f]: the letters of f after the patches so far
  inserted,  \* inserted[f]: ranges of staged[f] that earlier patches brought
  cutting,   \* the cuts still to be made of a patch, or of a whole repair
  applied,   \* the patches accepted so far
  created,   \* created[f]: the source of a file the bundle creates
  pending,   \* files still to be checked, written or restored
  begun,     \* files a write of this bundle was started for
  rewritten, \* history: files another writer changed before their last check, and not back
  late,      \* history: changes by another writer after the last check
  torn,      \* history: files that a failing write left behind
  hits,      \* history: what the patches replaced
  faults

Input == <<kind, ranged, snapshot, supplied>>
Work == <<paths, original, staged, inserted, cutting, applied, created, hits>>
Writing == <<pending, begun>>
PatchHistory == <<rewritten, late, torn, faults>>
patchVars == <<Input, Work, Writing, PatchHistory, disk, patchPhase>>

Shown == {f \in Files : snapshot[f] # Absent}

(***************************************************************************)
(* Texts                                                                   *)
(***************************************************************************)
Word(letters) == [i \in DOMAIN letters |-> letters[i].ch]
AsShown(word) == [i \in DOMAIN word |-> [ch |-> word[i], at |-> i]]
Brought(word) == [i \in DOMAIN word |-> [ch |-> word[i], at |-> 0]]
Slice(s, from, to) == SubSeq(s, from + 1, to)
Splice(s, from, to, by) == Slice(s, 0, from) \o by \o Slice(s, to, Len(s))
Span(from, to) == [start |-> from, end |-> to]

\* Where find stands in word, and the places of it that a search from the left takes:
\* those that do not start inside another one it takes.
Occurrences(word, find) ==
  {o \in 0..Len(word) :
     \E end \in o..Len(word) : end = o + Len(find) /\ Slice(word, o, end) = find}
FromTheLeft(places, find, taken) ==
  \A o \in places : o \in taken <=> ~\E p \in taken : p < o /\ o < p + Len(find)
Offsets(word, find) ==
  LET places == Occurrences(word, find)
  IN UNION {taken \in SUBSET places : FromTheLeft(places, find, taken)}
Count(word, find) == Cardinality(Offsets(word, find))
Normal(word) == [i \in DOMAIN word |-> LineEnd[word[i]]]

\* The blanks right after a line ending, and a text without them.
Indentation(word) ==
  {i \in DOMAIN word : \E j \in 1..(i - 1) :
     LineEnd[word[j]] = NewLine /\ \A k \in (j + 1)..i : word[k] \in Blanks}
Unindented(word) ==
  LET kept == SetToSortSeq(DOMAIN word \ Indentation(word), LAMBDA i, j : i < j)
  IN [i \in DOMAIN kept |-> LineEnd[word[kept[i]]]]

\* Indentation may differ in a code file that parses, and outside its literals.
QuotesBefore(word, i) == Cardinality({j \in DOMAIN word : j < i /\ word[j] \in Quotes})
SafeIndentation(f, word, from, to) ==
  /\ f \in Code /\ QuotesBefore(word, Len(word) + 1) % 2 = 0
  /\ \A i \in Indentation(word) : from < i /\ i <= to => QuotesBefore(word, i) % 2 = 0

\* A cut replaces what stands in a file from start to end. It keeps what it looked for,
\* whether the replacement is that very text, and two notes for the properties: whether
\* the text stands in the source that was shown and was not rebased, and whether no
\* earlier patch of the file was one that put back the text it matched.
CutAt(f, r, find, by, same, asked, marked) ==
  [file |-> f, start |-> r.start, end |-> r.end, find |-> find, by |-> Brought(by),
   same |-> same, asked |-> asked, marked |-> marked]

(***************************************************************************)
(* The edit bundle                                                         *)
(***************************************************************************)
\* What one cut does to the ranges brought so far.
RangesAfter(ranges, cut) ==
  LET Moved(i) == (i + Len(cut.by)) - (cut.end - cut.start)
      Left(r) == IF r.start < cut.start THEN {Span(r.start, cut.start)} ELSE {}
      Right(r) == IF r.end > cut.end THEN {Span(cut.start + Len(cut.by), Moved(r.end))} ELSE {}
      After(r) == IF r.end <= cut.start THEN {r}
                  ELSE IF r.start >= cut.end THEN {Span(Moved(r.start), Moved(r.end))}
                  ELSE Left(r) \cup Right(r)
  IN (UNION {After(r) : r \in ranges})
       \cup IF cut.same THEN {} ELSE {Span(cut.start, cut.start + Len(cut.by))}

MutSeamsPass(ranges, offsets, find) ==
  \E o \in offsets, r \in ranges :
    r.start # r.end /\ r.start < o + Len(find) /\ o < r.end

\* A match that holds text an earlier patch brought, or the seam it left.
Cascades(ranges, offsets, find) ==
  \E o \in offsets, r \in ranges :
    IF r.start = r.end
    THEN o < r.start /\ r.start < o + Len(find)
    ELSE r.start < o + Len(find) /\ o < r.end

\* One earlier patch applied to the find text of a later one.
Rewritten(find, earlier) ==
  IF earlier.mode = "all" \/ Count(find, earlier.find) = 1
  THEN FoldLeft(LAMBDA text, o : Splice(text, o, o + Len(earlier.find), earlier.by), find,
                SetToSortSeq(Offsets(find, earlier.find), LAMBDA o, p : o > p))
  ELSE find

Rebased(f, find) ==
  FoldLeft(LAMBDA text, p : IF p.file = f THEN Rewritten(text, p) ELSE text, find, applied)

WithinSupplied(f, from, to) ==
  \E r \in supplied[f] : r.start <= from /\ to <= r.end
AllSupplied(f, find) ==
  LET places == Offsets(original[f], find)
  IN places # {} /\ \A o \in places : WithinSupplied(f, o, o + Len(find))

\* History: of a replaced text, whether it is the text that was looked for (for a repair,
\* up to line endings, or up to indentation that is safe in the source that was shown),
\* and whether it stood in one piece in that source.
LookedFor(cut, word) ==
  \/ word = cut.find
  \/ kind = "repair" /\ Normal(word) = Normal(cut.find)
  \/ /\ kind = "repair" /\ Unindented(word) = Unindented(cut.find)
     /\ SafeIndentation(cut.file, snapshot[cut.file], cut.start, cut.end)
Whole(letters) ==
  \A i \in DOMAIN letters :
    /\ letters[i].at # 0
    /\ i > 1 => letters[i].at = letters[i - 1].at + 1
Hit(cut, letters) ==
  [asked |-> cut.asked, marked |-> cut.marked, whole |-> Whole(letters),
   exact |-> LookedFor(cut, Word(letters))]

Reject == patchPhase' = "rejected" /\ UNCHANGED <<Input, Work, Writing, PatchHistory, disk>>

EditPatch(f, find, by, mode) ==
  /\ patchPhase = "resolving" /\ kind = "edit" /\ f \in paths
  /\ Len(applied) + Cardinality(DOMAIN created) < MaxPatches
  /\ f \in DOMAIN staged
  /\ LET shown == IF f \in DOMAIN created THEN created[f] ELSE original[f]
         source == Word(staged[f])
         shownMatches == Count(shown, find)
         lost == Offsets(source, find) = {}
                   /\ IF mode = "all" THEN shownMatches > 0 ELSE shownMatches = 1
         text == IF lost THEN Rebased(f, find) ELSE find
         offsets == Offsets(source, text)
         asked == text = find /\ shownMatches > 0
         cascade == asked /\ Cascades(inserted[f], offsets, text)
         marked == ~\E i \in DOMAIN applied : applied[i].file = f /\ applied[i].same
     IN IF ranged /\ (f \in DOMAIN created \/ ~AllSupplied(f, find)) THEN Reject
        ELSE IF text = <<>>
        THEN patchPhase' = "hung" /\ UNCHANGED <<Input, Work, Writing, PatchHistory, disk>>
        ELSE IF offsets = {} \/ cascade THEN Reject
        ELSE \/ /\ mode = "unique" /\ Cardinality(offsets) > 1
                /\ Reject
             \/ \E targets \in (SUBSET offsets) \ {{}} :
                  /\ cutting' = {CutAt(f, Span(o, o + Len(text)), text, by, by = text, asked, marked) :
                                   o \in targets}
                  /\ applied' = Append(applied,
                       [file |-> f, find |-> find, by |-> by, same |-> by = text,
                        mode |-> IF Cardinality(targets) > 1 THEN "all" ELSE mode])
                  /\ patchPhase' = "cutting"
                  /\ UNCHANGED <<Input, Writing, PatchHistory, disk, paths, original, staged,
                                 inserted, created, hits>>

\* Cuts are made from the last to the first, so that none moves the text of another.
LastOfFile(cut) ==
  \A other \in cutting : other.file = cut.file => other.start <= cut.start

Cut(cut) ==
  /\ patchPhase = "cutting" /\ cut \in cutting /\ LastOfFile(cut)
  /\ staged' = [staged EXCEPT ![cut.file] =
                  IF cut.same THEN @ ELSE Splice(@, cut.start, cut.end, cut.by)]
  /\ inserted' = IF kind = "edit" THEN [inserted EXCEPT ![cut.file] = RangesAfter(@, cut)]
                 ELSE inserted
  /\ hits' = hits \cup {Hit(cut, Slice(staged[cut.file], cut.start, cut.end))}
  /\ cutting' = cutting \ {cut}
  /\ patchPhase' = IF cutting # {cut} THEN patchPhase
                   ELSE IF kind = "edit" THEN "resolving" ELSE "rechecking"
  /\ UNCHANGED <<Input, Writing, PatchHistory, disk, paths, original, applied, created>>

CreateFile(f, source) ==
  /\ patchPhase = "resolving" /\ kind = "edit"
  /\ f \in paths /\ original[f] = Absent
  /\ Len(applied) + Cardinality(DOMAIN created) < MaxPatches
  /\ IF f \in DOMAIN staged THEN Reject
     ELSE /\ staged' = [g \in DOMAIN staged \cup {f} |->
                          IF g = f THEN AsShown(source) ELSE staged[g]]
          /\ inserted' = [g \in DOMAIN staged \cup {f} |->
                            IF g = f THEN {} ELSE inserted[g]]
          /\ created' = [g \in DOMAIN created \cup {f} |->
                           IF g = f THEN source ELSE created[g]]
          /\ UNCHANGED <<Input, Writing, PatchHistory, disk, patchPhase,
                         paths, original, cutting, applied, hits>>

(***************************************************************************)
(* The repair bundle                                                       *)
(***************************************************************************)
\* The parts of a text, and the one of some that a search from the left finds, when it
\* finds no other.
Parts(word) == {r \in [start : 0..Len(word), end : 0..Len(word)] : r.start < r.end}
Part(word, r) == Slice(word, r.start, r.end)
OnlyOne(places) == {r \in places : \A t \in places : r.start <= t.start /\ t.start < r.end}

MutUnverified(f, r) == TRUE

\* UNSAFE_FORMATTING otherwise: the match is refused.
Verified(f, r) == SafeIndentation(f, original[f], r.start, r.end)

\* The one exact match, or else the one up to line endings, or else the one up to
\* indentation, when that is safe in the text looked for and in the source.
Matches(f, find) ==
  LET source == original[f]
      exact == {r \in Parts(source) : Part(source, r) = find}
      lines == {r \in Parts(source) : Normal(Part(source, r)) = Normal(find)}
      loose == {r \in Parts(source) :
                  /\ {r.start + 1, r.end} \cap Indentation(source) = {}
                  /\ Unindented(Part(source, r)) = Unindented(find)}
  IN IF exact # {} THEN OnlyOne(exact)
     ELSE IF lines # {} THEN OnlyOne(lines)
     ELSE {r \in OnlyOne(loose) : SafeIndentation(f, find, 0, Len(find)) /\ Verified(f, r)}

Overlaps(f, r) ==
  \E i \in DOMAIN applied : /\ applied[i].file = f
                            /\ applied[i].start < r.end
                            /\ r.start < applied[i].end

RepairPatch(f, find, by) ==
  /\ patchPhase = "resolving" /\ kind = "repair"
  /\ Len(applied) < MaxPatches
  /\ IF f \notin Shown \/ Matches(f, find) = {} THEN Reject
     ELSE \E r \in Matches(f, find) :
            IF ~WithinSupplied(f, r.start, r.end) \/ Overlaps(f, r) THEN Reject
            ELSE /\ applied' = Append(applied, [file |-> f, find |-> find, by |-> by,
                                               start |-> r.start, end |-> r.end])
                 /\ UNCHANGED <<Input, Writing, PatchHistory, disk, patchPhase,
                                paths, original, staged, inserted, cutting, created, hits>>

(***************************************************************************)
(* From the answer of the model to the files                               *)
(***************************************************************************)
PatchInit ==
  /\ kind \in {"edit", "repair"} /\ ranged \in BOOLEAN
  /\ disk \in {w \in [Files -> UNION {Sources[f] : f \in Files}] :
                  \A f \in Files : w[f] \in Sources[f]}
  /\ snapshot = disk
  /\ \E cut \in {0, 1} : supplied = [f \in Files |->
       IF snapshot[f] \in {Absent, <<>>} THEN {} ELSE {Span(0, Len(snapshot[f]) - cut)}]
  /\ patchPhase = "asking"
  /\ paths = {} /\ original = snapshot
  /\ staged = <<>> /\ inserted = <<>> /\ applied = <<>> /\ created = <<>>
  /\ cutting = {} /\ pending = {} /\ begun = {} /\ rewritten = {} /\ late = {} /\ torn = {} /\ hits = {}
  /\ faults = 0

\* The bundle arrives: the files it names are read, and must be what was shown.
Arrive(named, new) ==
  /\ patchPhase = "asking"
  /\ kind = "repair" => named = Shown /\ new = {}
  /\ LET Unchanged(f) == disk[f] # Absent /\ (f \in Shown => disk[f] = snapshot[f])
         fresh == IF kind = "repair" THEN \A f \in Shown : Unchanged(f)
                  ELSE \A f \in named : IF f \in new THEN f \notin Shown /\ disk[f] = Absent
                                        ELSE Unchanged(f)
     IN IF ~fresh THEN Reject
        ELSE /\ patchPhase' = "resolving" /\ paths' = named /\ original' = disk
             /\ staged' = [f \in named \ new |-> AsShown(disk[f])]
             /\ inserted' = [f \in named \ new |-> {}]
             /\ UNCHANGED <<Input, Writing, PatchHistory, disk, cutting, applied, created, hits>>

Patches(f) == \E i \in DOMAIN applied : applied[i].file = f

\* The loop over the patches ends: a repair is cut now. Safety and scope checks may
\* still refuse.
Resolved ==
  /\ patchPhase = "resolving"
  /\ applied # <<>> \/ created # <<>>
  /\ \/ Reject
     \/ /\ kind = "edit"
        /\ \A f \in DOMAIN staged : Patches(f) \/ f \in DOMAIN created
        /\ patchPhase' = "rechecking" /\ pending' = DOMAIN staged
        /\ UNCHANGED <<Input, Work, PatchHistory, disk, begun>>
     \/ /\ kind = "repair"
        /\ staged' = [f \in {g \in Files : Patches(g)} |-> AsShown(original[f])]
        /\ cutting' = {CutAt(applied[i].file, applied[i], applied[i].find, applied[i].by,
                             FALSE, TRUE, TRUE) : i \in DOMAIN applied}
        /\ patchPhase' = "cutting" /\ pending' = Shown
        /\ UNCHANGED <<Input, PatchHistory, disk, begun, paths, original, inserted, applied,
                       created, hits>>

LastCheck(f) == IF f \in DOMAIN created THEN disk[f] = Absent ELSE disk[f] = original[f]

Recheck(f) ==
  /\ patchPhase = "rechecking" /\ f \in pending
  /\ IF ~LastCheck(f) THEN Reject
     ELSE /\ pending' = IF pending = {f} THEN DOMAIN staged ELSE pending \ {f}
          /\ patchPhase' = IF pending = {f} THEN "writing" ELSE patchPhase
          /\ UNCHANGED <<Input, Work, PatchHistory, disk, begun>>

Write(f) ==
  /\ patchPhase = "writing" /\ f \in pending
  /\ disk' = [disk EXCEPT ![f] = Word(staged[f])]
  /\ begun' = begun \cup {f} /\ pending' = pending \ {f}
  /\ patchPhase' = IF pending = {f} THEN "done" ELSE patchPhase
  /\ UNCHANGED <<Input, Work, PatchHistory>>

MutOnlyFinished(f) == begun

\* The file a failing write was started for is among those to be restored.
Restorable(f) == begun \cup {f}

WriteFails(f, left) ==
  /\ patchPhase = "writing" /\ f \in pending /\ faults < MaxFaults
  /\ faults' = faults + 1
  /\ disk' = [disk EXCEPT ![f] = left]
  /\ left \in {disk[f], Word(staged[f]), <<>>}
  /\ torn' = IF left \in {disk[f], Word(staged[f])} THEN torn ELSE torn \cup {f}
  /\ begun' = begun \cup {f}
  /\ IF kind = "edit" THEN patchPhase' = "failed" /\ pending' = {}
     ELSE /\ patchPhase' = IF Restorable(f) = {} THEN "failed" ELSE "undoing"
          /\ pending' = Restorable(f)
  /\ UNCHANGED <<Input, Work, rewritten, late>>

\* A file that no longer holds what this bundle wrote is left alone.
StillOurs(f) == disk[f] = Word(staged[f])

Undo(f) ==
  /\ patchPhase = "undoing" /\ f \in pending
  /\ \/ /\ disk' = [disk EXCEPT ![f] = IF StillOurs(f) THEN snapshot[f] ELSE @]
        /\ pending' = pending \ {f}
        /\ patchPhase' = IF pending = {f} THEN "failed" ELSE patchPhase
        /\ UNCHANGED <<torn, faults>>
     \/ /\ StillOurs(f) /\ faults < MaxFaults
        /\ faults' = faults + 1
        /\ torn' = torn \cup pending /\ pending' = {} /\ patchPhase' = "failed"
        /\ UNCHANGED disk
  /\ UNCHANGED <<Input, Work, begun, rewritten, late>>

\* Another writer of the same workspace: it may also bring back what was read.
ChangedElsewhere(f, text) ==
  /\ patchPhase \in {"asking", "rechecking", "writing", "undoing"}
  /\ faults < MaxFaults /\ text # disk[f]
  /\ faults' = faults + 1
  /\ disk' = [disk EXCEPT ![f] = text]
  /\ rewritten' = IF \/ patchPhase = "asking" /\ f \in Shown
                     \/ patchPhase = "rechecking" /\ f \in pending
                  THEN IF text = original[f] THEN rewritten \ {f} ELSE rewritten \cup {f}
                  ELSE rewritten
  /\ late' = IF \/ patchPhase \in {"writing", "undoing"}
                \/ patchPhase = "rechecking" /\ f \notin pending
             THEN late \cup {[file |-> f, text |-> text, after |-> f \in begun]} ELSE late
  /\ UNCHANGED <<Input, Work, Writing, patchPhase, torn>>

PatchNext ==
  \/ \E named \in (SUBSET Files) \ {{}} : \E new \in SUBSET named : Arrive(named, new)
  \/ \E f \in Files, find \in Finds, by \in Replacements :
       \/ \E mode \in {"unique", "all"} : EditPatch(f, find, by, mode)
       \/ RepairPatch(f, find, by)
  \/ \E f \in Files, source \in Replacements \ {<<>>} : CreateFile(f, source)
  \/ \E cut \in cutting : Cut(cut)
  \/ Resolved
  \/ \E f \in Files :
       \/ Recheck(f)
       \/ Write(f)
       \/ \E left \in Foreign \cup {<<>>, disk[f]} : WriteFails(f, left)
       \/ Undo(f)
       \/ \E text \in Foreign : ChangedElsewhere(f, text)

PatchSpec == PatchInit /\ [][PatchNext]_patchVars

-----------------------------------------------------------------------------
PatchTypeOK ==
  /\ kind \in {"edit", "repair"} /\ ranged \in BOOLEAN
  /\ patchPhase \in {"asking", "resolving", "cutting", "rechecking", "writing", "undoing",
                     "done", "rejected", "failed", "hung"}
  /\ DOMAIN disk = Files /\ paths \subseteq Files
  /\ DOMAIN staged \subseteq Files /\ DOMAIN created \subseteq DOMAIN staged
  /\ pending \subseteq Files /\ begun \subseteq DOMAIN staged
  /\ rewritten \subseteq Files /\ torn \subseteq Files
  /\ faults \in 0..MaxFaults

\* A cut replaces the text that was looked for; where a repair takes a text of another
\* indentation for it, none of that indentation stands in a literal of the source. And the
\* text of a find that stands in the source the model was shown, and was not rebased, stood
\* in one piece there: no earlier patch of the bundle brought any of it or joined it, except
\* where one of them put back the very text it had matched (the loop over the patches of
\* applySiteEditPatchBundle, and of applyValidatedBuildRepairPatches).
ReplacedAsShown == \A h \in hits : h.exact /\ (h.asked /\ h.marked => h.whole)

\* No earlier patch makes new targets for a later one that was written against the
\* source shown: without the exception of ReplacedAsShown.
NoTargetsMade == \A h \in hits : h.asked => h.whole

\* Nothing is written over a change that another writer made before the last
\* check; a repair is not written at all when any file of its snapshot changed.
\* A repair that fails while it writes leaves every file it wrote as it was, a
\* file that no write tore and that another writer has not changed since; and
\* what another writer put in place of a patched file stays, unless one of them wrote the
\* very text of the bundle there.
NothingHalfDone ==
  /\ begun # {} => /\ begun \cap rewritten = {}
                   /\ (kind = "repair" => rewritten \cap Shown = {})
  /\ (kind = "repair" /\ patchPhase = "failed") =>
       \A f \in begun \ torn : \/ disk[f] = snapshot[f]
                               \/ \E r \in late : r.file = f
  /\ \A r \in late : (r.after /\ r.text # Word(staged[r.file])) =>
       \E s \in late : s.file = r.file /\ s.text \in {disk[r.file], Word(staged[r.file])}

\* A find text rebased on earlier patches is matched again: resolution never
\* goes on counting the occurrences of an empty text.
RebasedIsMatched == patchPhase # "hung"
=============================================================================
