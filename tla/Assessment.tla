------------------------------- MODULE Assessment -------------------------------
(***************************************************************************)
(* The assessment records over several runs (internal/assessment, the      *)
(* deadline reactor of internal/reactor, processCVEs of cmd/glvd2).        *)
(*                                                                         *)
(* A run reads the record of each CVE from disk, merges what it has        *)
(* computed into it, compares the result with the baseline - the tree of   *)
(* the last commit with the baseline anchor -, tells the reactors and      *)
(* saves.  People and bots commit edits of their own in between.  The git  *)
(* side of a run is Publish; here a run is published as a whole or not.    *)
(*                                                                         *)
(* A record keeps one field per merge strategy and owner: Upstream and the *)
(* reason of Screening (overwrite), the manual status and FirstSeenAt      *)
(* (preserve), and per release its auto (overwrite) and manual (preserve)  *)
(* part.                                                                   *)
(***************************************************************************)
EXTENDS Naturals

CONSTANTS
    CVEs,        \* the CVEs of the list, each delivered once per run
    Releases,
    Upstreams,   \* versions of the upstream data
    Autos,       \* what may be computed for a release
    Overrides,   \* what a human may decide for a release
    Nothing,     \* the zero value of the three above
    Results,     \* what screening and release assessment may come to for a CVE;
                 \* Nothing for a release that ships no matched package
    NoFile,      \* there is no file for this CVE
    Garbled,     \* the file is not a JSON record
    NoCommit,    \* there is no baseline commit
    TimeToWait,  \* how long a Debian verdict is awaited
    Failures,    \* may a run fail, be interrupted, or fail to list the changed files?
    MaxRuns,     \* bound on the number of runs; the clock counts runs
    MaxEdits     \* bound on the number of external commits

NoID == "no id"

Reasons == {"", "affects-debian-package", "affects-gardenlinux-package",
            "affects-vendored-dependency", "rejected-upstream", "debian-not-for-us",
            "debian-package-not-shipped", "awaiting-debian"}

Statuses == {"", "relevant", "not-relevant"}

Maps(D, R) == UNION {[S -> R] : S \in SUBSET D}

Decision == [auto : Autos \cup {Nothing}, manual : Overrides \cup {Nothing}]

Record == [id        : CVEs \cup {NoID},
           upstream  : Upstreams \cup {Nothing},
           reason    : Reasons,
           manual    : Statuses,
           firstSeen : Nat,
           releases  : Maps(Releases, Decision)]

File == Record \cup {NoFile, Garbled}

ASSUME AssessmentAssumption ==
    /\ NoID \notin CVEs
    /\ Nothing \notin Upstreams \cup Autos \cup Overrides
    /\ Results \subseteq [upstream : Upstreams, reason : Reasons \ {""},
                          autos : Maps(Releases, Autos \cup {Nothing})]
    /\ NoFile \notin Record /\ Garbled \notin Record /\ NoFile # Garbled
    /\ NoCommit \notin [CVEs -> File]
    /\ TimeToWait \in Nat /\ MaxRuns \in Nat /\ MaxEdits \in Nat
    /\ Failures \in BOOLEAN

VARIABLES
    head,       \* the record files in HEAD
    anchor,     \* the record files in the last commit with the anchor, or NoCommit
    disk,       \* the record files in the working tree
    clock, edits,
    pc,         \* "idle" or "running"
    todo,       \* the CVEs the run has still to process
    ext,        \* the CVEs whose baseline the run loads from git (extModifiedCVEs)
    computed,   \* history: the incoming record of each CVE in this run
    reported,   \* history: the CVEs the change reactors were called for in this run
    flagged,    \* history: the CVEs an external edit was warned of in this run
    escalated,  \* history: the CVEs escalated in this run
    since       \* history: when the committed record was created by a run; 0 if it was not

trees   == <<head, anchor, disk>>
history == <<computed, reported, flagged, escalated>>
vars    == <<trees, clock, edits, pc, todo, ext, history, since>>

EmptyRecord == [id |-> NoID, upstream |-> Nothing, reason |-> "", manual |-> "",
                firstSeen |-> 0, releases |-> [k \in {} |-> Nothing]]

NothingComputed == [c \in CVEs |-> EmptyRecord]

Init ==
    /\ head = [c \in CVEs |-> NoFile] /\ anchor = NoCommit /\ disk = head
    /\ clock = 0 /\ edits = 0
    /\ pc = "idle" /\ todo = {} /\ ext = {}
    /\ computed = NothingComputed
    /\ reported = {} /\ flagged = {} /\ escalated = {}
    /\ since = [c \in CVEs |-> 0]

-----------------------------------------------------------------------------
(* Records: merge and diff.                                                *)

\* A missing file reads as the zero record.
Read(file) == IF file = NoFile THEN EmptyRecord ELSE file

NoDecision == [auto |-> Nothing, manual |-> Nothing]

At(releases, k) == IF k \in DOMAIN releases THEN releases[k] ELSE NoDecision

\* Mutant: map,replace instead of map,preserve.
ReplaceReleases(existing, incoming) ==
    [k \in DOMAIN incoming |-> [auto |-> incoming[k].auto, manual |-> At(existing, k).manual]]

\* map,preserve: a release that is not assessed any more stays as it is.
MergeReleases(existing, incoming) ==
    [k \in DOMAIN existing \cup DOMAIN incoming |->
        IF k \in DOMAIN incoming
        THEN [auto |-> incoming[k].auto, manual |-> At(existing, k).manual]
        ELSE existing[k]]

\* Mutant: the metadata are tagged overwrite.
MergeResettingMeta(existing, incoming) ==
    IF existing.id = NoID THEN incoming
    ELSE [incoming EXCEPT !.manual   = existing.manual,
                          !.releases = MergeReleases(existing.releases, incoming.releases)]

MergeRecords(existing, incoming) ==
    IF existing.id = NoID THEN incoming
    ELSE [incoming EXCEPT !.manual    = existing.manual,
                          !.firstSeen = existing.firstSeen,
                          !.releases  = MergeReleases(existing.releases, incoming.releases)]

\* The fields only the program should write.
OverwriteFieldsDiffer(old, new) ==
    \/ old.upstream # new.upstream
    \/ old.reason # new.reason
    \/ \E k \in Releases : At(old.releases, k).auto # At(new.releases, k).auto

\* Mutant: the release map is left out of the search for external edits.
DetectEditsOfTheRecord(baseline, existing) ==
    \/ baseline.upstream # existing.upstream
    \/ baseline.reason # existing.reason

DetectExternalOverwriteEdits(baseline, existing) == OverwriteFieldsDiffer(baseline, existing)

HasChanges(baseline, merged) ==
    \/ baseline.id = NoID
    \/ OverwriteFieldsDiffer(baseline, merged)
    \/ baseline.manual # merged.manual
    \/ baseline.firstSeen # merged.firstSeen
    \/ \E k \in Releases : At(baseline.releases, k).manual # At(merged.releases, k).manual

AutoStatus(reason) ==
    CASE reason \in {"affects-debian-package", "affects-gardenlinux-package",
                     "affects-vendored-dependency"} -> "relevant"
      [] reason \in {"rejected-upstream", "debian-not-for-us",
                     "debian-package-not-shipped"}  -> "not-relevant"
      [] OTHER -> ""

GlobalStatus(r) == IF r.manual # "" THEN r.manual ELSE AutoStatus(r.reason)

-----------------------------------------------------------------------------
(* The start and the exit of a run.                                        *)

\* What the process knows is gone when it ends, however it ends.
Exit ==
    /\ pc' = "idle" /\ todo' = {} /\ ext' = {}
    /\ computed' = NothingComputed
    /\ reported' = {} /\ flagged' = {} /\ escalated' = {}

\* What the baseline holds for a CVE: nothing on a first run.
BaselineFile(c) == IF anchor = NoCommit THEN NoFile ELSE anchor[c]

\* Mutant: the files changed since the baseline are never listed.
StartWithoutExternalEdits ==
    /\ pc = "idle" /\ clock < MaxRuns
    /\ pc' = "running" /\ clock' = clock + 1
    /\ disk' = head
    /\ todo' = CVEs
    /\ ext' = IF anchor = NoCommit THEN CVEs ELSE {}
    /\ UNCHANGED <<head, anchor, edits, history, since>>

\* The working tree is put back to HEAD; then the files that differ from the
\* baseline are listed.  On a first run, and when the listing fails, the
\* baseline of every CVE is loaded.
StartRun ==
    /\ pc = "idle" /\ clock < MaxRuns
    /\ pc' = "running" /\ clock' = clock + 1
    /\ disk' = head
    /\ todo' = CVEs
    /\ \/ ext' = IF anchor = NoCommit THEN CVEs ELSE {c \in CVEs : disk'[c] # anchor[c]}
       \/ Failures /\ ext' = CVEs
    /\ UNCHANGED <<head, anchor, edits, history, since>>

-----------------------------------------------------------------------------
(* One record.                                                             *)

\* Mutant: the stored manual status is not looked at.
IncomingWithoutManual(c, existing, result) ==
    LET seed == [EmptyRecord EXCEPT !.id = c, !.upstream = result.upstream,
                                    !.reason = result.reason, !.firstSeen = clock]
    IN IF GlobalStatus(seed) = "relevant"
       THEN [seed EXCEPT !.releases = [k \in DOMAIN result.autos |->
                                         [auto |-> result.autos[k], manual |-> Nothing]]]
       ELSE seed

\* Mutant: the status is stored in the place of the reason.
IncomingStoringStatus(c, existing, result) ==
    [EmptyRecord EXCEPT !.id = c, !.upstream = result.upstream,
                        !.reason = AutoStatus(result.reason), !.firstSeen = clock]

\* Releases are assessed only for a CVE that will be relevant after the merge.
Incoming(c, existing, result) ==
    LET seed == [EmptyRecord EXCEPT !.id = c, !.upstream = result.upstream,
                                    !.reason = result.reason, !.firstSeen = clock]
    IN IF GlobalStatus([seed EXCEPT !.manual = existing.manual]) = "relevant"
       THEN [seed EXCEPT !.releases = [k \in DOMAIN result.autos |->
                                         [auto |-> result.autos[k], manual |-> Nothing]]]
       ELSE seed

\* Only a CVE in ext may differ from its baseline: the others need no git.
UsesDiskAsBaseline(c) == c \notin ext

ResolveBaseline(c) == IF UsesDiskAsBaseline(c) THEN Read(disk[c]) ELSE Read(BaselineFile(c))

Processable(c) ==
    /\ disk[c] # Garbled
    /\ Read(disk[c]).id \in {NoID, c}
    /\ UsesDiskAsBaseline(c) \/ BaselineFile(c) # Garbled

\* Mutant: the wait starts anew with every run.
IsOverdueSinceThisRun(r) ==
    /\ GlobalStatus(r) = "" /\ r.reason = "awaiting-debian"
    /\ r.firstSeen # 0 /\ clock - clock >= TimeToWait

\* The deadline reactor: a record without FirstSeenAt never gets there.
IsOverdue(r) ==
    /\ GlobalStatus(r) = "" /\ r.reason = "awaiting-debian"
    /\ r.firstSeen # 0 /\ clock - r.firstSeen >= TimeToWait

\* Mutant: a record is saved only when it differs from the baseline.
SavesChangesOnly(baseline, existing, merged) == HasChanges(baseline, merged)

MustSave(baseline, existing, merged) ==
    \/ HasChanges(baseline, merged)
    \/ DetectExternalOverwriteEdits(baseline, existing)

Process(c, result) ==
    /\ pc = "running" /\ c \in todo /\ Processable(c)
    /\ LET existing == Read(disk[c])
           incoming == Incoming(c, existing, result)
           merged   == MergeRecords(existing, incoming)
           baseline == ResolveBaseline(c)
       IN /\ computed' = [computed EXCEPT ![c] = incoming]
          /\ flagged' = IF DetectExternalOverwriteEdits(baseline, existing)
                        THEN flagged \cup {c} ELSE flagged
          /\ escalated' = IF IsOverdue(merged) THEN escalated \cup {c} ELSE escalated
          /\ reported' = IF HasChanges(baseline, merged) THEN reported \cup {c} ELSE reported
          /\ disk' = IF MustSave(baseline, existing, merged)
                     THEN [disk EXCEPT ![c] = merged] ELSE disk
    /\ todo' = todo \ {c}
    /\ UNCHANGED <<head, anchor, clock, edits, pc, ext, since>>

\* A record that cannot be read, or whose id is that of another CVE, ends the run.
Reject(c) ==
    /\ pc = "running" /\ c \in todo /\ ~Processable(c)
    /\ Exit
    /\ UNCHANGED <<trees, clock, edits, since>>

\* The process is killed, or the disk is full, while a record is being written.
BreakOffSave(c) ==
    /\ Failures /\ pc = "running" /\ c \in todo /\ Processable(c)
    /\ disk' = [disk EXCEPT ![c] = Garbled]
    /\ Exit
    /\ UNCHANGED <<head, anchor, clock, edits, since>>

\* The run ends without a commit: it is interrupted, a step before or after the
\* processing fails, the push is rejected and rolled back, or the level is none.
GiveUp ==
    /\ Failures /\ pc = "running"
    /\ Exit
    /\ UNCHANGED <<trees, clock, edits, since>>

-----------------------------------------------------------------------------
(* The end of a run.                                                       *)

RunComplete == pc = "running" /\ todo = {}

IsRecordOf(c, file) == file \notin {NoFile, Garbled} /\ file.id = c

\* The assessments are committed, with the anchor, only if some file changed.
Publish ==
    /\ RunComplete
    /\ IF disk # head THEN head' = disk /\ anchor' = disk ELSE UNCHANGED <<head, anchor>>
    /\ since' = [c \in CVEs |-> IF IsRecordOf(c, head[c]) THEN since[c] ELSE clock]
    /\ Exit
    /\ UNCHANGED <<disk, clock, edits>>

-----------------------------------------------------------------------------
(* Commits by others, between two runs.                                    *)

Edit(c, file) ==
    /\ pc = "idle" /\ edits < MaxEdits
    /\ file # head[c]
    /\ head' = [head EXCEPT ![c] = file]
    /\ since' = [since EXCEPT ![c] =
                   IF IsRecordOf(c, head[c]) /\ IsRecordOf(c, file) THEN @ ELSE 0]
    /\ edits' = edits + 1
    /\ UNCHANGED <<anchor, disk, clock, pc, todo, ext, history>>

Triage(c, status) ==
    IsRecordOf(c, head[c]) /\ Edit(c, [head[c] EXCEPT !.manual = status])

OverrideRelease(c, k, override) ==
    /\ IsRecordOf(c, head[c]) /\ k \in DOMAIN head[c].releases
    /\ Edit(c, [head[c] EXCEPT !.releases[k].manual = override])

\* A faulty bot writes what the program owns.
EditUpstream(c, upstream) ==
    IsRecordOf(c, head[c]) /\ Edit(c, [head[c] EXCEPT !.upstream = upstream])

EditRelease(c, k, auto) ==
    /\ IsRecordOf(c, head[c]) /\ k \in DOMAIN head[c].releases
    /\ Edit(c, [head[c] EXCEPT !.releases[k].auto = auto])

\* A record is written by hand, without metadata.
CreateByHand(c, status) ==
    head[c] = NoFile /\ Edit(c, [EmptyRecord EXCEPT !.id = c, !.manual = status])

Delete(c) == Edit(c, NoFile)

\* The file stays, but not as the record of its CVE.
Spoil(c, id) ==
    IsRecordOf(c, head[c]) /\ \/ Edit(c, [head[c] EXCEPT !.id = id])
                              \/ Edit(c, Garbled)

External ==
    \E c \in CVEs :
        \/ \E status \in Statuses : Triage(c, status) \/ CreateByHand(c, status)
        \/ \E k \in Releases, o \in Overrides : OverrideRelease(c, k, o)
        \/ \E u \in Upstreams : EditUpstream(c, u)
        \/ \E k \in Releases, a \in Autos : EditRelease(c, k, a)
        \/ Delete(c)
        \/ \E id \in {NoID} \cup CVEs : Spoil(c, id)

Run ==
    \/ StartRun
    \/ \E c \in CVEs, result \in Results : Process(c, result)
    \/ \E c \in CVEs : Reject(c) \/ BreakOffSave(c)
    \/ GiveUp
    \/ Publish

Next == Run \/ External

Spec == Init /\ [][Next]_vars

-----------------------------------------------------------------------------
(* Properties.                                                             *)

\* Types: every file is a record, missing or garbled; the histories are sets of CVEs.
TypeOK ==
    /\ head \in [CVEs -> File] /\ disk \in [CVEs -> File]
    /\ anchor \in [CVEs -> File] \cup {NoCommit}
    /\ clock \in 0..MaxRuns /\ edits \in 0..MaxEdits
    /\ pc \in {"idle", "running"}
    /\ todo \subseteq CVEs /\ ext \subseteq CVEs
    /\ computed \in [CVEs -> Record]
    /\ reported \subseteq CVEs /\ flagged \subseteq CVEs /\ escalated \subseteq CVEs
    /\ since \in [CVEs -> 0..MaxRuns]

\* What a human or a bot wrote - the manual status, the overrides of each
\* release - and FirstSeenAt survive every run (mergeStructs, mergeMap), as long
\* as the file is the record of its CVE.
HumanDataSurvives ==
    [][pc = "running" =>
         \A c \in CVEs : IsRecordOf(c, head[c]) =>
            /\ IsRecordOf(c, head'[c])
            /\ head'[c].manual = head[c].manual
            /\ head'[c].firstSeen = head[c].firstSeen
            /\ \A k \in Releases :
                  At(head'[c].releases, k).manual = At(head[c].releases, k).manual]_vars

\* A release that a run does not assess, because it is end of life or the CVE is
\* not relevant any more, keeps its decision in the record the run publishes.
UnassessedReleasesStay ==
    [][pc = "running" =>
         \A c \in CVEs : IsRecordOf(c, head[c]) =>
            \A k \in DOMAIN head[c].releases :
               k \in DOMAIN computed[c].releases
                  \/ At(head'[c].releases, k) = head[c].releases[k]]_vars

\* When a run has processed every CVE, the files on disk - what the publisher will
\* commit - hold what the run computed, whether Process saved the record or found
\* that there was nothing to save (service.go:157).
DiskHoldsWhatWasComputed ==
    RunComplete =>
        \A c \in CVEs :
            /\ IsRecordOf(c, disk[c])
            /\ disk[c].upstream = computed[c].upstream
            /\ disk[c].reason = computed[c].reason
            /\ \A k \in DOMAIN computed[c].releases :
                  At(disk[c].releases, k).auto = computed[c].releases[k].auto

\* The change reactors hear of a record exactly when it differs from the last
\* published baseline, whatever edits, failed runs and shortcuts (the set of
\* externally modified files) lie in between.
ReportsMatchChanges ==
    RunComplete =>
        \A c \in CVEs :
            c \in reported <=> HasChanges(Read(BaselineFile(c)), disk[c])

\* The program warns of an external edit exactly when a field of its own differs
\* between the baseline and the committed record.
EditsAreFlagged ==
    RunComplete =>
        \A c \in CVEs :
            c \in flagged <=> OverwriteFieldsDiffer(Read(BaselineFile(c)), Read(head[c]))

\* A CVE awaiting Debian's verdict is escalated in every run from TimeToWait after
\* the run that created its record, and in none before; a manual status stops it.
EscalatedInTime ==
    RunComplete =>
        \A c \in CVEs : since[c] # 0 =>
            (c \in escalated <=>
                /\ computed[c].reason = "awaiting-debian"
                /\ disk[c].manual = ""
                /\ clock - since[c] >= TimeToWait)

\* Releases are assessed only for a CVE whose record comes out relevant, so
\* that the status asked before the merge (GlobalStatus) is the one after it.  A
\* record whose id was removed is replaced, manual status and all.
AssessedOnlyIfRelevant ==
    RunComplete =>
        \A c \in CVEs : Read(head[c]) = EmptyRecord \/ IsRecordOf(c, head[c]) =>
            (DOMAIN computed[c].releases # {} => GlobalStatus(disk[c]) = "relevant")

\* service.go:129-133 and its log message: an edit of a program-owned field by an
\* external actor "will be ignored and reverted".
EditsAreReverted ==
    RunComplete =>
        \A c \in flagged, k \in Releases :
            LET expected == At(Read(BaselineFile(c)).releases, k).auto
                edited   == At(Read(head[c]).releases, k).auto
            IN edited # expected =>
                  At(disk[c].releases, k).auto \in
                     {expected, At(computed[c].releases, k).auto}
=============================================================================
