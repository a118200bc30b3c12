# Formal model of glvd2

glvd2 decides, several times a day and without an operator, which CVEs affect which maintained
releases of Garden Linux. One run reads the CVE records and Debian's security tracker (both git
submodules), asks what each release ships and how those packages were built, updates one
assessment record per CVE and pushes everything it wrote to the branch it runs on. Humans and
other bots commit to the same branch.

This directory holds TLA+ modules of that run, TLC configurations that check them on small
instances, and proofs that TLAPS checks for instances of any size. `PROJECT.json` ties every
definition that models code to the lines it models, lists the hazards of the code with the
properties that cover them, and names for every property a plausible bug (a "mutant") that the
property's own run detects.

Contents: 1. The system. 2. Modules and the code behind them. 3. What is checked.
4. Disagreements found. 5. What is proved. 6. What is only model-checked, and what is left out.
7. Plan.

## 1. The system

### 1.1 A run

`runPipeline` (`cmd/glvd2/pipeline.go:44`) is sequential but for the stream of CVE records:

| step | code | modelled in |
|---|---|---|
| HEAD is on the configured branch (levels `commit`, `push`) | `publish.VerifyBranch` | Publish |
| owned paths are put back to HEAD | `publish.PrepareWorktree` | Publish; its effect starts Assessment and Builds |
| nothing foreign is staged (level `push`) | `publish.VerifyCleanIndexForPush` | Publish |
| an empty database is created | `db.Regenerate` | DebSecTracker (initial state) |
| submodules move to their newest commit | `git.SubmoduleService` | Publish |
| Debian's list is ingested | `debsectracker.IngestTriage` | DebSecTracker |
| identifiers of all CVEs are collected | `cvelistv5.GetIDsForCVEs` | CVEStream, CVEIdentifiers |
| Debian packages are mapped to identifiers | `buildDebMapping` | DebianMapping, IdentifierMatching |
| curated rules are loaded | `glmap.New` | InclusionRules, IdentifierMatching |
| maintained releases are listed, what they ship is projected | `buildSBOMProjections` | ShippedSources, PackageListings; the vendored rules in IdentifierMatching |
| each CVE is screened, assessed per release, merged and saved | `processCVEs` | CVEStream (delivery), Triage (decision), IdentifierMatching (rules and suggestions), Builds (package analyses), Assessment (records) |
| one commit per group, then a push | `publish.Run` | Publish |

The first error ends the run. The first SIGINT or SIGTERM cancels the context of the run (exit
code 130). The goroutine that forces the exit on "the second" signal (`main.go:31-39`) reads from a
channel that is registered before any signal can come and has room for one, so that the first
signal is in it as well: once the context is cancelled, the process may be gone at any moment,
whether a second signal comes or not. In the models an interrupted run therefore goes on, under a
cancelled context, for any number of steps, none included. The scheduled workflow (`.github/workflows/run.yaml`)
starts a run from a new clone at level `push`; the concurrency group keeps scheduled runs apart,
but nothing keeps reviewers from pushing meanwhile. A developer may run the program on a checkout
that holds work of their own, at every level (`none`, `commit`, `push`).

### 1.2 Components

State, operations, interaction; what is hard; what makes it correct.

**Publishing** (`internal/publish`, `internal/git/writer.go`). State: the git checkout - branches,
HEAD, index, working tree -, the remote branch, and `startSHA`. Operations: reconcile, add, check,
commit per group, push, roll back. Hard: every command may fail or be cancelled between any two
others, the rollback runs under the cancelled context, and the remote moves. Correct if commits
stay within their group, nothing others push is lost, readers of the remote see complete sets of
artifacts only, a failed run leaves HEAD alone, and what it left on disk never reaches a later
commit.

**CVE record stream** (`internal/cvelistv5`). State: two data channels, an error channel of
capacity one, a derived context, a walker, sixteen workers and a consumer. Hard: cancellation at
any point, errors dropped on purpose, three closes in an order that must not panic, `select`
between channels that close independently. Correct if every record is delivered once, a result
without error is complete, no failure is silent and nobody waits for ever.

**Assessment records** (`internal/assessment`, `internal/reactor`). State: one JSON file per CVE
in the working tree, in HEAD, and in the baseline (the tree of the last commit whose message
carries the anchor). Operations: read, merge by field strategy (overwrite/preserve/map), diff
against the baseline, warn of external edits, tell the reactors, save. Hard: three versions of
each file, edits by others between runs, a shortcut that loads the baseline of externally modified
CVEs only, runs that die while they write. Correct if human data survives, the tree holds what was
computed, reports follow the differences from what was last published, and a CVE that Debian is
silent about is escalated in time.

**Debian security tracker** (`internal/debsectracker`, `internal/model/debtriage`). State: a
scanner over one text file and a transaction. Hard: an entry is complete only when the next
begins, the last status of an entry wins, some entries are skipped, a duplicate id violates a
primary key. Correct if the database holds exactly what the list says, or nothing.

**Release list, package listings, SBOM feed, inventory, vendored components, shipped versions**
(`internal/gardenlinux/glrd`, `version`, `packages`, `sbom`, `inventory`, `vendormap`,
`shippedversions`, `internal/purl`). State: three projections, fed release by release from the
SBOMs of all flavors or, for a release that lacks one, from its package pool, which the inventory
and the index each download, list by list. Hard: partial SBOM sets, a pool that changes between
two downloads, several versions of a source in one pool, a binary that moved to another source,
the same source under two namespaces, documents that can be understood only in part, thresholds.
Correct if the projections agree with what is published, and an indexed version is one that was
shipped.

**Identifier matching** (`internal/glmap`, `cpe`, `identifier`, `vendormap`). State: the compiled
curated rules and the compiled rules derived from SBOMs, each a map from normalized identifiers to
targets. Operations: load, derive, look up. Hard: CPE names in two formats and several cases,
wildcards, identifiers spread over the containers of a record, several rules for one identifier, a
rule that does not load. Correct if a CVE leads to the target of every rule that names something
it affects and to no other, whatever the spelling.

**Debian mapping and suggestions** (`internal/debmap`, `pkgsuggest`). State: a count for each pair
of an identifier and a Debian package that a past decision put together. Operations: analyse a
row, suggest packages for a CVE. Hard: rows in no particular order, noise filters by group, ties
in the ranking. Correct if suggestions are a function of Debian's rows alone.

**Screening, release status** (`internal/screening`, `affectedness`, `releasestatus`, `vers`, and
`assessment/record.go` for the status of a release). Pure decisions over all of the above. Hard:
precedence of sources, lineage of a package, versions at the boundary of a range, several packages
in one release, human overrides. Correct if nothing shipped is screened out, nothing is cleared
without evidence, and open questions reach a human.

**Package builds** (`internal/gardenlinux/pkgbuild`, `internal/whttp`, `internal/github`). State:
a store of one JSON file per package, committed by each run and never recomputed; a cache per run;
a request with retries. Hard: "no such tag" and "could not ask" must stay apart, tags move while
an analysis is read, the store must survive kills, two spellings of a version share an entry.
Correct if what is stored was right at one moment and never stands in the way.

**Database** (`internal/db`, generated queries), **audit files**, **configuration and logging**,
**debug commands**: see section 6; `PROJECT.json` gives the status of each.

## 2. Modules and the code behind them

`map` in `PROJECT.json` has the lines. Names are those of the source where TLA+ allows it.
Definitions under a comment `Mutant:` are not part of the model; they are the bugs the properties
are tested against.

**Publish** - one action is one git command. A history is a sequence of commits, and stands for
the SHA of its last commit, so that "reset to startSHA", "HEAD moved past startSHA" and
"fast-forward" are assignments, comparisons and prefixes of sequences. `index` and `worktree` are
functions from paths to contents; a commit has the group it was made for and its whole tree.
`log`, `head`, `index`, `worktree`, `remote` persist between runs; `pc`, `level`, `start`, `gi`
(loop index), `cancelled` and `cause` belong to a run; `written` is a history variable, the
artifacts this run has written. `RestorePaths` and `CleanPaths` follow
git's rules: `git restore --staged --worktree` knows the paths tracked by HEAD or index and gets
only groups tracked at HEAD; `git clean` removes what the index does not know; submodule checkouts
are left alone by both. `CommitGroup` is a *partial* commit (`git commit -- paths`). A command
fails by itself only if `Faults`, and always under a cancelled context. `git add` of a group
without a file stages nothing where the directory exists and fails where it is missing (`AddPaths`
leaves it open). `Interrupt` cancels the context, `Crash` is the process gone, by the goroutine that
waits on `hardExit` or from outside. `PushUnacknowledged` is
the push that the remote takes and the client never hears of. `Environment` is everybody else:
pushes at any time, and, between runs, staging, `git switch`, `git pull`, a new clone.

**PublishedSnapshot** is the abstract specification for readers of the remote: a history and a
draft; others append to the history, the pipeline publishes its whole draft in one step. `Publish`
implements it with `main <- remote`, `draft <- worktree`.

**CVEStream** - one action is one channel operation or one call of `cancel()`, for one walker
(`ReceiveCVEs`' goroutine), each worker (`parseWorker`) and the consumer. `select` is a
disjunction; a `select` with `default` is an `IF`; a send waits for room, a receive for an element
or for the close. `Done` is the derived context: cancelled by the stream or by the run. `consumer`
chooses between the loop of `GetIDsForCVEs` and that of `processCVEs`, which also looks at the
context itself. **CVEIdentifiers** has the pure part of `GetIDsForCVEs`: what each container of a
record contributes, with maps that create an entry only when there is something to put in it;
`AffectedEntries`, `NamedWFNs` and `HoldsAll` say without a map what a CVE names, for comparison. **CPENames** is `internal/cpe`: the two
formats, which names parse, the key under which two WFNs are one, and the maps of WFNs with their
unions, whose order decides which spelling stays.

**StreamResult** is the abstract specification for a consumer: a set of records, taken one by one
and each once, then one answer; "ok" only when all have been taken or the run was interrupted.
There are no goroutines, channels or contexts in it. `CVEStream` implements it
(`ImplementsStreamResult`) with `Records <- CVEFiles`; the variables have the same names.

**InclusionRules** has the pure part of rule matching: the keys of a rule, loading one
(`Loadable`, `AddRule`), `Lookup`, the rule an SBOM's group of components amounts to, and
`AppliesTo` as the reference, which knows no keys. **DebianMapping** has the filters, the counts
(a bag of pairs) and `Suggest`, where `Ranked` is `slices.SortFunc` with a comparison that leaves
no ties. **IdentifierMatching** is the state machine of both in the order
of the pipeline: rows of Debian in any order, curated rules one by one (one that cannot be loaded
ends the run), SBOMs one by one, then compilation of what was derived. Texts are model strings;
what a text is in lower case, normalized or escaped, and where a filter pattern occurs in it, are
constant functions with the assumptions that the code's conversions satisfy (`CPEAssumption`:
idempotent, fixed on the special values). Of an SBOM that the consumers understand
(`ShippedSources` has those they do not), a source whose name makes no PURL still ends the run
(`Buildable`).

**Assessment** - a record keeps one field per merge strategy and owner: `upstream`, `reason`
(program, overwrite), `manual`, `firstSeen` (preserved), and per release `auto` and `manual`.
`head`, `anchor` and `disk` are the three versions of all files. `StartRun` puts the tree back to
HEAD and lists the externally modified CVEs; `Process` is the whole of `Service.Process` for one
CVE (read, `GlobalStatus`, merge, edit detection, diff, reactors, save); `Publish` commits with
the anchor if some file changed; `BreakOffSave` leaves half a file. `External` are commits by
humans (manual status, overrides, deletion, hand-written records) and by faulty bots
(program-owned fields, wrong ids, unparsable files). `computed`, `reported`, `flagged`,
`escalated` and `since` are history variables for the properties.

**DebSecTracker** - a line of the list is the regular expression that matches it with what it
captures. `ReadHeader`, `ReadContent`, `Commit`, `IngestionFails` are the branches of the scan
loop; `tx` and `db` the rows inside and outside the transaction; `Sid`, `VerdictStatus` the
verdict index. `ListedTriage`, `Disclosed`, `ListedLines`, `PackageRowAt` and `ReleaseRowAt` read
the list as a whole, without the scanner, as the reference. `DebSpec` is the ingestion on its own.

**PackageListings** has the pure part of reading what a release ships: paragraphs of a
`Packages` list, with their defaults and what apt would install of them
(`SelectInstalledVersions`; a paragraph is known by its place, a list and a number, and `Before` is
the order in which the code appends them); components of an SBOM, their classes, what makes an SBOM impossible
to understand, the source of a package, and what a package vendors.

**ShippedSources** - a world is a list of releases with the SBOMs of their flavors, and the pools
with their lists before and after a change (`PoolsChange`). `left` is the set of what is still to
be delivered, of which the first comes next. `AddSBOM` is one SBOM for all three consumers; `GetInReleaseFile`, `GetPackageList` and
`MissingSBOMSet` are the download of a pool by the consumer whose turn it is, so that the pool can
change between any two requests. `Conflict` is `ErrMultipleVersions`; `Result` and `FeedFails`
apply the thresholds. At this commit `LocateSBOM` always answers that there is none, and every
release is known by its pool; the SBOM branch is modelled from the code all the same, and worlds
of both kinds are checked. `seen` is a history variable: when each list was read.

**Triage** composes DebSecTracker and ShippedSources: ingest, then feed, then one arbitrary CVE
(`ProcessCVE`, any member of `Judgements`), whose screening and per-release reasons are computed
by `Screen`, `Resolve`, `EvaluateRange`, `PackageReason`, `Assess` and `CompositeReason`. CVEs are
judged independently of each other, so that one stands for all. The targets that the curated rules
give, and the components a CVE names, are part of the judgement; IdentifierMatching shows what
they come to.

**Builds** - `Analyze` looks into the run's cache and the store; otherwise a *job* asks for the
tag in each candidate repository (`Locate`), the recipe (`FetchRecipe`) and each patch series
(`FetchSeries`; `SkipUnsafe` passes over a directory name that is not asked for), with `TryLater`/`Retry`/`GiveUp`/`Refused` for the HTTP client, and saves
(`BeginSave` truncates, `FinishSave` writes). `CutTag` is a maintainer who cuts or moves a tag at
any moment. `right` is a history variable: the analyses that were right at some moment since the
job began.

Each `MC*` module instantiates one of these with a few model values. Each `*Proofs` module holds
the theorems about the module it is named after (section 5).

## 3. What is checked

Twelve runs. `CHECK_DEADLOCK FALSE` is set where the system stops: Publish after `MaxHistory`
commits, Assessment after `MaxRuns` runs, a stream, a preparation of the identifiers or a triage
when it is over. Builds never stops, and deadlock is checked there.

| run | states | question |
|---|---|---|
| `publish_groups` | 2.5 M | groups, branches, levels, faults, signals, kills, others: isolation, rollback, completeness, refinement |
| `publish_seeded` | 346 k | one group of two files, under fairness: leftovers in commits, refusals, termination |
| `publish_first_run` | violation | leftovers of a group HEAD does not track |
| `publish_interrupted` | violation | rollback after a signal |
| `cve_stream` | 87 k | refinement of the ideal result, identifiers, errors, closes, termination |
| `cve_stream_canceled` | violation | which error reaches the caller |
| `identifiers` | 10 k | rules to targets, Debian's rows to suggestions |
| `rules_disjoint` | violation | are curated rules checked against each other? |
| `assessment` | 2.5 M | three runs, two commits by others |
| `assessment_reverted` | violation | are edits of program-owned fields reverted? |
| `triage` | 61 k | from the list and the releases to the decision |
| `builds` | 349 k | the store over any number of runs |

### Publish

*Bounds.* `publish_groups`: a submodule group and a directory group with one file each, and one
foreign path; two contents; two branches; histories of at most four commits (`MaxHistory`), so
that a run with two commits follows another one or a commit of somebody else; the directory has
been committed before or never. Two groups are enough for "another group's files" and for a
failure between commits; a foreign path for everything the pipeline does not own. `publish_seeded`
has two files in one group, one tracked and one not, so that HEAD, index and disk can differ in
every way a leftover can.

*What they show.* `CommitsStayInGroup`, `FailedRunLeavesHead`, `DonePublishesEverything`,
`CleanSlateForPush`; as action property `OnlyTargetMoves`; as refinement `PublishedAtomically`,
which also says that nobody's commit is ever dropped from the remote. `OnlyOwnWorkIsCommitted`
compares what a run adds to the HEAD it started from with what it has written itself, whatever
killed, failed and rolled-back runs have left in the index and on disk: at level `push` for every
group, at level `commit` for those that HEAD tracks, since what is staged of another group is
kept and committed along (section 4). `RefusedOnlyForForeignContent` holds for a repository whose
groups are tracked (the seeded one) and fails otherwise (section 4). `RunEnds` is liveness.

*What they do not show.* No property says that an empty group is skipped: whether it is depends on
its directory (section 4). And no property tells commits of an earlier, interrupted run from the
history a run starts from: `DonePublishesEverything` and `OnlyOwnWorkIsCommitted` are about what the
run itself commits, and hold when such commits are pushed along or stay local.

*Fairness.* `WF_vars(Progress)`: a run under way takes its next step. No step waits for anybody,
every loop is over a finite list, and git commands that hang are cancelled by the operator. Which
way a step goes - success, failure, cancellation - is left free, and starting a run, writing one
more artifact, or a signal is never required.

### CVEStream

*Bounds.* Five directory entries, four of them CVE files; two workers; both channels of capacity
one (32 and 64 in the code); none, one or two unparsable files; optionally unreadable directories,
failing records and an interruption. With more paths than places every party blocks, both channels
fill, and both workers fail in the same run; the error channel has its real capacity.

*What it shows.* `ImplementsStreamResult` (a record comes at most once, and a result without an
error has all of them unless the run was interrupted), `IdentifiersComplete` (the identifiers
collected are those a reading of the files yields, in whatever order the records came),
`FailureIsNotSilent`, `NoSendOnClosedChannel`, and `ConsumerReturns` as liveness.

*Fairness.* One weak fairness condition for the walker, the consumer and each worker: the Go
scheduler runs every goroutine that can go on. Weak fairness suffices: nobody competes for a
receive in a way that could starve the end of the stream.

### Identifiers

*Bounds.* Four CVEs: one with every kind of identifier in two containers, in mixed case, with a
CPE in both formats, a wildcard and a name that does not parse; one with a CPE in two cases and
one in two spellings; one of another vendor at Red Hat; one with nothing. Four tables of rows
(repetitions, unknown CVEs, a package whose name makes no PURL, none at all), three sets of noise
filters that use every kind of condition, seven lists of curated rules (two of them overlapping,
three that do not load), four shipments, one of them with a source that makes no PURL. All orders of the rows are explored.

*What it shows.* `LookupMatchesRules` compares the compiled maps with `AppliesTo`, which reads a
rule as its author would; `SuggestionsMatchHistory` compares counts and ranking with the rows, so
that no order of rows or map iteration can show. Where a CVE names one CPE in two spellings,
`LookupMatchesRules` asks that exactly one of them counts, and the same one for curated and derived
rules (`Spellings`); which one it is, and that the other is lost (section 4), it leaves open.

### Assessment

*Bounds.* Two CVEs (symmetric), two releases, four results of a run (awaiting Debian, relevant in
one release or the other, not relevant), three runs, two external commits; `TimeToWait` two runs,
with the clock counting runs. Three runs with two commits in between are what it takes to publish
a baseline, edit it, have a run fail or be thrown away, and look at the edit again.

*What it shows.* `HumanDataSurvives` and `UnassessedReleasesStay` (action properties),
`DiskHoldsWhatWasComputed`, `ReportsMatchChanges`, `EditsAreFlagged`, `EscalatedInTime`,
`AssessedOnlyIfRelevant`. The history variables are what makes these
statements about the whole run rather than about an assignment: `reported` is compared with the
difference between the published baseline and the tree to be committed, whatever path led there.

### Triage

*Bounds.* 99 lists: every line of eleven kinds alone in an entry, before another entry, and every
pair of lines of which one is a package; four endings; and the irregular ones (empty, without
header, an id twice, without a final newline). Thirteen worlds of three releases, of which one has
ended and two have suites named by different rules: SBOMs for all flavors, for some, for none;
documents that cannot be understood, for each of the reasons there are; two namespaces; several
versions of a source in a pool; a binary that another source took over; a string that is no
version; conflicts; an empty pool; and two worlds whose pool changes during the run, one of them
to fewer lists. 18 CVEs that differ in rejection, curated and vendored rules, manual status,
overrides and builds. Two lines are enough for "the last line decides" and "the last row for a
source counts"; two maintained releases for evidence taken from the wrong one; one change of a
pool for two downloads that differ.

*What it shows.* `RowsMatchList` and `ProjectionsMatchReleases` compare the incremental code with
a reading of the whole input. `IndexedVersionWasShipped` is what survives of that when pools
change: no version in the index had been replaced already. `ShippedIsNotScreenedOut`,
`ClearedOnlyWithEvidence`, `VulnerableIsReported` and `OpenQuestionsEscalate` are the promises of
the product and are stated from the published inputs (the list, the SBOMs, the pools as they were
downloaded, the builds), not from the intermediate projections. `OpenQuestionsEscalate` is an
equivalence: an open question reaches a human, and nothing else does.

### Builds

*Bounds.* One package in three base versions - plain, with an epoch (the same tag), a backport -
each with and without a binNMU suffix; three commits; `MaxTagCuts` three, `MaxRetries` one. One
package is enough because files and jobs are per package and a run analyses one at a time. The
number of runs is not bounded.

*What it shows.* `AnalysisOfOneMoment`, `StoreNeverInTheWay`, `CommittedEntriesStay`, `JobEnds`.

*Fairness.* `WF_vars(JobStep)`: a request ends within the client's timeout (60 s), a delay with
its timer, a write by itself.

## 4. Disagreements found

Each is a run that TLC refutes; `findings` in `PROJECT.json` has the quotations and lines.

1. `publish_first_run`: `PrepareWorktree` says it reconciles all groups to HEAD, but a group HEAD
   does not track is skipped by `git restore`, and what is staged of it is skipped by `git clean`.
   After a rolled-back first run, every push-level run of that checkout refuses the pipeline's own
   files as foreign. (A new clone, as in CI, is not affected.)
2. `publish_interrupted`: "rolls back to the starting HEAD on failure" does not hold when the
   failure is the cancellation of the context, under which the reset runs too.
3. `cve_stream_canceled`: the walker's `context.Canceled` may take the only place in the error
   channel before the worker that caused the cancellation reports; the run then ends as
   "interrupted", and the unparsable file is never named.
4. `rules_disjoint`: "the identifier sets across all rules must be disjoint; this is validated at
   load" - nothing validates it; the targets of two rules for one identifier add up.
5. `assessment_reverted`: an edit of the automatic status of a release that the run does not
   assess is announced as reverted, and then kept and published as the new baseline.

Met while modelling, part of the models and without a run of their own:

- A group whose directory is missing, on disk and in the index, makes `git add` fail on its
  pathspec; such a run ends with a rollback, although `Run` is said to skip empty groups
  (`service.go:134`). A group whose directory exists and is empty is skipped.
- The comment in `main.go:31` has the process exit on the second signal. The first one is in
  `hardExit` too, so that the forced exit races the graceful end after one signal already
  (section 1.1).
- At level `commit` the index may hold what an earlier run has staged of a group that HEAD does not
  track: it is not restored, not refused (only level `push` asks for a clean index), and committed
  with the group although this run has not written it.
- Commits that a failed rollback has left (item 2 above) belong to the HEAD the next run starts
  from: they are pushed with its own commits or, if it has none, stay local as "nothing to push".
- An empty Debian list makes `processTriage` dereference a missing entry. The panic ends the run as
  an error does, and the model has one failed ingestion for both: no property tells them apart.
- A context that is cancelled after the walk has ended yields a partial map and no error;
  StreamResult allows it for interrupted runs only.
- The map of WFNs takes `g++` (2.2) and `g\+\+` (2.3) for one name and keeps one of them, while
  rules tell them apart: a rule for the other spelling does not apply.
- The inventory and the index may see different contents of one pool; nothing in the run notices.

## 5. What is proved

Every safety property of the passing runs, and both refinements, for every value of the
constants that meets the assumptions below: any number of files, groups, records, workers, rules,
rows, releases, packages, versions and runs, faults and interrupts allowed or not. A run of
section 3 shows a property on a small instance, the theorem for all of them.

| module | theorem | statement |
|---|---|---|
| PublishProofs | `TypeCorrect` | `Spec => []TypeOK` |
| | `GroupIsolation` | `Spec => []CommitsStayInGroup` |
| | `RollbackRestoresHead` | `Spec => []FailedRunLeavesHead` |
| | `SuccessIsComplete` | `Spec => []DonePublishesEverything` |
| | `PushStartsClean` | `Spec => []CleanSlateForPush` |
| | `LeftoversAreNotCommitted` | `Spec => []OnlyOwnWorkIsCommitted` |
| | `OnlyTheTargetMoves` | `Spec => OnlyTargetMoves` |
| | `OnlyForeignContentIsRefused` | `GroupsTracked` implies `Spec => []RefusedOnlyForForeignContent` |
| | `PublishesAtomically` | `Spec => PublishedAtomically` (implements PublishedSnapshot) |
| CVEIdentifiersProofs | `RecordIsComplete` | what a record contributes is what it names, for any containers |
| CVEStreamProofs | `TypeCorrect` | `Spec => []TypeOK` |
| | `ClosedWhenDone` | `Spec => []NoSendOnClosedChannel` |
| | `FailureIsReported` | `Spec => []FailureIsNotSilent` |
| | `IdentifiersAreComplete` | `Spec => []IdentifiersComplete` |
| | `StreamImplementsResult` | `Spec => ImplementsStreamResult` (implements StreamResult) |
| IdentifierMatchingProofs | `MatchingTypes` | `Spec => []TypeOK` |
| | `LookupsAreRight` | `Spec => []LookupMatchesRules` |
| | `SuggestionsAreRight` | `Spec => []SuggestionsMatchHistory` |
| AssessmentProofs | `TypeCorrect` | `Spec => []TypeOK` |
| | `SavedOrUpToDate` | `Spec => []DiskHoldsWhatWasComputed` |
| | `ReactorsHearOfChanges` | `Spec => []ReportsMatchChanges` |
| | `ExternalEditsAreNoticed` | `Spec => []EditsAreFlagged` |
| | `DeadlineIsKept` | `Spec => []EscalatedInTime` |
| | `AssessedForRelevantOnly` | `Spec => []AssessedOnlyIfRelevant` |
| | `HumanDataIsKept` | `Spec => HumanDataSurvives` |
| | `UnassessedReleasesAreKept` | `Spec => UnassessedReleasesStay` |
| TriageInputsProofs | `IngestedAsListed` | `DebSpec => []RowsMatchList` |
| | `ProjectionsAreComplete` | `ShippedSpec => []ProjectionsMatchReleases` |
| | `IndexedVersionsWereShipped` | `ShippedSpec => []IndexedVersionWasShipped` |
| TriageProofs | `RunIngests`, `RunFeeds` | `Spec => DebSpec`, `Spec => ShippedSpec`; so the three above hold in a run |
| | `TriageTypeCorrect` | `Spec => []TypeOK` |
| | `ShippedIsScreenedIn` | `Spec => []ShippedIsNotScreenedOut` |
| | `ClearingNeedsEvidence` | `Spec => []ClearedOnlyWithEvidence` |
| | `VulnerableReleasesAreReported` | `Spec => []VulnerableIsReported` |
| | `OpenQuestionsAreEscalated` | `Spec => []OpenQuestionsEscalate` |
| BuildsProofs | `TypeCorrect` | `Spec => []TypeOK` |
| | `StoreIsUsable` | `Spec => []StoreNeverInTheWay` |
| | `StoredAnalysesWereRight` | `Spec => []AnalysisOfOneMoment` |
| | `StoreOnlyGrows` | `Spec => CommittedEntriesStay` |

In each module a theorem `...Invariance` states the inductive invariant, with a lemma for each of
its parts or for each action; the theorems of the table follow from it.

### Assumptions

A proof uses the named `ASSUME`s of the modules it is about and nothing else. Most of them give a
constant its type. Those that say more, and why the code's world satisfies them:

- `CPEAssumption`, `NormalizedAssumption`, `CanonicalAssumption`: lower case, escaping and
  canonical PURLs are idempotent functions, and leave the special CPE values alone. The code's
  conversions do (`cpe`, `identifier`, `purl`).
- `CVEStreamAssumption`, `MatchingAssumption`: no two CVE files have the same id. The id is the
  file's name in the cvelistV5 repository.
- `ArchiveAssumption`: in an archive a binary of one name and version is one package. Debian's
  archive format rests on it; without it apt's choice among equals would not be determined.
- `OrderAssumption`: strings have an order, given as a sequence, of the identifiers that the CVEs
  come to and of the PURLs that packages are identified by.
- `CutTag` (a step of Builds, not an `ASSUME`): a package has a normal repository or one for its
  backports, not both. The comment at `pkgbuild/tag.go:50-51` says so of the build system; the code
  does not check it. `AnalysisOfOneMoment` rests on it, since the two are asked one after the other.
- `BuildsAssumption`, `AssessmentAssumption`: the marks for a missing or spoilt file are not
  contents.

One theorem has a hypothesis of its own: `OnlyForeignContentIsRefused` holds in repositories that
satisfy `GroupsTracked`, that is, that have a file of every group in whatever tree they start
from. `publish_seeded` starts from one; `publish_first_run` shows that the hypothesis is needed.

### The arguments

**Publish.** The properties are not inductive (a rollback empties a history unless `start` is known
to be captured).

- `ControlInv` relates the program counter to the run's variables and to HEAD: past
  `VerifyBranch`, a run that may commit is on `Target`; `start` is empty and `gi` is 1 until
  `CaptureStart`; at `resolve` and `push` the loop is over.
- `HistoryInv`: commits stay in their group in every history a branch may come to have, `start`
  included, which a rollback makes the history of HEAD again.
- `LoopInv`: for the groups before `gi`, HEAD holds what is on disk; at `check` and `commit` the
  group at hand is staged as it is on disk. A partial commit of one group leaves the others as
  they are, so the loop ends with every artifact committed.
- `ReconcileInv` follows the reconciliation: what `git restore` has put back equals HEAD, and
  after `git clean` what the index does not know is gone from disk. With a clean index, index,
  HEAD and disk are then equal, which is `CleanSlateForPush`.
- `OwnWorkInv`: from the reconciliation on, an owned file that this run has not written is on disk
  as in the HEAD it started from (`Reconciled`; every group at level `push`, the tracked ones
  otherwise), and a commit takes each file from disk (`LoopInv`). That is
  `OnlyOwnWorkIsCommitted` for the present HEAD.
- `StayTrackedInv`, `RefusalInv`: a path that exists in every tree that may become HEAD, index or
  disk keeps doing so (in Publish files come and change, and nobody deletes one); then every group is tracked at HEAD, `git restore` puts
  back all owned paths, and what the check finds staged is foreign.
- `UnpublishedInv`, for the refinement: what a history has beyond the length of the remote was
  committed by the pipeline. `PushFastForward` and `PushUnacknowledged` map to `PublishDraft` (by
  `LoopInv`, the history that is pushed ends in the whole draft), `OthersPush` to `Contribute`, and
  everything else to `Work` or a stutter.

**CVEStream.** `ControlInv`: which channels are closed follows from how far the walker is, and the
consumer turns away from a channel only when it is closed and drained. `ErrorInv`: an error that
was sent is in the channel, or another one is, or the consumer has returned one. `OnceInv`: a path
is in one place only - ahead of the walker, in the queue, with one worker, or delivered -, so that
nothing comes twice. `CompleteInv`: unless something failed or the run was interrupted, no path is
in none of these places, since the derived context is cancelled only when all workers are through.
In the refinement a receive of a record is `Take`, the end of the loop is the answer, and all
channel traffic is a stutter. `IdentifiersComplete` is `TakenInv` (a result without error has all
records) and `RecordIsComplete`.

**CVEIdentifiers.** The map of a record is a fold over containers, entries and names. `Holds` says
what a map holds after some of them, `Entered` what one entry adds; that a CPE in two spellings
enters once is a lemma about `Union`.

**IdentifierMatching.** `FoundInv`: what the run finds stays as it was. `RulesInv`: the compiled
rules are the targets of the keys of the rules up to `next`, all of which could be loaded or built.
`KeptAreSpellings` (the WFNs that are kept are one spelling of each CPE), `SharedKey` (a CVE and a
rule have a key in common exactly if both name something, the CPEs in these spellings) and
`LookupFinds` then give `LookupMatchesRules`.
`CountsInv`: the count of a pair is the number of analysed rows that add it, whatever their order
(`CountsAreEvidence`, with `MatchesAreNotNoise` for the filters). For the ranking, `RankedInOrder`
shows that to place each member of a finite set behind as many as come before it puts every strict
total order into a sequence without gaps or repetitions; `MatchesHaveOrder` and `PackagesRanked`
show that the two comparisons of `Suggest` (`ByCount`, `ByTotal`) are such orders.

**Assessment.** A run is sequential, so the invariant says of each CVE where the run is with it.
`UntouchedInv`: a CVE still to be processed has its committed record on disk. `ProcessedInv`: of a
processed one, everything the run did is a function of the committed record, the baseline and the
incoming record. `ExtInv`: a CVE outside `ext` has the same file in HEAD and in the baseline, so
that the shortcut of reading the baseline from disk is sound. `TimeInv`: whatever is committed was
first seen before the present run - when a record has lost its id, nothing else makes the record of
this run differ from the baseline. `SinceInv` dates the records a run creates. The properties are
then facts about `merge` and `diff`.

**Debian Security Tracker** (first part of TriageInputsProofs). The ingestion reads the list once,
`RowsMatchList` reads it as a whole. `ReadingInv` says in the terms of the property what the
transaction and the open entry amount to when the lines before `pos` are read (`RowsUpTo`,
`EntryUpTo`); that a set of lines has a last one is the least-number principle, which the
well-foundedness of `<` on Nat gives without an induction theorem.

**ShippedSources** (second part). `SBOMInv`, `InventoryInv` and `IndexInv` say what each consumer
holds, in terms of what has been delivered (`left`) and when it was read (`seen`, constrained by
`SeenInv` and `PoolInv`): the inventory is a union; the index has, for each version of a release,
the sources that its releases delivered so far had, each in the one version it had.

**Triage.** Ingestion and feed are followed one after the other (`RunIngests`, `RunFeeds`), so their
theorems hold in a run. `JudgedInv`: a judgement is made of complete results, which change no more.
The promises follow from three facts: the verdict for a package is what the list says last of it
(`SidIsListed`), the version looked up is the one shipped (`LookedUpIsShipped`), and a release is
what its worst package is (`CompositeIsWorst`).

**Builds.** `JobInv`: a job exists only in a run, and a request waits only for a job. `DiskInv`: a
file is torn only while it is written or until the next run puts it back, and no file has lost what
is committed. `RepoInv`: a package is found in one repository at most. `RightInv`: the job is on
its way to an analysis that is right at some moment since it began; a tag moved between two
requests does not matter, since the later ones name the commit.

## 6. Only model-checked, and not modelled

*Only model-checked.* Liveness: `RunEnds`, `ConsumerReturns` and `JobEnds` need fairness and
ENABLED, which the prover does not handle. Everything else the passing runs check is proved. The
properties of section 4 are refuted, not proved. What remains for TLC alone besides is that the
models do something: every action of every model is taken in some run, and no assumption or
hypothesis excludes the states that matter.

*Abstractions within the modelled parts.*

- Publish: git's lock file that a killed git leaves behind; a `git restore` or `git clean` that
  stops half-way (the next run starts with the same commands); commit messages other than the
  owner of the commit; the generators between reconciliation and commit are any sequence of writes
  to owned paths, whether they succeed or not.
- CVEStream: goroutines that outlive a consumer that has returned an error (the process ends); the
  parsing of a record is its outcome.
- Assessment: issue numbers, notes, and the status fields the JSON derives from reasons; the
  escalations that do not depend on time (Triage says which decisions ask for one).
- Identifiers: the characters of names (lower case, escapes, normal forms and occurrences of
  patterns are constant functions); of the eleven attributes of a CPE the three that a run keeps;
  of the set operations on WFN maps those that a run calls; versions of PURLs.
- ShippedSources: the syntax of InRelease files, `Packages` lists and CycloneDX documents - a
  paragraph or a component is its fields, and one that cannot be read is a field of its own. The
  checksums in an InRelease file are not compared by the code, nor here; what the model takes from
  it is the number of lists. Releases have an end of life in the past, in the future, or none.
- Triage: free text of the list; overrides are the same for every release; Debian's per-release
  lines are stored and never consulted, in the code as in the model; versions are numbers in their
  order. A field of the list that is not empty and not in angle brackets is taken for a fixed
  version (`verdict.go:81`), and in the model it is one; what the version library makes of a bound
  that is not a version is outside `src/`. All strings of a listing that are no versions are one
  value in the model, while `selectInstalledVersions` tells them apart as strings
  (`inrelease.go:248`), so that of two such versions of one source the code keeps the first only.
- Builds: the length of delays, HTTP decoding, a version with two binNMU suffixes (which Debian
  does not have), staged files of a store that was never committed (a push-level run refuses them,
  see Publish).

*Not modelled.* Audit files are written once and are a group of Publish. Configuration is read
once and appears as constants. The SQL queries are generated code; what they return is in the
models that use them. The flavor inventory, the debug commands and the CVE feed that is not wired
are not part of a run. The HTTP client is modelled as the package builds use it; its other callers
see an answer or a failure.

## 7. Plan

Order of work, most important behaviour first. Done: 1-8.

1. **Publish**, **PublishedSnapshot** and their proofs: the only part that touches what others
   see.
2. **CVEStream**, **CVEIdentifiers**, **StreamResult**: the only concurrency inside a run.
3. **Assessment**: the only state that humans and the program share, over many runs.
4. **DebSecTracker**, **ShippedSources**, **Triage**: the decision.
5. **Builds**: the only state that is never recomputed.
6. **CPENames**, **InclusionRules**, **IdentifierMatching**: from identifiers to packages.
7. **PackageListings** and the release list: what the projections are made of.
8. **DebianMapping**: weights and filters against a reference.
9. **Pipeline**: a composition of Publish's run with abstract versions of the generators, showing
   that a failed generator never reaches the remote, with Assessment's and Builds' "published as a
   whole or not" as what Publish implements.

Abstract specifications still worth stating: for Assessment, a map of human decisions that only
humans change, which the records implement under the projection on manual fields; for Builds, a
write-once map, which the committed store implements.

The theorems that the plan listed for CVEStream, Assessment, Builds, Triage and IdentifierMatching
are done (section 5). Theorems still worth proving: the two refinements above, for which the
invariants are there (`ProcessedInv` says what a run leaves of manual fields, `DiskInv` that the
committed store only grows); that two runs of the suggestions over the same rows agree, as a
corollary of `SuggestionsAreRight`; and that `Pipeline`, once stated, implements Publish.
