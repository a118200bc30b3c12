-------------------------------- MODULE Builds --------------------------------
(***************************************************************************)
(* How a shipped package was built (internal/gardenlinux/pkgbuild and the  *)
(* retries of internal/whttp).                                             *)
(*                                                                         *)
(* The analysis of a package is read from the repositories of Garden Linux *)
(* over HTTP, once: it is stored in a file per package, the files are      *)
(* committed with the results of the run, and from then on no repository   *)
(* is asked again.  Tags may be cut or moved while an analysis is read.    *)
(*                                                                         *)
(* A shipped version is a base version, perhaps with a binNMU suffix.      *)
(***************************************************************************)
EXTENDS Naturals, Sequences, FiniteSets

CONSTANTS
    Names,        \* source packages
    Bases,        \* their versions, without binNMU suffix
    Backports,    \* those with the suffix of a backport
    TagOf,        \* the tag of a base version: without epoch, + for ~
    Commits,
    Contents,     \* what is in a commit
    Dirs,         \* directories of patches
    UnsafeDirs,   \* those whose names are not asked for
    CVEs,
    MaxRetries,   \* attempts of a request after the first
    MaxTagCuts,   \* bound on the tags cut or moved
    NoCommit, NoRecipe, NoSeries, Torn

Kinds == {"package", "bp-package"}

Recipe == [apt : BOOLEAN, salsa : BOOLEAN, upstream : BOOLEAN, upstreamVersion : BOOLEAN,
           dirs : Seq(Dirs)]

Content == [recipe : Recipe \cup {NoRecipe},
            series : [Dirs -> (SUBSET CVEs) \cup {NoSeries}]]

Provenances == {"taken-from-testing", "patched-from-debian", "built-from-upstream", "unknown"}

Analysis == [repo : Kinds \cup {""}, commit : Commits \cup {NoCommit},
             provenance : Provenances, fixed : SUBSET CVEs]

\* A version as shipped; the key of its analysis is the base version.
Shipped == [base : Bases, binNMU : BOOLEAN]

Tags == {TagOf[v] : v \in Bases}

\* The file of a package in the store.
File == UNION {[S -> Analysis] : S \in SUBSET Shipped}

IsFile(f) == f \in [DOMAIN f -> Analysis] /\ DOMAIN f \subseteq Shipped

\* What is still to ask is in left, what is to be written again in file.
Job == [name : Names, base : Bases,
        step : {"locate", "recipe", "series", "save", "write"},
        left : Seq(Kinds) \cup Seq(Dirs), file : File, analysis : Analysis]

NoJob == [step |-> "none"]

ASSUME BuildsAssumption ==
    /\ Backports \subseteq Bases /\ DOMAIN TagOf = Bases
    /\ Contents \in [Commits -> Content]
    /\ UnsafeDirs \subseteq Dirs
    /\ MaxRetries \in Nat /\ MaxTagCuts \in Nat
    /\ NoCommit \notin Commits /\ \A S \in SUBSET Shipped : Torn \notin [S -> Analysis]

VARIABLES
    tags,     \* the repositories: name, kind of repository and tag to commit
    cuts,     \* tags cut or moved
    head,     \* the files of the store as committed
    disk,     \* the files of the store in the working tree
    phase,    \* "idle" or "running"
    cache,    \* the analyses of this run
    job,      \* the analysis being read
    attempt,  \* retries of the pending request
    waiting,  \* between two attempts
    right,    \* the analyses that are right at some moment since the job began
    failure   \* how the last run failed, or "none"

vars == <<tags, cuts, head, disk, phase, cache, job, attempt, waiting, right, failure>>

Key(v) == [base |-> v.base, binNMU |-> FALSE]

Candidates(base) == IF base \in Backports THEN <<"package", "bp-package">> ELSE <<"package">>

Init ==
    /\ tags = [r \in Names \X Kinds \X Tags |-> NoCommit] /\ cuts = 0
    /\ head = [n \in Names |-> <<>>] /\ disk = head
    /\ phase = "idle" /\ cache = <<>>
    /\ job = NoJob /\ attempt = 0 /\ waiting = FALSE
    /\ right = {} /\ failure = "none"

-----------------------------------------------------------------------------
(* What an analysis says.                                                  *)

Classify(recipe) ==
    LET fromDebian == recipe.apt \/ recipe.salsa
    IN CASE fromDebian /\ recipe.dirs # <<>>  -> "patched-from-debian"
         [] fromDebian /\ recipe.dirs = <<>>  -> "taken-from-testing"
         [] ~fromDebian /\ recipe.upstream /\ recipe.upstreamVersion -> "built-from-upstream"
         [] OTHER -> "unknown"

NotBuilt(repo, commit) ==
    [repo |-> repo, commit |-> commit, provenance |-> "taken-from-testing", fixed |-> {}]

\* The directories of a recipe whose series are read.
Asked(dirs) == {d \in Dirs \ UnsafeDirs : \E i \in DOMAIN dirs : dirs[i] = d}

FixedBy(content) ==
    UNION {content.series[d] : d \in {e \in Asked(content.recipe.dirs) :
                                          content.series[e] # NoSeries}}

\* The analysis of what is in a commit.
Built(repo, commit) ==
    LET found == Contents[commit]
    IN IF found.recipe = NoRecipe THEN NotBuilt(repo, commit)
       ELSE [repo |-> repo, commit |-> commit,
             provenance |-> Classify(found.recipe), fixed |-> FixedBy(found)]

\* The analysis of a package, from what is in its repositories at one moment.
Reference(t, n, base) ==
    LET commit(kind) == t[<<n, kind, TagOf[base]>>]
    IN CASE commit("package") # NoCommit -> Built("package", commit("package"))
         [] commit("package") = NoCommit /\ base \in Backports
                 /\ commit("bp-package") # NoCommit -> Built("bp-package", commit("bp-package"))
         [] OTHER -> NotBuilt("", NoCommit)

-----------------------------------------------------------------------------
(* The repositories, by their maintainers.                                 *)

HasRepo(n, kind) == \E tag \in Tags : tags[<<n, kind, tag>>] # NoCommit

\* Assumed of the build system, as the code assumes it without a check: a backport has a
\* repository of its own only if the package has no normal one.
CutTag ==
    \E n \in Names, kind \in Kinds, tag \in Tags, c \in Commits :
        /\ cuts < MaxTagCuts
        /\ \A other \in Kinds \ {kind} : ~HasRepo(n, other)
        /\ tags[<<n, kind, tag>>] # c
        /\ tags' = [tags EXCEPT ![<<n, kind, tag>>] = c] /\ cuts' = cuts + 1
        /\ right' = IF job = NoJob THEN right ELSE right \cup {Reference(tags', job.name, job.base)}
        /\ UNCHANGED <<head, disk, phase, cache, job, attempt, waiting, failure>>

-----------------------------------------------------------------------------
(* The run.                                                                *)

\* PrepareWorktree puts the files back to HEAD.  What it cannot put back, staged files
\* of a store that was never committed, a run that pushes refuses (see Publish).
StartRun ==
    /\ phase = "idle" /\ phase' = "running"
    /\ disk' = head /\ cache' = <<>> /\ failure' = "none"
    /\ UNCHANGED <<tags, cuts, head, job, attempt, waiting, right>>

\* The end of the current run, with its job.
End(how) ==
    /\ phase' = "idle" /\ cache' = <<>>
    /\ job' = NoJob /\ attempt' = 0 /\ waiting' = FALSE /\ right' = {}
    /\ failure' = how
    /\ UNCHANGED <<tags, cuts, head>>

Cached(n, v, analysis) ==
    [k \in DOMAIN cache \cup {<<n, Key(v)>>} |->
        IF k = <<n, Key(v)>> THEN analysis ELSE cache[k]]

\* Mutant: the shipped version is looked up as it is.
StoredAsShipped(n, v) == disk[n] # Torn /\ v \in DOMAIN disk[n]

Stored(n, v) == disk[n] # Torn /\ Key(v) \in DOMAIN disk[n]

\* Analyze: first encounter in this run.  A file that cannot be parsed ends the run.
Analyze(n, v) ==
    /\ phase = "running" /\ job = NoJob /\ <<n, Key(v)>> \notin DOMAIN cache
    /\ \/ disk[n] = Torn /\ End("store") /\ UNCHANGED disk
       \/ /\ Stored(n, v)
          /\ cache' = Cached(n, v, disk[n][Key(v)])
          /\ UNCHANGED <<tags, cuts, head, disk, phase, job, attempt, waiting, right, failure>>
       \/ /\ disk[n] # Torn /\ ~Stored(n, v)
          /\ job' = [name |-> n, base |-> v.base, step |-> "locate", left |-> Candidates(v.base),
                     file |-> <<>>, analysis |-> NotBuilt("", NoCommit)]
          /\ right' = {Reference(tags, n, v.base)}
          /\ UNCHANGED <<tags, cuts, head, disk, phase, cache, attempt, waiting, failure>>

Asking ==
    /\ job # NoJob /\ ~waiting /\ job.step \in {"locate", "recipe", "series"}
    /\ job.step = "series" => Head(job.left) \notin UnsafeDirs

\* An answer is in: on to the next request, or to the end of the job.
Proceed(j) ==
    /\ job' = j /\ attempt' = 0
    /\ UNCHANGED <<tags, cuts, head, disk, phase, cache, waiting, right, failure>>

\* Mutant: files are read where the tag is now.
ReadAtTag == Contents[tags[<<job.name, job.analysis.repo, TagOf[job.base]>>]]

\* Files are read at the commit the tag was resolved to.
ReadAt == Contents[job.analysis.commit]

\* CommitForTag of the next candidate.
Locate ==
    /\ Asking /\ job.step = "locate"
    /\ LET repo   == Head(job.left)
           commit == tags[<<job.name, repo, TagOf[job.base]>>]
       IN IF commit # NoCommit
          THEN Proceed([job EXCEPT !.step = "recipe", !.analysis = NotBuilt(repo, commit)])
          ELSE Proceed([job EXCEPT !.left = Tail(@),
                                   !.step = IF Tail(job.left) = <<>> THEN "save" ELSE "locate"])

\* File of prepare_source.
FetchRecipe ==
    /\ Asking /\ job.step = "recipe"
    /\ LET recipe == ReadAt.recipe
       IN IF recipe = NoRecipe THEN Proceed([job EXCEPT !.step = "save"])
          ELSE Proceed([job EXCEPT !.analysis.provenance = Classify(recipe),
                                   !.left = recipe.dirs,
                                   !.step = IF recipe.dirs = <<>> THEN "save" ELSE "series"])

\* A directory with an unsafe name is not asked for.
SkipUnsafe ==
    /\ job # NoJob /\ job.step = "series" /\ Head(job.left) \in UnsafeDirs
    /\ Proceed([job EXCEPT !.left = Tail(@),
                            !.step = IF Tail(job.left) = <<>> THEN "save" ELSE "series"])

\* File of the series of the next directory.
FetchSeries ==
    /\ Asking /\ job.step = "series"
    /\ LET found == ReadAt.series[Head(job.left)]
       IN Proceed([job EXCEPT !.analysis.fixed = IF found = NoSeries THEN @ ELSE @ \cup found,
                              !.left = Tail(@),
                              !.step = IF Tail(job.left) = <<>> THEN "save" ELSE "series"])

\* No connection, a timeout, 5xx, 429 or a rate limit after the last attempt.
GiveUp == Asking /\ attempt = MaxRetries /\ End("fetch") /\ UNCHANGED disk

\* Mutant: always one more attempt.
MayRetryForever == TRUE

MayRetry == attempt < MaxRetries

\* The same before the last attempt.
TryLater ==
    /\ Asking /\ MayRetry /\ waiting' = TRUE
    /\ UNCHANGED <<tags, cuts, head, disk, phase, cache, job, attempt, right, failure>>

\* The delay is over; attempts are counted.
Retry ==
    /\ waiting /\ waiting' = FALSE
    /\ attempt' = IF attempt < MaxRetries THEN attempt + 1 ELSE attempt
    /\ UNCHANGED <<tags, cuts, head, disk, phase, cache, job, right, failure>>

\* Any other answer, or one that cannot be decoded.
Refused == Asking /\ End("fetch") /\ UNCHANGED disk

\* Save: the file is truncated ...
BeginSave ==
    /\ job # NoJob /\ job.step = "save"
    /\ LET n == job.name
           v == [base |-> job.base, binNMU |-> FALSE]
       IN IF v \in DOMAIN disk[n]
          THEN End("store") /\ UNCHANGED disk
          ELSE /\ disk' = [disk EXCEPT ![n] = Torn]
               /\ job' = [job EXCEPT !.step = "write", !.file = disk[n]]
               /\ UNCHANGED <<tags, cuts, head, phase, cache, attempt, waiting, right, failure>>

\* Mutant: a file holds the last version only.
WithOnly(file, v, analysis) == [k \in {v} |-> analysis]

With(file, v, analysis) ==
    [k \in DOMAIN file \cup {v} |-> IF k = v THEN analysis ELSE file[k]]

\* ... and written, and the analysis is kept for this run.
FinishSave ==
    /\ job # NoJob /\ job.step = "write"
    /\ LET v == [base |-> job.base, binNMU |-> FALSE]
       IN /\ disk' = [disk EXCEPT ![job.name] = With(job.file, v, job.analysis)]
          /\ cache' = Cached(job.name, v, job.analysis)
    /\ job' = NoJob /\ right' = {}
    /\ UNCHANGED <<tags, cuts, head, phase, attempt, waiting, failure>>

\* A signal cancels a request or a delay; a second one, or a crash, ends the process
\* anywhere.  A write may fail like that, too.
Interrupt == phase = "running" /\ End("interrupted") /\ UNCHANGED disk

\* The store is committed with the results of the run.
Publish ==
    /\ phase = "running" /\ job = NoJob
    /\ head' = disk /\ phase' = "idle" /\ cache' = <<>>
    /\ UNCHANGED <<tags, cuts, disk, job, attempt, waiting, right, failure>>

JobStep ==
    \/ Locate \/ FetchRecipe \/ SkipUnsafe \/ FetchSeries \/ TryLater \/ Retry \/ GiveUp \/ Refused
    \/ BeginSave \/ FinishSave

Next ==
    \/ CutTag \/ StartRun \/ JobStep \/ Interrupt \/ Publish
    \/ \E n \in Names, v \in Shipped : Analyze(n, v)

\* A request ends within the timeout of the client, a delay with its timer, and a
\* file write by itself.
Spec == Init /\ [][Next]_vars /\ WF_vars(JobStep)

-----------------------------------------------------------------------------
(* Properties.                                                             *)

\* Types; a request is tried at most MaxRetries times again.
TypeOK ==
    /\ tags \in [Names \X Kinds \X Tags -> Commits \cup {NoCommit}]
    /\ DOMAIN head = Names /\ DOMAIN disk = Names
    /\ \A n \in Names : IsFile(head[n]) /\ (disk[n] # Torn => IsFile(disk[n]))
    /\ phase \in {"idle", "running"}
    /\ attempt \in 0..MaxRetries /\ (waiting => attempt < MaxRetries)
    /\ right \subseteq Analysis
    /\ failure \in {"none", "fetch", "store", "interrupted"}

\* An analysis that is stored is right at one moment at least of the time it was read
\* in: a repository that could not be asked is not one without the tag, and what is
\* read piece by piece belongs to one commit even if the tag moves.  It stays for
\* good, so that an error here would clear or condemn a release in every later run.
AnalysisOfOneMoment ==
    job # NoJob /\ job.step \in {"save", "write"} => job.analysis \in right

\* The store never stands in the way of a run: whatever earlier runs left in the
\* working tree, and in whatever form a version is shipped, no run finds a torn file
\* or the entry it is about to save.
StoreNeverInTheWay == failure # "store"

\* What is committed stays as it is: later runs add analyses, and change none.
CommittedEntriesStay ==
    [][\A n \in Names : /\ DOMAIN head[n] \subseteq DOMAIN head'[n]
                        /\ \A k \in DOMAIN head[n] : head'[n][k] = head[n][k]]_head

\* Every analysis comes to an end, however often the server fails.
JobEnds == job # NoJob ~> job = NoJob
===============================================================================
