----------------------------- MODULE BuildsProofs -----------------------------
(***************************************************************************)
(* The store of analyses, for any number of packages, versions, commits    *)
(* and retries: it never stands in the way of a run, it only grows, and    *)
(* every analysis in it was right at one moment.                           *)
(***************************************************************************)
EXTENDS Builds, SequenceTheorems, TLAPS

(***************************************************************************)
(* The inductive invariant.                                                *)
(***************************************************************************)

\* A job is read in a run, and only while there is one a request waits.
JobInv ==
    /\ job = NoJob \/ job \in Job
    /\ job # NoJob => phase = "running"
    /\ cuts \in Nat

\* The entry a job is for.
Entry == [base |-> job.base, binNMU |-> FALSE]

\* What a file holds, another holds as well.
Holds(f, g) == DOMAIN f \subseteq DOMAIN g /\ \A k \in DOMAIN f : g[k] = f[k]

\* A file is torn while it is written, or until the next run puts it back; and no file
\* that is not put back has lost what is committed.
DiskInv ==
    /\ \A n \in Names : disk[n] = Torn /\ phase = "running" => job # NoJob /\ job.step = "write"
                                                              /\ job.name = n
    /\ job # NoJob /\ job.step # "write" =>
           disk[job.name] # Torn /\ Entry \notin DOMAIN disk[job.name]
    /\ job # NoJob /\ job.step = "write" =>
           /\ IsFile(job.file) /\ Holds(head[job.name], job.file)
           /\ Entry \notin DOMAIN job.file
    /\ phase = "running" => \A n \in Names : disk[n] # Torn => Holds(head[n], disk[n])
    /\ failure # "store"

\* A package has one of the two repositories at most.
RepoInv ==
    \A n \in Names : \A t, u \in Tags :
        tags[<<n, "package", t>>] = NoCommit \/ tags[<<n, "bp-package", u>>] = NoCommit

TagNow(kind) == tags[<<job.name, kind, TagOf[job.base]>>]

\* The CVEs that the series of these directories fix.
FixedIn(content, dirs) ==
    UNION {content.series[d] : d \in {e \in Asked(dirs) : content.series[e] # NoSeries}}

\* The job is on its way to an analysis that is right at some moment since it began.
RightInv ==
    job # NoJob =>
        /\ Reference(tags, job.name, job.base) \in right
        /\ job.step = "locate" =>
              /\ job.analysis = NotBuilt("", NoCommit)
              /\ \/ job.left = Candidates(job.base)
                 \/ /\ job.base \in Backports /\ job.left = <<"bp-package">>
                    /\ TagNow("bp-package") = NoCommit => NotBuilt("", NoCommit) \in right
        /\ job.step \in {"recipe", "series"} =>
              /\ job.analysis.commit \in Commits
              /\ Built(job.analysis.repo, job.analysis.commit) \in right
        /\ job.step = "recipe" =>
              job.analysis = NotBuilt(job.analysis.repo, job.analysis.commit)
        /\ job.step = "series" =>
              /\ job.left \in Seq(Dirs) /\ job.left # <<>>
              /\ ReadAt.recipe # NoRecipe
              /\ job.analysis.provenance = Classify(ReadAt.recipe)
              /\ job.analysis.fixed \cup FixedIn(ReadAt, job.left) = FixedBy(ReadAt)
        /\ job.step \in {"save", "write"} => job.analysis \in right

IInv == TypeOK /\ JobInv /\ DiskInv /\ RepoInv /\ RightInv

(***************************************************************************)
(* What the operators of the model do.                                     *)
(***************************************************************************)

\* The store holds one entry for a version and its binNMU rebuilds.
LEMMA KeyIsShipped ==
    ASSUME NEW v \in Shipped
    PROVE  Key(v) = [base |-> v.base, binNMU |-> FALSE] /\ Key(v) \in Shipped
           /\ v.base \in Bases
BY DEF Shipped, Key

\* A job is no NoJob.
LEMMA JobIsJob ==
    ASSUME NEW j \in Job
    PROVE  j # NoJob
BY DEF Job, NoJob

\* A file that holds analyses is not torn.
LEMMA FileIsWhole ==
    ASSUME NEW f, IsFile(f)
    PROVE  f # Torn /\ f \in File
<1>1. DOMAIN f \in SUBSET Shipped /\ f \in [DOMAIN f -> Analysis]
  BY DEF IsFile
<1>2. f \in File
  BY <1>1 DEF File
<1>3. f # Torn
  BY <1>1, BuildsAssumption
<1>4. QED
  BY <1>2, <1>3

\* A store begins with files that hold nothing.
LEMMA EmptyFile == IsFile(<<>>)
<1>1. DOMAIN <<>> = {}
  OBVIOUS
<1>2. <<>> \in [{} -> Analysis]
  OBVIOUS
<1>3. QED
  BY <1>1, <1>2 DEF IsFile

\* A file with one more entry is a file, and holds what the file held.
LEMMA WithEntry ==
    ASSUME NEW f, IsFile(f), NEW v \in Shipped, NEW a \in Analysis
    PROVE  /\ IsFile(With(f, v, a))
           /\ v \notin DOMAIN f => Holds(f, With(f, v, a))
BY DEF IsFile, With, Holds

\* Holding is transitive.
LEMMA HoldsTransitive ==
    ASSUME NEW f, NEW g, NEW h, Holds(f, g), Holds(g, h)
    PROVE  Holds(f, h)
BY DEF Holds

\* The directories to ask for, one after the other.
LEMMA AskedOneByOne ==
    ASSUME NEW s \in Seq(Dirs), s # <<>>
    PROVE  /\ Head(s) \in Dirs /\ Tail(s) \in Seq(Dirs)
           /\ Head(s) \in UnsafeDirs => Asked(s) = Asked(Tail(s))
           /\ Head(s) \notin UnsafeDirs => Asked(s) = Asked(Tail(s)) \cup {Head(s)}
<1> DEFINE t == Tail(s)
<1>1. /\ Len(t) = Len(s) - 1 /\ DOMAIN t = 1..Len(t) /\ DOMAIN s = 1..Len(s)
      /\ Head(s) = s[1] /\ \A i \in 1..Len(t) : t[i] = s[i + 1]
      /\ Len(s) \in Nat \ {0} /\ t \in Seq(Dirs) /\ s[1] \in Dirs
  OBVIOUS
<1> HIDE DEF t
<1>2. \A i \in 1..Len(s) : i = 1 \/ (i - 1 \in 1..Len(t) /\ s[i] = t[i - 1])
  BY <1>1
<1>3. \A i \in 1..Len(t) : i + 1 \in 1..Len(s) /\ t[i] = s[i + 1]
  BY <1>1
<1>4. \A d : (\E i \in 1..Len(s) : s[i] = d) <=> d = s[1] \/ \E i \in 1..Len(t) : t[i] = d
  <2>1. ASSUME NEW d, NEW i \in 1..Len(s), s[i] = d
        PROVE  d = s[1] \/ \E k \in 1..Len(t) : t[k] = d
    BY <1>2, <2>1
  <2>2. ASSUME NEW d, d = s[1] \/ \E k \in 1..Len(t) : t[k] = d
        PROVE  \E i \in 1..Len(s) : s[i] = d
    <3>1. 1 \in 1..Len(s)
      BY <1>1
    <3>2. QED
      BY <1>3, <2>2, <3>1
  <2>3. QED
    BY <2>1, <2>2
<1>5. QED
  BY <1>1, <1>4 DEF Asked, t

\* What the next directory adds to the fixed CVEs.
LEMMA FixedOneByOne ==
    ASSUME NEW content, NEW s \in Seq(Dirs), s # <<>>
    PROVE  FixedIn(content, s) =
               FixedIn(content, Tail(s))
                 \cup IF Head(s) \in UnsafeDirs \/ content.series[Head(s)] = NoSeries THEN {}
                      ELSE content.series[Head(s)]
BY AskedOneByOne DEF FixedIn

\* No directory adds nothing.
LEMMA FixedByNone ==
    ASSUME NEW content
    PROVE  FixedIn(content, <<>>) = {}
<1>1. DOMAIN <<>> = {}
  OBVIOUS
<1>2. QED
  BY <1>1 DEF FixedIn, Asked

\* Analyses are analyses, whatever they are made from.
LEMMA AnalysisTypes ==
    /\ NotBuilt("", NoCommit) \in Analysis
    /\ \A repo \in Kinds, commit \in Commits :
          /\ NotBuilt(repo, commit) \in Analysis
          /\ Built(repo, commit) \in Analysis
    /\ \A recipe \in Recipe : Classify(recipe) \in Provenances
    /\ \A commit \in Commits : FixedBy(Contents[commit]) \subseteq CVEs
<1>1. \A repo \in Kinds \cup {""}, commit \in Commits \cup {NoCommit} :
          NotBuilt(repo, commit) \in Analysis
  BY DEF NotBuilt, Analysis, Provenances
<1>2. \A recipe : Classify(recipe) \in Provenances
  BY DEF Classify, Provenances
<1>3. ASSUME NEW commit \in Commits
      PROVE  FixedBy(Contents[commit]) \subseteq CVEs
  <2>1. Contents[commit].series \in [Dirs -> (SUBSET CVEs) \cup {NoSeries}]
    BY BuildsAssumption DEF Content
  <2>2. \A d \in Dirs : Contents[commit].series[d] # NoSeries =>
                           Contents[commit].series[d] \subseteq CVEs
    BY <2>1
  <2>3. QED
    BY <2>2 DEF FixedBy, Asked
<1>4. ASSUME NEW repo \in Kinds, NEW commit \in Commits
      PROVE  Built(repo, commit) \in Analysis
  BY <1>1, <1>2, <1>3 DEF Built, Analysis
<1>5. QED
  BY <1>1, <1>2, <1>3, <1>4

\* The reference is an analysis.
LEMMA ReferenceType ==
    ASSUME NEW t \in [Names \X Kinds \X Tags -> Commits \cup {NoCommit}],
           NEW n \in Names, NEW base \in Bases
    PROVE  Reference(t, n, base) \in Analysis
<1>1. TagOf[base] \in Tags
  BY DEF Tags
<1>2. /\ t[<<n, "package", TagOf[base]>>] \in Commits \cup {NoCommit}
      /\ t[<<n, "bp-package", TagOf[base]>>] \in Commits \cup {NoCommit}
  BY <1>1 DEF Kinds
<1>3. QED
  BY <1>2, AnalysisTypes DEF Reference, Kinds

(***************************************************************************)
(* Every step keeps the invariant, one lemma per part of it.               *)
(***************************************************************************)

\* Every step keeps the types.
LEMMA TypeStep ==
    ASSUME TypeOK, JobInv, DiskInv, [Next]_vars
    PROVE  TypeOK'
<1> USE BuildsAssumption DEF TypeOK
<1>1. CASE CutTag
  <2>1. /\ tags' \in [Names \X Kinds \X Tags -> Commits \cup {NoCommit}]
        /\ right' = IF job = NoJob THEN right
                    ELSE right \cup {Reference(tags', job.name, job.base)}
        /\ UNCHANGED <<head, disk, phase, attempt, waiting, failure>>
    BY <1>1 DEF CutTag
  <2>2. right' \subseteq Analysis
    <3>1. CASE job = NoJob
      BY <2>1, <3>1
    <3>2. CASE job \in Job
      <4>1. job.name \in Names /\ job.base \in Bases
        BY <3>2 DEF Job
      <4>2. Reference(tags', job.name, job.base) \in Analysis
        BY <2>1, <4>1, ReferenceType
      <4>3. QED
        BY <2>1, <4>2
    <3>3. QED
      BY <3>1, <3>2 DEF JobInv
  <2>3. QED
    BY <2>1, <2>2
<1>2. CASE StartRun
  <2>1. \A n \in Names : head[n] # Torn
    BY FileIsWhole
  <2>2. QED
    BY <1>2, <2>1 DEF StartRun
<1>3. CASE Locate
  <2>1. UNCHANGED <<tags, head, disk, phase, waiting, right, failure>> /\ attempt' = 0
    BY <1>3 DEF Locate, Proceed
  <2>2. QED
    BY <2>1
<1>4. CASE FetchRecipe
  <2>1. UNCHANGED <<tags, head, disk, phase, waiting, right, failure>> /\ attempt' = 0
    BY <1>4 DEF FetchRecipe, Proceed
  <2>2. QED
    BY <2>1
<1>5. CASE SkipUnsafe
  <2>1. UNCHANGED <<tags, head, disk, phase, waiting, right, failure>> /\ attempt' = 0
    BY <1>5 DEF SkipUnsafe, Proceed
  <2>2. QED
    BY <2>1
<1>6. CASE FetchSeries
  <2>1. UNCHANGED <<tags, head, disk, phase, waiting, right, failure>> /\ attempt' = 0
    BY <1>6 DEF FetchSeries, Proceed
  <2>2. QED
    BY <2>1
<1>7. CASE TryLater
  BY <1>7 DEF TryLater, MayRetry
<1>8. CASE Retry
  BY <1>8 DEF Retry, Proceed
<1>9. CASE GiveUp
  BY <1>9 DEF GiveUp, End
<1>10. CASE Refused
  BY <1>10 DEF Refused, End
<1>11. CASE BeginSave
  <2>1. CASE End("store") /\ UNCHANGED disk
    BY <2>1 DEF End
  <2>2. CASE /\ disk' = [disk EXCEPT ![job.name] = Torn]
             /\ UNCHANGED <<tags, head, phase, attempt, waiting, right, failure>>
    BY <2>2
  <2>3. QED
    BY <1>11, <2>1, <2>2 DEF BeginSave
<1>12. CASE FinishSave
  <2>1. job \in Job /\ Entry \in Shipped /\ IsFile(job.file)
    BY <1>12 DEF FinishSave, JobInv, DiskInv, Job, Entry, Shipped
  <2>2. IsFile(With(job.file, Entry, job.analysis))
    BY <2>1, WithEntry DEF Job
  <2>3. /\ disk' = [disk EXCEPT ![job.name] = With(job.file, Entry, job.analysis)]
        /\ UNCHANGED <<tags, head, phase, attempt, waiting, failure>> /\ right' = {}
    BY <1>12 DEF FinishSave, Entry
  <2>4. \A n \in Names : disk'[n] = disk[n] \/ IsFile(disk'[n])
    BY <2>2, <2>3
  <2>5. QED
    BY <2>3, <2>4
<1>13. CASE Interrupt
  BY <1>13 DEF Interrupt, End
<1>14. CASE Publish
  BY <1>14 DEF Publish, JobInv, DiskInv
<1>15. ASSUME NEW n \in Names, NEW v \in Shipped, Analyze(n, v)
      PROVE  TypeOK'
  <2>1. Reference(tags, n, v.base) \in Analysis
    BY KeyIsShipped, ReferenceType
  <2>2. CASE End("store") /\ UNCHANGED disk
    BY <2>2 DEF End
  <2>3. CASE UNCHANGED <<tags, head, disk, phase, attempt, waiting, right, failure>>
    BY <2>3
  <2>4. CASE /\ right' = {Reference(tags, n, v.base)}
             /\ UNCHANGED <<tags, head, disk, phase, attempt, waiting, failure>>
    BY <2>1, <2>4
  <2>5. QED
    BY <1>15, <2>2, <2>3, <2>4 DEF Analyze
<1>16. CASE UNCHANGED vars
  BY <1>16 DEF vars
<1>17. QED
  BY <1>1, <1>2, <1>3, <1>4, <1>5, <1>6, <1>7, <1>8, <1>9, <1>10, <1>11, <1>12, <1>13,
     <1>14, <1>15, <1>16 DEF Next, JobStep

\* The places of the job.
LEMMA JobFields ==
    ASSUME IInv, job # NoJob
    PROVE  /\ job \in Job /\ job.name \in Names /\ job.base \in Bases
           /\ TagOf[job.base] \in Tags /\ Entry \in Shipped
           /\ job.left \in Seq(Kinds) \cup Seq(Dirs) /\ job.analysis \in Analysis
           /\ job.analysis.fixed \subseteq CVEs
           /\ \A k \in Kinds : TagNow(k) \in Commits \cup {NoCommit}
<1>1. job \in Job
  BY DEF IInv, JobInv
<1>2. /\ job.name \in Names /\ job.base \in Bases
      /\ job.left \in Seq(Kinds) \cup Seq(Dirs) /\ job.analysis \in Analysis
  BY <1>1 DEF Job
<1>3. TagOf[job.base] \in Tags /\ Entry \in Shipped
  BY <1>2 DEF Tags, Entry, Shipped
<1>4. job.analysis.fixed \subseteq CVEs
  BY <1>2 DEF Analysis
<1>5. \A k \in Kinds : TagNow(k) \in Commits \cup {NoCommit}
  BY <1>2, <1>3 DEF IInv, TypeOK, TagNow
<1>6. QED
  BY <1>1, <1>2, <1>3, <1>4, <1>5

\* What an answer about a tag does to the job.
LEMMA LocateJob ==
    ASSUME IInv, Locate
    PROVE  \E repo \in Kinds :
              /\ repo = Head(job.left) /\ job # NoJob /\ job.step = "locate"
              /\ \/ /\ TagNow(repo) \in Commits
                    /\ job' = [job EXCEPT !.step = "recipe",
                                          !.analysis = NotBuilt(repo, TagNow(repo))]
                 \/ /\ TagNow(repo) = NoCommit
                    /\ job' = [job EXCEPT !.left = Tail(@),
                                          !.step = IF Tail(job.left) = <<>> THEN "save"
                                                   ELSE "locate"]
              /\ Tail(job.left) \in Seq(Kinds)
              /\ \/ repo = "package" /\ job.base \in Backports /\ Tail(job.left) = <<"bp-package">>
                 \/ repo = "package" /\ job.base \notin Backports /\ Tail(job.left) = <<>>
                 \/ repo = "bp-package" /\ job.base \in Backports /\ Tail(job.left) = <<>>
                    /\ (TagNow("bp-package") = NoCommit => NotBuilt("", NoCommit) \in right)
              /\ job' \in Job
<1> DEFINE repo == Head(job.left)
<1>1. job # NoJob /\ job.step = "locate"
  BY DEF Locate, Asking
<1>2. \/ repo = "package" /\ job.base \in Backports /\ Tail(job.left) = <<"bp-package">>
      \/ repo = "package" /\ job.base \notin Backports /\ Tail(job.left) = <<>>
      \/ repo = "bp-package" /\ job.base \in Backports /\ Tail(job.left) = <<>>
         /\ (TagNow("bp-package") = NoCommit => NotBuilt("", NoCommit) \in right)
  <2>1. /\ Head(<<"package">>) = "package" /\ Tail(<<"package">>) = <<>>
        /\ Head(<<"bp-package">>) = "bp-package" /\ Tail(<<"bp-package">>) = <<>>
        /\ Head(<<"package", "bp-package">>) = "package"
        /\ Tail(<<"package", "bp-package">>) = <<"bp-package">>
    OBVIOUS
  <2>2. \/ job.base \in Backports /\ job.left = <<"package", "bp-package">>
        \/ job.base \notin Backports /\ job.left = <<"package">>
        \/ job.base \in Backports /\ job.left = <<"bp-package">>
           /\ (TagNow("bp-package") = NoCommit => NotBuilt("", NoCommit) \in right)
    BY <1>1 DEF IInv, RightInv, Candidates
  <2>3. QED
    BY <2>1, <2>2
<1>3. repo \in Kinds /\ Tail(job.left) \in Seq(Kinds)
  <2>1. <<>> \in Seq(Kinds) /\ <<"bp-package">> \in Seq(Kinds)
    BY DEF Kinds
  <2>2. QED
    BY <1>2, <2>1 DEF Kinds
<1>4. TagNow(repo) \in Commits \cup {NoCommit}
  BY <1>1, <1>3, JobFields
<1>5. \/ /\ TagNow(repo) \in Commits
         /\ job' = [job EXCEPT !.step = "recipe", !.analysis = NotBuilt(repo, TagNow(repo))]
      \/ /\ TagNow(repo) = NoCommit
         /\ job' = [job EXCEPT !.left = Tail(@),
                               !.step = IF Tail(job.left) = <<>> THEN "save" ELSE "locate"]
  BY <1>4 DEF Locate, Proceed, TagNow
<1>6. job \in Job
  BY <1>1, JobFields
<1>7. job' \in Job
  <2>1. CASE TagNow(repo) \in Commits /\
             job' = [job EXCEPT !.step = "recipe", !.analysis = NotBuilt(repo, TagNow(repo))]
    <3>1. NotBuilt(repo, TagNow(repo)) \in Analysis
      BY <1>3, <2>1, AnalysisTypes
    <3> HIDE DEF repo
    <3>2. QED
      BY <1>6, <2>1, <3>1 DEF Job
  <2>2. CASE job' = [job EXCEPT !.left = Tail(@),
                                !.step = IF Tail(job.left) = <<>> THEN "save" ELSE "locate"]
    BY <1>3, <1>6, <2>2 DEF Job
  <2>3. QED
    BY <1>5, <2>1, <2>2
<1>8. QED
  BY <1>1, <1>2, <1>3, <1>5, <1>7

\* What an answer about the recipe does to it.
LEMMA RecipeJob ==
    ASSUME IInv, FetchRecipe
    PROVE  /\ job # NoJob /\ job.step = "recipe" /\ job' \in Job
           /\ job.analysis.commit \in Commits
           /\ \/ /\ ReadAt.recipe = NoRecipe
                 /\ job' = [job EXCEPT !.step = "save"]
              \/ /\ ReadAt.recipe # NoRecipe
                 /\ ReadAt.recipe.dirs \in Seq(Dirs)
                 /\ job'.analysis = [job.analysis EXCEPT !.provenance = Classify(ReadAt.recipe)]
                 /\ job'.left = ReadAt.recipe.dirs
                 /\ job'.step = IF job'.left = <<>> THEN "save" ELSE "series"
                 /\ job'.name = job.name /\ job'.base = job.base /\ job'.file = job.file
<1>1. job # NoJob /\ job.step = "recipe"
  BY DEF FetchRecipe, Asking
<1>2. job.analysis.commit \in Commits
  BY <1>1 DEF IInv, RightInv
<1>3. job \in Job /\ job.analysis \in Analysis
  BY <1>1, JobFields
<1>4. CASE ReadAt.recipe = NoRecipe
  <2>1. job' = [job EXCEPT !.step = "save"]
    BY <1>4 DEF FetchRecipe, Proceed
  <2>2. job' \in Job
    BY <1>3, <2>1 DEF Job
  <2>3. QED
    BY <1>1, <1>2, <1>4, <2>1, <2>2
<1>5. CASE ReadAt.recipe # NoRecipe
  <2> DEFINE recipe == ReadAt.recipe
             analysis == [job.analysis EXCEPT !.provenance = Classify(recipe)]
             step == IF recipe.dirs = <<>> THEN "save" ELSE "series"
  <2>1. recipe \in Recipe
    BY <1>2, <1>5, BuildsAssumption DEF ReadAt, Content
  <2>2. recipe.dirs \in Seq(Dirs)
    BY <2>1 DEF Recipe
  <2>3. job' = [job EXCEPT !.analysis = analysis, !.left = recipe.dirs, !.step = step]
    BY <1>5 DEF FetchRecipe, Proceed
  <2>4. analysis \in Analysis
    <3>1. Classify(recipe) \in Provenances
      BY <2>1, AnalysisTypes
    <3> HIDE DEF recipe
    <3>2. QED
      BY <1>3, <3>1 DEF Analysis
  <2> HIDE DEF recipe, analysis
  <2>5. /\ job' \in Job /\ job'.analysis = analysis /\ job'.left = recipe.dirs /\ job'.step = step
        /\ job'.name = job.name /\ job'.base = job.base /\ job'.file = job.file
    BY <1>3, <2>2, <2>3, <2>4 DEF Job
  <2>6. QED
    BY <1>1, <1>2, <1>5, <2>2, <2>5 DEF recipe, analysis
<1>6. QED
  BY <1>4, <1>5

\* What the next directory does to it.
LEMMA SeriesJob ==
    ASSUME IInv, FetchSeries \/ SkipUnsafe
    PROVE  LET found == ReadAt.series[Head(job.left)]
           IN /\ job # NoJob /\ job.step = "series" /\ job' \in Job
              /\ job.analysis.commit \in Commits
              /\ job'.analysis = IF Head(job.left) \in UnsafeDirs \/ found = NoSeries
                                 THEN job.analysis
                                 ELSE [job.analysis EXCEPT !.fixed = @ \cup found]
              /\ job'.left = Tail(job.left)
              /\ job'.step = IF Tail(job.left) = <<>> THEN "save" ELSE "series"
              /\ job'.name = job.name /\ job'.base = job.base /\ job'.file = job.file
<1> DEFINE found == ReadAt.series[Head(job.left)]
           step  == IF Tail(job.left) = <<>> THEN "save" ELSE "series"
<1>1. job # NoJob /\ job.step = "series"
  BY DEF FetchSeries, SkipUnsafe, Asking
<1>2. job.analysis.commit \in Commits /\ job.left \in Seq(Dirs) /\ job.left # <<>>
  BY <1>1 DEF IInv, RightInv
<1>3. job \in Job /\ job.analysis \in Analysis
  BY <1>1, JobFields
<1>4. Head(job.left) \in Dirs /\ Tail(job.left) \in Seq(Dirs)
  BY <1>2
<1>5. found \in (SUBSET CVEs) \cup {NoSeries}
  BY <1>2, <1>4, BuildsAssumption DEF ReadAt, Content
<1> HIDE DEF found
<1>6. CASE FetchSeries
  <2> DEFINE analysis == [job.analysis EXCEPT !.fixed = IF found = NoSeries THEN @
                                                          ELSE @ \cup found]
  <2>1. Head(job.left) \notin UnsafeDirs
    BY <1>6, <1>1 DEF FetchSeries, Asking
  <2>2. job' = [job EXCEPT !.analysis = analysis, !.left = Tail(job.left), !.step = step]
    BY <1>6, <1>3 DEF FetchSeries, Proceed, found, Job
  <2>3. /\ analysis \in Analysis
        /\ analysis = IF found = NoSeries THEN job.analysis
                      ELSE [job.analysis EXCEPT !.fixed = @ \cup found]
    BY <1>3, <1>5 DEF Analysis
  <2> HIDE DEF analysis
  <2>4. /\ job' \in Job /\ job'.analysis = analysis /\ job'.left = Tail(job.left)
        /\ job'.step = step
        /\ job'.name = job.name /\ job'.base = job.base /\ job'.file = job.file
    BY <1>3, <1>4, <2>2, <2>3 DEF Job
  <2>5. QED
    BY <1>1, <1>2, <2>1, <2>3, <2>4 DEF found
<1>7. CASE SkipUnsafe
  <2>1. job' = [job EXCEPT !.left = Tail(job.left), !.step = step]
    BY <1>7, <1>3 DEF SkipUnsafe, Proceed, Job
  <2>2. /\ job' \in Job /\ job'.analysis = job.analysis /\ job'.left = Tail(job.left)
        /\ job'.step = step
        /\ job'.name = job.name /\ job'.base = job.base /\ job'.file = job.file
    BY <1>3, <1>4, <2>1 DEF Job
  <2>3. QED
    BY <1>1, <1>2, <1>7, <2>2 DEF SkipUnsafe
<1>8. QED
  BY <1>6, <1>7

\* Every step keeps the job a job of a run.
LEMMA JobStepKept ==
    ASSUME IInv, [Next]_vars
    PROVE  JobInv'
<1> USE BuildsAssumption
<1>1. CASE CutTag
  <2>1. UNCHANGED <<job, phase>> /\ cuts' = cuts + 1
    BY <1>1 DEF CutTag
  <2>2. QED
    BY <2>1 DEF IInv, JobInv
<1>2. CASE StartRun
  BY <1>2 DEF StartRun, IInv, JobInv
<1>3. CASE Locate
  <2>1. UNCHANGED <<phase, cuts>>
    BY <1>3 DEF Locate, Proceed
  <2>2. job' \in Job /\ job # NoJob
    BY <1>3, LocateJob
  <2>3. QED
    BY <2>1, <2>2 DEF IInv, JobInv
<1>4. CASE FetchRecipe
  <2>1. UNCHANGED <<phase, cuts>>
    BY <1>4 DEF FetchRecipe, Proceed
  <2>2. job' \in Job /\ job # NoJob
    BY <1>4, RecipeJob
  <2>3. QED
    BY <2>1, <2>2 DEF IInv, JobInv
<1>5. CASE SkipUnsafe
  <2>1. UNCHANGED <<phase, cuts>>
    BY <1>5 DEF SkipUnsafe, Proceed
  <2>2. job' \in Job /\ job # NoJob
    BY <1>5, SeriesJob
  <2>3. QED
    BY <2>1, <2>2 DEF IInv, JobInv
<1>6. CASE FetchSeries
  <2>1. UNCHANGED <<phase, cuts>>
    BY <1>6 DEF FetchSeries, Proceed
  <2>2. job' \in Job /\ job # NoJob
    BY <1>6, SeriesJob
  <2>3. QED
    BY <2>1, <2>2 DEF IInv, JobInv
<1>7. CASE TryLater
  BY <1>7 DEF TryLater, IInv, JobInv
<1>8. CASE Retry
  BY <1>8 DEF Retry, IInv, JobInv
<1>9. CASE GiveUp
  BY <1>9 DEF GiveUp, IInv, JobInv, End
<1>10. CASE Refused
  BY <1>10 DEF Refused, IInv, JobInv, End
<1>11. CASE BeginSave
  <2>1. CASE End("store") /\ UNCHANGED disk
    BY <2>1 DEF End, IInv, JobInv
  <2>2. CASE /\ job' = [job EXCEPT !.step = "write", !.file = disk[job.name]]
             /\ UNCHANGED <<phase, cuts>>
    <3>1. job # NoJob /\ job.step = "save"
      BY <1>11 DEF BeginSave
    <3>2. job \in Job /\ disk[job.name] \in File
      BY <3>1, JobFields, FileIsWhole DEF IInv, TypeOK, DiskInv
    <3>3. job' \in Job
      BY <2>2, <3>2 DEF Job
    <3>4. QED
      BY <2>2, <3>1, <3>3 DEF IInv, JobInv
  <2>3. QED
    BY <1>11, <2>1, <2>2 DEF BeginSave
<1>12. CASE FinishSave
  BY <1>12 DEF FinishSave, IInv, JobInv
<1>13. CASE Interrupt
  BY <1>13 DEF Interrupt, IInv, JobInv, End
<1>14. CASE Publish
  BY <1>14 DEF Publish, IInv, JobInv
<1>15. ASSUME NEW n \in Names, NEW v \in Shipped, Analyze(n, v)
      PROVE  JobInv'
  <2> DEFINE j == [name |-> n, base |-> v.base, step |-> "locate",
                   left |-> Candidates(v.base), file |-> <<>>,
                   analysis |-> NotBuilt("", NoCommit)]
  <2>1. CASE End("store") /\ UNCHANGED disk
    BY <2>1 DEF End, IInv, JobInv
  <2>2. CASE UNCHANGED <<job, phase, cuts>>
    BY <2>2 DEF IInv, JobInv
  <2>3. CASE job' = j /\ phase = "running" /\ UNCHANGED <<phase, cuts>>
    <3>1. v.base \in Bases /\ <<>> \in File /\ NotBuilt("", NoCommit) \in Analysis
      BY KeyIsShipped, EmptyFile, FileIsWhole, AnalysisTypes
    <3>2. Candidates(v.base) \in Seq(Kinds)
      <4>1. <<"package">> \in Seq(Kinds) /\ <<"package", "bp-package">> \in Seq(Kinds)
        BY DEF Kinds
      <4>2. QED
        BY <4>1 DEF Candidates
    <3>3. j \in Job
      BY <3>1, <3>2 DEF Job
    <3> HIDE DEF j
    <3>4. QED
      BY <2>3, <3>3 DEF IInv, JobInv
  <2>4. QED
    BY <1>15, <2>1, <2>2, <2>3 DEF Analyze
<1>16. CASE UNCHANGED vars
  BY <1>16 DEF vars, IInv, JobInv
<1>17. QED
  BY <1>1, <1>2, <1>3, <1>4, <1>5, <1>6, <1>7, <1>8, <1>9, <1>10, <1>11, <1>12, <1>13,
     <1>14, <1>15, <1>16 DEF Next, JobStep

\* Every step keeps the files of the store.
LEMMA DiskStep ==
    ASSUME IInv, [Next]_vars
    PROVE  DiskInv'
<1>1. CASE CutTag
  <2>1. UNCHANGED <<head, disk, phase, failure, job>>
    BY <1>1 DEF CutTag
  <2>2. QED
    BY <2>1 DEF IInv, DiskInv, Entry
<1>2. CASE StartRun
  <2>1. UNCHANGED <<head, job>> /\ disk' = head /\ job = NoJob /\ failure' # "store"
    BY <1>2 DEF StartRun, IInv, JobInv
  <2>2. \A n \in Names : head[n] # Torn /\ Holds(head[n], head[n])
    BY FileIsWhole DEF IInv, TypeOK, Holds
  <2>3. QED
    BY <2>1, <2>2 DEF DiskInv
<1>3. CASE Locate
  <2>1. /\ job # NoJob /\ job.step # "write" /\ job' \in Job /\ job'.step # "write"
        /\ job'.name = job.name /\ job'.base = job.base
    BY <1>3, LocateJob DEF Job
  <2>2. UNCHANGED <<head, disk, phase, failure>>
    BY <1>3 DEF Locate, Proceed
  <2>3. QED
    BY <2>1, <2>2 DEF IInv, DiskInv, Entry
<1>4. CASE FetchRecipe
  <2>1. /\ job # NoJob /\ job.step # "write" /\ job' \in Job /\ job'.step # "write"
        /\ job'.name = job.name /\ job'.base = job.base
    BY <1>4, RecipeJob DEF Job
  <2>2. UNCHANGED <<head, disk, phase, failure>>
    BY <1>4 DEF FetchRecipe, Proceed
  <2>3. QED
    BY <2>1, <2>2 DEF IInv, DiskInv, Entry
<1>5. CASE SkipUnsafe
  <2>1. /\ job # NoJob /\ job.step # "write" /\ job' \in Job /\ job'.step # "write"
        /\ job'.name = job.name /\ job'.base = job.base
    BY <1>5, SeriesJob
  <2>2. UNCHANGED <<head, disk, phase, failure>>
    BY <1>5 DEF SkipUnsafe, Proceed
  <2>3. QED
    BY <2>1, <2>2 DEF IInv, DiskInv, Entry
<1>6. CASE FetchSeries
  <2>1. /\ job # NoJob /\ job.step # "write" /\ job' \in Job /\ job'.step # "write"
        /\ job'.name = job.name /\ job'.base = job.base
    BY <1>6, SeriesJob
  <2>2. UNCHANGED <<head, disk, phase, failure>>
    BY <1>6 DEF FetchSeries, Proceed
  <2>3. QED
    BY <2>1, <2>2 DEF IInv, DiskInv, Entry
<1>7. CASE TryLater
  <2>1. UNCHANGED <<head, disk, phase, failure, job>>
    BY <1>7 DEF TryLater
  <2>2. QED
    BY <2>1 DEF IInv, DiskInv, Entry
<1>8. CASE Retry
  <2>1. UNCHANGED <<head, disk, phase, failure, job>>
    BY <1>8 DEF Retry
  <2>2. QED
    BY <2>1 DEF IInv, DiskInv, Entry
<1>9. CASE GiveUp
  <2>1. UNCHANGED <<head, disk>> /\ phase' = "idle" /\ job' = NoJob /\ failure' # "store"
    BY <1>9 DEF GiveUp, End
  <2>2. QED
    BY <2>1 DEF DiskInv
<1>10. CASE Refused
  <2>1. UNCHANGED <<head, disk>> /\ phase' = "idle" /\ job' = NoJob /\ failure' # "store"
    BY <1>10 DEF Refused, End
  <2>2. QED
    BY <2>1 DEF DiskInv
<1>11. CASE BeginSave
  <2>1. job # NoJob /\ job.step = "save"
    BY <1>11 DEF BeginSave
  <2>2. Entry \notin DOMAIN disk[job.name] /\ disk[job.name] # Torn /\ phase = "running"
    BY <2>1 DEF IInv, DiskInv, JobInv
  <2>3. /\ disk' = [disk EXCEPT ![job.name] = Torn]
        /\ job' = [job EXCEPT !.step = "write", !.file = disk[job.name]]
        /\ UNCHANGED <<head, phase, failure>>
    BY <1>11, <2>2 DEF BeginSave, Entry
  <2>4. job \in Job /\ job.name \in Names
    BY <2>1, JobFields
  <2>5. /\ job'.step = "write" /\ job'.file = disk[job.name] /\ job'.name = job.name
        /\ job' # NoJob /\ Entry' = Entry
    BY <2>3, <2>4 DEF Job, NoJob, Entry
  <2>6. IsFile(disk[job.name]) /\ Holds(head[job.name], disk[job.name])
    BY <2>2, <2>4 DEF IInv, TypeOK, DiskInv
  <2>7. \A n \in Names : disk'[n] = IF n = job.name THEN Torn ELSE disk[n]
    BY <2>3 DEF IInv, TypeOK
  <2>8. QED
    BY <2>1, <2>3, <2>5, <2>6, <2>7 DEF IInv, DiskInv
<1>12. CASE FinishSave
  <2>1. job # NoJob /\ job.step = "write" /\ job' = NoJob
    BY <1>12 DEF FinishSave
  <2>2. job \in Job /\ job.name \in Names /\ Entry \in Shipped /\ job.analysis \in Analysis
    BY <2>1, JobFields
  <2> DEFINE file == With(job.file, Entry, job.analysis)
  <2>3. IsFile(job.file) /\ Holds(head[job.name], job.file) /\ Entry \notin DOMAIN job.file
    BY <2>1 DEF IInv, DiskInv
  <2>4. IsFile(file) /\ Holds(head[job.name], file)
    BY <2>2, <2>3, WithEntry, HoldsTransitive
  <2>5. disk' = [disk EXCEPT ![job.name] = file] /\ UNCHANGED <<head, phase, failure>>
    BY <1>12 DEF FinishSave, Entry
  <2>6. file # Torn
    BY <2>4, FileIsWhole
  <2> HIDE DEF file
  <2>7. \A n \in Names : disk'[n] = IF n = job.name THEN file ELSE disk[n]
    BY <2>5 DEF IInv, TypeOK
  <2>8. QED
    BY <2>1, <2>4, <2>5, <2>6, <2>7 DEF IInv, DiskInv
<1>13. CASE Interrupt
  <2>1. UNCHANGED <<head, disk>> /\ phase' = "idle" /\ job' = NoJob /\ failure' # "store"
    BY <1>13 DEF Interrupt, End
  <2>2. QED
    BY <2>1 DEF DiskInv
<1>14. CASE Publish
  <2>1. phase' = "idle" /\ UNCHANGED <<disk, job, failure>> /\ job = NoJob
    BY <1>14 DEF Publish
  <2>2. QED
    BY <2>1 DEF IInv, DiskInv
<1>15. ASSUME NEW n \in Names, NEW v \in Shipped, Analyze(n, v)
      PROVE  DiskInv'
  <2>1. phase = "running" /\ job = NoJob /\ disk[n] # Torn
    BY <1>15 DEF Analyze, IInv, DiskInv
  <2>2. CASE UNCHANGED <<head, disk, phase, failure, job>>
    BY <2>2 DEF IInv, DiskInv, Entry
  <2>3. CASE ~Stored(n, v) /\ job'.name = n /\ job'.base = v.base /\ job'.step = "locate"
             /\ UNCHANGED <<head, disk, phase, failure>> /\ job' # NoJob
    <3>1. Entry' \notin DOMAIN disk[n]
      BY <2>1, <2>3 DEF Stored, Key, Entry
    <3>2. QED
      BY <2>1, <2>3, <3>1 DEF IInv, DiskInv
  <2>4. CASE ~Stored(n, v)
             /\ job' = [name |-> n, base |-> v.base, step |-> "locate",
                        left |-> Candidates(v.base), file |-> <<>>,
                        analysis |-> NotBuilt("", NoCommit)]
             /\ UNCHANGED <<head, disk, phase, failure>>
    BY <2>3, <2>4 DEF NoJob
  <2>5. QED
    BY <1>15, <2>1, <2>2, <2>4 DEF Analyze
<1>16. CASE UNCHANGED vars
  <2>1. UNCHANGED <<head, disk, phase, failure, job>>
    BY <1>16 DEF vars
  <2>2. QED
    BY <2>1 DEF IInv, DiskInv, Entry
<1>17. QED
  BY <1>1, <1>2, <1>3, <1>4, <1>5, <1>6, <1>7, <1>8, <1>9, <1>10, <1>11, <1>12, <1>13,
     <1>14, <1>15, <1>16 DEF Next, JobStep

\* Every step keeps a package in one repository.
LEMMA RepoStep ==
    ASSUME IInv, [Next]_vars
    PROVE  RepoInv'
<1>1. CASE CutTag
  <2>1. PICK n \in Names, kind \in Kinds, tag \in Tags, c \in Commits :
           /\ \A other \in Kinds \ {kind} : ~HasRepo(n, other)
           /\ tags' = [tags EXCEPT ![<<n, kind, tag>>] = c]
    BY <1>1 DEF CutTag
  <2>2. \A m \in Names, k \in Kinds, t \in Tags :
           tags'[<<m, k, t>>] = IF m = n /\ k = kind /\ t = tag THEN c ELSE tags[<<m, k, t>>]
    BY <2>1 DEF IInv, TypeOK
  <2>3. \A t \in Tags : kind = "package" => tags[<<n, "bp-package", t>>] = NoCommit
    BY <2>1 DEF HasRepo, Kinds
  <2>4. \A t \in Tags : kind = "bp-package" => tags[<<n, "package", t>>] = NoCommit
    BY <2>1 DEF HasRepo, Kinds
  <2>5. ASSUME NEW m \in Names, NEW t \in Tags, NEW u \in Tags
        PROVE  tags'[<<m, "package", t>>] = NoCommit \/ tags'[<<m, "bp-package", u>>] = NoCommit
    <3>1. /\ tags[<<m, "package", t>>] = NoCommit \/ tags[<<m, "bp-package", u>>] = NoCommit
          /\ "package" \in Kinds /\ "bp-package" \in Kinds
      BY DEF IInv, RepoInv, Kinds
    <3>2. CASE kind = "package"
      BY <2>2, <2>3, <3>1, <3>2
    <3>3. CASE kind = "bp-package"
      BY <2>2, <2>4, <3>1, <3>3
    <3>4. QED
      BY <3>2, <3>3 DEF Kinds
  <2>6. QED
    BY <2>5 DEF RepoInv
<1>2. CASE StartRun
  BY <1>2 DEF StartRun, IInv, RepoInv
<1>3. CASE Locate
  <2>1. UNCHANGED tags
    BY <1>3 DEF Locate, Proceed
  <2>2. QED
    BY <2>1 DEF IInv, RepoInv
<1>4. CASE FetchRecipe
  <2>1. UNCHANGED tags
    BY <1>4 DEF FetchRecipe, Proceed
  <2>2. QED
    BY <2>1 DEF IInv, RepoInv
<1>5. CASE SkipUnsafe
  <2>1. UNCHANGED tags
    BY <1>5 DEF SkipUnsafe, Proceed
  <2>2. QED
    BY <2>1 DEF IInv, RepoInv
<1>6. CASE FetchSeries
  <2>1. UNCHANGED tags
    BY <1>6 DEF FetchSeries, Proceed
  <2>2. QED
    BY <2>1 DEF IInv, RepoInv
<1>7. CASE TryLater
  BY <1>7 DEF TryLater, IInv, RepoInv
<1>8. CASE Retry
  BY <1>8 DEF Retry, IInv, RepoInv
<1>9. CASE GiveUp
  BY <1>9 DEF GiveUp, IInv, RepoInv, End
<1>10. CASE Refused
  BY <1>10 DEF Refused, IInv, RepoInv, End
<1>11. CASE BeginSave
  <2>1. UNCHANGED tags
    BY <1>11 DEF BeginSave, End
  <2>2. QED
    BY <2>1 DEF IInv, RepoInv
<1>12. CASE FinishSave
  BY <1>12 DEF FinishSave, IInv, RepoInv
<1>13. CASE Interrupt
  BY <1>13 DEF Interrupt, IInv, RepoInv, End
<1>14. CASE Publish
  BY <1>14 DEF Publish, IInv, RepoInv
<1>15. ASSUME NEW n \in Names, NEW v \in Shipped, Analyze(n, v)
      PROVE  RepoInv'
  BY <1>15 DEF Analyze, IInv, RepoInv, End
<1>16. CASE UNCHANGED vars
  BY <1>16 DEF vars, IInv, RepoInv
<1>17. QED
  BY <1>1, <1>2, <1>3, <1>4, <1>5, <1>6, <1>7, <1>8, <1>9, <1>10, <1>11, <1>12, <1>13,
     <1>14, <1>15, <1>16 DEF Next, JobStep

\* Every step keeps the job on its way to an analysis that is right at some moment.
LEMMA RightStep ==
    ASSUME IInv, [Next]_vars
    PROVE  RightInv'
<1>1. CASE CutTag
  <2>1. PICK n \in Names, kind \in Kinds, tag \in Tags, c \in Commits :
           tags' = [tags EXCEPT ![<<n, kind, tag>>] = c]
    BY <1>1 DEF CutTag
  <2>2. /\ UNCHANGED job
        /\ job # NoJob => right' = right \cup {Reference(tags', job.name, job.base)}
    BY <1>1 DEF CutTag
  <2>3. CASE job = NoJob
    BY <2>2, <2>3 DEF RightInv
  <2>4. CASE job # NoJob
    <3>1. job.name \in Names /\ TagOf[job.base] \in Tags
      BY <2>4, JobFields
    <3>2. TagNow("bp-package")' = NoCommit => TagNow("bp-package") = NoCommit
      <4>1. <<job.name, "bp-package", TagOf[job.base]>> \in Names \X Kinds \X Tags
        BY <3>1 DEF Kinds
      <4>2. c # NoCommit
        BY BuildsAssumption
      <4>3. QED
        BY <2>1, <2>2, <4>1, <4>2 DEF IInv, TypeOK, TagNow
    <3>3. ReadAt' = ReadAt
      BY <2>2 DEF ReadAt
    <3>4. QED
      BY <2>2, <2>4, <3>2, <3>3 DEF IInv, RightInv
  <2>5. QED
    BY <2>3, <2>4
<1>2. CASE StartRun
  <2>1. UNCHANGED <<job, tags, right>>
    BY <1>2 DEF StartRun
  <2>2. QED
    BY <2>1 DEF IInv, RightInv, TagNow, ReadAt
<1>3. CASE Locate
  <2>1. PICK repo \in Kinds :
              /\ repo = Head(job.left) /\ job # NoJob /\ job.step = "locate"
              /\ \/ /\ TagNow(repo) \in Commits
                    /\ job' = [job EXCEPT !.step = "recipe",
                                          !.analysis = NotBuilt(repo, TagNow(repo))]
                 \/ /\ TagNow(repo) = NoCommit
                    /\ job' = [job EXCEPT !.left = Tail(@),
                                          !.step = IF Tail(job.left) = <<>> THEN "save"
                                                   ELSE "locate"]
              /\ Tail(job.left) \in Seq(Kinds)
              /\ \/ repo = "package" /\ job.base \in Backports /\ Tail(job.left) = <<"bp-package">>
                 \/ repo = "package" /\ job.base \notin Backports /\ Tail(job.left) = <<>>
                 \/ repo = "bp-package" /\ job.base \in Backports /\ Tail(job.left) = <<>>
                    /\ (TagNow("bp-package") = NoCommit => NotBuilt("", NoCommit) \in right)
              /\ job' \in Job
    BY <1>3, LocateJob
  <2>2. UNCHANGED <<tags, right>>
    BY <1>3 DEF Locate, Proceed
  <2>3. job \in Job /\ job.name \in Names /\ TagOf[job.base] \in Tags
    BY <2>1, JobFields
  <2>4. /\ Reference(tags, job.name, job.base) \in right
        /\ job.analysis = NotBuilt("", NoCommit)
    BY <2>1 DEF IInv, RightInv
  <2>5. Reference(tags, job.name, job.base) =
            CASE TagNow("package") # NoCommit -> Built("package", TagNow("package"))
              [] TagNow("package") = NoCommit /\ job.base \in Backports
                    /\ TagNow("bp-package") # NoCommit -> Built("bp-package", TagNow("bp-package"))
              [] OTHER -> NotBuilt("", NoCommit)
    BY DEF Reference, TagNow
  <2>6. CASE /\ TagNow(repo) \in Commits
             /\ job' = [job EXCEPT !.step = "recipe", !.analysis = NotBuilt(repo, TagNow(repo))]
    <3>1. TagNow(repo) # NoCommit
      BY <2>6, BuildsAssumption
    <3>2. repo = "bp-package" => TagNow("package") = NoCommit /\ job.base \in Backports
      <4>1. repo = "bp-package" => job.base \in Backports
        BY <2>1
      <4>2. \/ tags[<<job.name, "package", TagOf[job.base]>>] = NoCommit
            \/ tags[<<job.name, "bp-package", TagOf[job.base]>>] = NoCommit
        BY <2>3 DEF IInv, RepoInv
      <4>3. QED
        BY <3>1, <4>1, <4>2 DEF TagNow
    <3>3. Built(repo, TagNow(repo)) \in right
      <4>1. CASE repo = "package"
        BY <2>4, <2>5, <3>1, <4>1
      <4>2. CASE repo = "bp-package"
        BY <2>4, <2>5, <3>1, <3>2, <4>2
      <4>3. QED
        BY <4>1, <4>2 DEF Kinds
    <3>4. /\ job'.step = "recipe" /\ job'.name = job.name /\ job'.base = job.base
          /\ job'.analysis = NotBuilt(repo, TagNow(repo))
      BY <2>3, <2>6 DEF Job
    <3>5. /\ job'.analysis.repo = repo /\ job'.analysis.commit = TagNow(repo)
          /\ job'.analysis.commit \in Commits
          /\ job'.analysis = NotBuilt(job'.analysis.repo, job'.analysis.commit)
      BY <2>6, <3>4 DEF NotBuilt
    <3>6. Built(job'.analysis.repo, job'.analysis.commit) \in right
      BY <3>3, <3>5
    <3>7. QED
      BY <2>2, <2>4, <3>4, <3>5, <3>6 DEF RightInv
  <2>7. CASE /\ TagNow(repo) = NoCommit
             /\ job' = [job EXCEPT !.left = Tail(@),
                                   !.step = IF Tail(job.left) = <<>> THEN "save" ELSE "locate"]
    <3>1. /\ job'.left = Tail(job.left) /\ job'.name = job.name /\ job'.base = job.base
          /\ job'.step = IF Tail(job.left) = <<>> THEN "save" ELSE "locate"
          /\ job'.analysis = NotBuilt("", NoCommit)
      BY <2>3, <2>4, <2>7 DEF Job
    <3>2. UNCHANGED TagNow("bp-package")
      BY <2>2, <3>1 DEF TagNow
    <3>3. Tail(job.left) = <<>> => NotBuilt("", NoCommit) \in right
      <4>1. CASE repo = "package" /\ job.base \notin Backports
        BY <2>4, <2>5, <2>7, <4>1
      <4>2. CASE repo = "bp-package" /\ (TagNow("bp-package") = NoCommit
                                          => NotBuilt("", NoCommit) \in right)
        BY <2>7, <4>2
      <4>3. <<"bp-package">> # <<>>
        OBVIOUS
      <4>4. QED
        BY <2>1, <4>1, <4>2, <4>3
    <3>4. job.base \in Backports /\ TagNow("package") = NoCommit /\ TagNow("bp-package") = NoCommit
            => NotBuilt("", NoCommit) \in right
      BY <2>4, <2>5
    <3>5. Tail(job.left) # <<>> => /\ job.base \in Backports /\ Tail(job.left) = <<"bp-package">>
                                   /\ TagNow("package") = NoCommit
      BY <2>1, <2>7
    <3>6. QED
      BY <2>2, <2>4, <3>1, <3>2, <3>3, <3>4, <3>5 DEF RightInv
  <2>8. QED
    BY <2>1, <2>6, <2>7
<1>4. CASE FetchRecipe
  <2>1. /\ job # NoJob /\ job.step = "recipe" /\ job' \in Job
        /\ \/ /\ ReadAt.recipe = NoRecipe
              /\ job' = [job EXCEPT !.step = "save"]
           \/ /\ ReadAt.recipe # NoRecipe
              /\ ReadAt.recipe.dirs \in Seq(Dirs)
              /\ job'.analysis = [job.analysis EXCEPT !.provenance = Classify(ReadAt.recipe)]
              /\ job'.left = ReadAt.recipe.dirs
              /\ job'.step = IF job'.left = <<>> THEN "save" ELSE "series"
              /\ job'.name = job.name /\ job'.base = job.base
    BY <1>4, RecipeJob
  <2> DEFINE repo == job.analysis.repo
             commit == job.analysis.commit
  <2>2. UNCHANGED <<tags, right>>
    BY <1>4 DEF FetchRecipe, Proceed
  <2>3. /\ Reference(tags, job.name, job.base) \in right
        /\ commit \in Commits /\ Built(repo, commit) \in right
        /\ job.analysis = NotBuilt(repo, commit)
    BY <2>1 DEF IInv, RightInv
  <2>4. job \in Job
    BY <2>1, JobFields
  <2>5. CASE ReadAt.recipe = NoRecipe /\ job' = [job EXCEPT !.step = "save"]
    <3>1. /\ job'.step = "save" /\ job'.name = job.name /\ job'.base = job.base
          /\ job'.analysis = job.analysis
      BY <2>4, <2>5 DEF Job
    <3>2. job.analysis \in right
      BY <2>3, <2>5 DEF Built, ReadAt
    <3>3. QED
      BY <2>2, <2>3, <3>1, <3>2 DEF RightInv
  <2>6. CASE /\ ReadAt.recipe # NoRecipe
             /\ ReadAt.recipe.dirs \in Seq(Dirs)
             /\ job'.analysis = [job.analysis EXCEPT !.provenance = Classify(ReadAt.recipe)]
             /\ job'.left = ReadAt.recipe.dirs
             /\ job'.step = IF job'.left = <<>> THEN "save" ELSE "series"
             /\ job'.name = job.name /\ job'.base = job.base
    <3>1. job'.analysis = [repo |-> repo, commit |-> commit,
                           provenance |-> Classify(ReadAt.recipe), fixed |-> {}]
      <4> HIDE DEF repo, commit
      <4>1. job.analysis = [repo |-> repo, commit |-> commit,
                            provenance |-> "taken-from-testing", fixed |-> {}]
        BY <2>3 DEF NotBuilt
      <4> DEFINE prov == Classify(ReadAt.recipe)
      <4>2. job'.analysis = [job.analysis EXCEPT !.provenance = prov]
        BY <2>6
      <4> HIDE DEF prov
      <4>3. job'.analysis = [repo |-> repo, commit |-> commit,
                             provenance |-> prov, fixed |-> {}]
        BY <4>1, <4>2
      <4>4. QED
        BY <4>3 DEF prov
    <3>2. ReadAt' = ReadAt
      BY <3>1 DEF ReadAt
    <3>3. FixedIn(ReadAt, job'.left) = FixedBy(ReadAt)
      BY <2>6 DEF FixedIn, FixedBy
    <3>4. Built(repo, commit) = [repo |-> repo, commit |-> commit,
                           provenance |-> Classify(ReadAt.recipe), fixed |-> FixedBy(ReadAt)]
      BY <2>6 DEF Built, ReadAt
    <3>5. CASE job'.left = <<>>
      <4>1. FixedBy(ReadAt) = {}
        BY <3>3, <3>5, FixedByNone
      <4>2. job'.analysis \in right /\ job'.step = "save"
        BY <2>3, <2>6, <3>1, <3>4, <3>5, <4>1
      <4>3. QED
        BY <2>2, <2>3, <2>6, <4>2 DEF RightInv
    <3>6. CASE job'.left # <<>>
      <4>1. /\ job'.step = "series" /\ job'.left \in Seq(Dirs) /\ ReadAt'.recipe # NoRecipe
            /\ job'.analysis.repo = repo /\ job'.analysis.commit = commit
            /\ job'.analysis.provenance = Classify(ReadAt'.recipe)
            /\ job'.analysis.fixed \cup FixedIn(ReadAt', job'.left) = FixedBy(ReadAt')
        BY <2>6, <3>1, <3>2, <3>3, <3>6
      <4>2. QED
        BY <2>2, <2>3, <2>6, <3>6, <4>1 DEF RightInv
    <3>7. QED
      BY <3>5, <3>6
  <2>7. QED
    BY <2>1, <2>5, <2>6
<1>5. CASE SkipUnsafe
  <2> DEFINE repo == job.analysis.repo
             commit == job.analysis.commit
             found == ReadAt.series[Head(job.left)]
  <2>1. /\ job # NoJob /\ job.step = "series"
        /\ job'.analysis = IF Head(job.left) \in UnsafeDirs \/ found = NoSeries
                           THEN job.analysis
                           ELSE [job.analysis EXCEPT !.fixed = @ \cup found]
        /\ job'.left = Tail(job.left)
        /\ job'.step = IF Tail(job.left) = <<>> THEN "save" ELSE "series"
        /\ job'.name = job.name /\ job'.base = job.base
    BY <1>5, SeriesJob
  <2>2. UNCHANGED <<tags, right>>
    BY <1>5 DEF SkipUnsafe, Proceed
  <2>3. /\ Reference(tags, job.name, job.base) \in right
        /\ commit \in Commits /\ Built(repo, commit) \in right
        /\ job.left \in Seq(Dirs) /\ job.left # <<>> /\ ReadAt.recipe # NoRecipe
        /\ job.analysis.provenance = Classify(ReadAt.recipe)
        /\ job.analysis.fixed \cup FixedIn(ReadAt, job.left) = FixedBy(ReadAt)
    BY <2>1 DEF IInv, RightInv
  <2>4. job.analysis \in Analysis /\ Tail(job.left) \in Seq(Dirs)
    BY <2>1, <2>3, JobFields
  <2>5. /\ job'.analysis.repo = repo /\ job'.analysis.commit = commit
        /\ job'.analysis.provenance = job.analysis.provenance
        /\ job'.analysis.fixed = job.analysis.fixed \cup
               IF Head(job.left) \in UnsafeDirs \/ found = NoSeries THEN {} ELSE found
        /\ job'.analysis = [repo |-> repo, commit |-> commit,
                            provenance |-> job.analysis.provenance,
                            fixed |-> job'.analysis.fixed]
    BY <2>1, <2>4 DEF Analysis
  <2>6. ReadAt' = ReadAt
    BY <2>5 DEF ReadAt
  <2>7. job'.analysis.fixed \cup FixedIn(ReadAt, job'.left) = FixedBy(ReadAt)
    <3>1. FixedIn(ReadAt, job.left) =
              FixedIn(ReadAt, Tail(job.left))
                \cup IF Head(job.left) \in UnsafeDirs \/ found = NoSeries THEN {} ELSE found
      BY <2>3, FixedOneByOne
    <3> HIDE DEF found
    <3>2. QED
      BY <2>1, <2>3, <2>5, <3>1
  <2>8. Built(repo, commit) = [repo |-> repo, commit |-> commit,
                               provenance |-> job.analysis.provenance, fixed |-> FixedBy(ReadAt)]
    BY <2>3 DEF Built, ReadAt
  <2>9. CASE job'.left = <<>>
    <3>1. job'.analysis.fixed = FixedBy(ReadAt)
      BY <2>7, <2>9, FixedByNone
    <3>2. job'.analysis \in right /\ job'.step = "save"
      BY <2>1, <2>3, <2>5, <2>8, <2>9, <3>1
    <3>3. QED
      BY <2>1, <2>2, <2>3, <3>2 DEF RightInv
  <2>10. CASE job'.left # <<>>
    <3>1. job'.step = "series" /\ job'.left \in Seq(Dirs)
      BY <2>1, <2>4, <2>10
    <3> HIDE DEF found, repo, commit
    <3>2. QED
      BY <2>1, <2>2, <2>3, <2>5, <2>6, <2>7, <2>10, <3>1 DEF RightInv, repo, commit
  <2>11. QED
    BY <2>9, <2>10
<1>6. CASE FetchSeries
  <2> DEFINE repo == job.analysis.repo
             commit == job.analysis.commit
             found == ReadAt.series[Head(job.left)]
  <2>1. /\ job # NoJob /\ job.step = "series"
        /\ job'.analysis = IF Head(job.left) \in UnsafeDirs \/ found = NoSeries
                           THEN job.analysis
                           ELSE [job.analysis EXCEPT !.fixed = @ \cup found]
        /\ job'.left = Tail(job.left)
        /\ job'.step = IF Tail(job.left) = <<>> THEN "save" ELSE "series"
        /\ job'.name = job.name /\ job'.base = job.base
    BY <1>6, SeriesJob
  <2>2. UNCHANGED <<tags, right>>
    BY <1>6 DEF FetchSeries, Proceed
  <2>3. /\ Reference(tags, job.name, job.base) \in right
        /\ commit \in Commits /\ Built(repo, commit) \in right
        /\ job.left \in Seq(Dirs) /\ job.left # <<>> /\ ReadAt.recipe # NoRecipe
        /\ job.analysis.provenance = Classify(ReadAt.recipe)
        /\ job.analysis.fixed \cup FixedIn(ReadAt, job.left) = FixedBy(ReadAt)
    BY <2>1 DEF IInv, RightInv
  <2>4. job.analysis \in Analysis /\ Tail(job.left) \in Seq(Dirs)
    BY <2>1, <2>3, JobFields
  <2>5. /\ job'.analysis.repo = repo /\ job'.analysis.commit = commit
        /\ job'.analysis.provenance = job.analysis.provenance
        /\ job'.analysis.fixed = job.analysis.fixed \cup
               IF Head(job.left) \in UnsafeDirs \/ found = NoSeries THEN {} ELSE found
        /\ job'.analysis = [repo |-> repo, commit |-> commit,
                            provenance |-> job.analysis.provenance,
                            fixed |-> job'.analysis.fixed]
    BY <2>1, <2>4 DEF Analysis
  <2>6. ReadAt' = ReadAt
    BY <2>5 DEF ReadAt
  <2>7. job'.analysis.fixed \cup FixedIn(ReadAt, job'.left) = FixedBy(ReadAt)
    <3>1. FixedIn(ReadAt, job.left) =
              FixedIn(ReadAt, Tail(job.left))
                \cup IF Head(job.left) \in UnsafeDirs \/ found = NoSeries THEN {} ELSE found
      BY <2>3, FixedOneByOne
    <3> HIDE DEF found
    <3>2. QED
      BY <2>1, <2>3, <2>5, <3>1
  <2>8. Built(repo, commit) = [repo |-> repo, commit |-> commit,
                               provenance |-> job.analysis.provenance, fixed |-> FixedBy(ReadAt)]
    BY <2>3 DEF Built, ReadAt
  <2>9. CASE job'.left = <<>>
    <3>1. job'.analysis.fixed = FixedBy(ReadAt)
      BY <2>7, <2>9, FixedByNone
    <3>2. job'.analysis \in right /\ job'.step = "save"
      BY <2>1, <2>3, <2>5, <2>8, <2>9, <3>1
    <3>3. QED
      BY <2>1, <2>2, <2>3, <3>2 DEF RightInv
  <2>10. CASE job'.left # <<>>
    <3>1. job'.step = "series" /\ job'.left \in Seq(Dirs)
      BY <2>1, <2>4, <2>10
    <3> HIDE DEF found, repo, commit
    <3>2. QED
      BY <2>1, <2>2, <2>3, <2>5, <2>6, <2>7, <2>10, <3>1 DEF RightInv, repo, commit
  <2>11. QED
    BY <2>9, <2>10
<1>7. CASE TryLater
  <2>1. UNCHANGED <<job, tags, right>>
    BY <1>7 DEF TryLater
  <2>2. QED
    BY <2>1 DEF IInv, RightInv, TagNow, ReadAt
<1>8. CASE Retry
  <2>1. UNCHANGED <<job, tags, right>>
    BY <1>8 DEF Retry
  <2>2. QED
    BY <2>1 DEF IInv, RightInv, TagNow, ReadAt
<1>9. CASE GiveUp
  <2>1. job' = NoJob
    BY <1>9 DEF GiveUp, End
  <2>2. QED
    BY <2>1 DEF RightInv
<1>10. CASE Refused
  <2>1. job' = NoJob
    BY <1>10 DEF Refused, End
  <2>2. QED
    BY <2>1 DEF RightInv
<1>11. CASE BeginSave
  <2>1. job # NoJob /\ job.step = "save"
    BY <1>11 DEF BeginSave
  <2>2. CASE End("store")
    BY <2>2 DEF End, RightInv
  <2>3. CASE /\ job' = [job EXCEPT !.step = "write", !.file = disk[job.name]]
             /\ UNCHANGED <<tags, right>>
    <3>1. job \in Job
      BY <2>1, JobFields
    <3>2. /\ job'.step = "write" /\ job'.name = job.name /\ job'.base = job.base
          /\ job'.analysis = job.analysis
      BY <2>3, <3>1 DEF Job
    <3>3. QED
      BY <2>1, <2>3, <3>2 DEF IInv, RightInv
  <2>4. QED
    BY <1>11, <2>2, <2>3 DEF BeginSave
<1>12. CASE FinishSave
  <2>1. job' = NoJob
    BY <1>12 DEF FinishSave, End
  <2>2. QED
    BY <2>1 DEF RightInv
<1>13. CASE Interrupt
  <2>1. job' = NoJob
    BY <1>13 DEF Interrupt, End
  <2>2. QED
    BY <2>1 DEF RightInv
<1>14. CASE Publish
  <2>1. UNCHANGED <<job, tags, right>>
    BY <1>14 DEF Publish
  <2>2. QED
    BY <2>1 DEF IInv, RightInv, TagNow, ReadAt
<1>15. ASSUME NEW n \in Names, NEW v \in Shipped, Analyze(n, v)
      PROVE  RightInv'
  <2>1. CASE End("store")
    BY <2>1 DEF End, RightInv
  <2>2. CASE UNCHANGED <<job, tags, right>>
    BY <2>2 DEF IInv, RightInv, TagNow, ReadAt
  <2>3. CASE /\ job'.name = n /\ job'.base = v.base /\ job'.step = "locate"
             /\ job'.left = Candidates(v.base) /\ job'.analysis = NotBuilt("", NoCommit)
             /\ UNCHANGED tags /\ right' = {Reference(tags, n, v.base)}
    BY <2>3 DEF RightInv
  <2>4. CASE /\ job' = [name |-> n, base |-> v.base, step |-> "locate",
                        left |-> Candidates(v.base), file |-> <<>>,
                        analysis |-> NotBuilt("", NoCommit)]
             /\ UNCHANGED tags /\ right' = {Reference(tags, n, v.base)}
    BY <2>3, <2>4
  <2>5. QED
    BY <1>15, <2>1, <2>2, <2>4 DEF Analyze
<1>16. CASE UNCHANGED vars
  <2>1. UNCHANGED <<job, tags, right>>
    BY <1>16 DEF vars
  <2>2. QED
    BY <2>1 DEF IInv, RightInv, TagNow, ReadAt
<1>17. QED
  BY <1>1, <1>2, <1>3, <1>4, <1>5, <1>6, <1>7, <1>8, <1>9, <1>10, <1>11, <1>12, <1>13,
     <1>14, <1>15, <1>16 DEF Next, JobStep

(***************************************************************************)
(* The theorems.                                                           *)
(***************************************************************************)

\* The invariant holds of every state of the store and the runs that use it.
THEOREM Invariance == Spec => []IInv
<1>1. Init => IInv
  <2> SUFFICES ASSUME Init
               PROVE  IInv
    OBVIOUS
  <2>1. \A n \in Names : IsFile(head[n]) /\ disk[n] = head[n]
    BY EmptyFile DEF Init
  <2>2. \A k \in Names \X Kinds \X Tags : tags[k] = NoCommit
    BY DEF Init
  <2>3. \A n \in Names, kind \in Kinds, t \in Tags : tags[<<n, kind, t>>] = NoCommit
    BY <2>2
  <2>4. TypeOK
    BY <2>1, BuildsAssumption DEF Init, TypeOK
  <2>5. JobInv
    BY DEF Init, JobInv
  <2>6. DiskInv
    BY <2>1, FileIsWhole DEF Init, DiskInv
  <2>7. RepoInv
    BY <2>3 DEF RepoInv, Kinds
  <2>8. RightInv
    BY DEF Init, RightInv
  <2>9. QED
    BY <2>4, <2>5, <2>6, <2>7, <2>8 DEF IInv
<1>2. IInv /\ [Next]_vars => IInv'
  <2> SUFFICES ASSUME IInv, [Next]_vars
               PROVE  IInv'
    OBVIOUS
  <2>1. TypeOK'
    BY TypeStep DEF IInv
  <2>2. QED
    BY <2>1, JobStepKept, DiskStep, RepoStep, RightStep DEF IInv
<1>3. QED
  BY <1>1, <1>2, PTL DEF Spec

\* Every variable has its type: a file of the store is torn or holds analyses, and a
\* request is tried at most MaxRetries times again.
THEOREM TypeCorrect == Spec => []TypeOK
<1>1. IInv => TypeOK
  BY DEF IInv
<1>2. QED
  BY <1>1, Invariance, PTL

\* No run ends because of what it finds in the store.
THEOREM StoreIsUsable == Spec => []StoreNeverInTheWay
<1>1. IInv => StoreNeverInTheWay
  BY DEF IInv, DiskInv, StoreNeverInTheWay
<1>2. QED
  BY <1>1, Invariance, PTL

\* Every analysis that is stored was right at one moment of the time it was read in.
THEOREM StoredAnalysesWereRight == Spec => []AnalysisOfOneMoment
<1>1. IInv => AnalysisOfOneMoment
  BY DEF IInv, RightInv, AnalysisOfOneMoment
<1>2. QED
  BY <1>1, Invariance, PTL

\* No step removes or changes an entry that is committed.
THEOREM StoreOnlyGrows == Spec => CommittedEntriesStay
<1> DEFINE Stay == \A n \in Names : /\ DOMAIN head[n] \subseteq DOMAIN head'[n]
                                    /\ \A k \in DOMAIN head[n] : head'[n][k] = head[n][k]
<1>1. IInv /\ [Next]_vars => [Stay]_head
  <2> SUFFICES ASSUME IInv, Next, head' # head
               PROVE  Stay
    BY DEF vars
  <2>1. Publish
    BY DEF Next, CutTag, StartRun, JobStep, Locate, FetchRecipe, SkipUnsafe, FetchSeries,
           TryLater, Retry, GiveUp, Refused, BeginSave, FinishSave, Interrupt, Analyze,
           End, Proceed
  <2>2. head' = disk /\ phase = "running" /\ job = NoJob
    BY <2>1 DEF Publish
  <2>3. \A n \in Names : Holds(head[n], disk[n])
    BY <2>2 DEF IInv, DiskInv
  <2>4. QED
    BY <2>2, <2>3 DEF Holds
<1>2. QED
  BY <1>1, Invariance, PTL DEF Spec, CommittedEntriesStay
===============================================================================
