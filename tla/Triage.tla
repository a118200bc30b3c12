-------------------------------- MODULE Triage --------------------------------
(***************************************************************************)
(* From Debian's list and the packages shipped to the decision about a CVE *)
(* (internal/screening, affectedness, releasestatus and the release part   *)
(* of assessment/record.go, in the order of cmd/glvd2).                    *)
(*                                                                         *)
(* A run ingests the list (DebSecTracker), then builds the projections of  *)
(* what is shipped (ShippedSources), then judges each CVE: is it relevant, *)
(* and what is each maintained release's status?  The CVEs are judged      *)
(* independently of each other, so that one of them stands for all.  How a *)
(* package was built is what Builds comes to.                              *)
(***************************************************************************)
EXTENDS DebSecTracker, ShippedSources

CONSTANTS
    Judgements,  \* the CVEs judged, with all that is known of each
    NotJudged

Provenances == {"taken-from-testing", "patched-from-debian", "built-from-upstream", "unknown"}

\* The lineage of a package, and the CVEs its build has a patch for.
Analysis == [provenance : Provenances, fixed : SUBSET CVEs]

OverrideStatuses == {"affected", "fixed", "not-affected", "unknown"}

\* What is known of a CVE beside Debian's list.
Facts == [cve       : CVEs,
          rejected  : BOOLEAN,           \* rejected upstream
          curated   : SUBSET Target,     \* targets of the curated rules that name it
          named     : SUBSET Components, \* components its identifiers name
          manual    : {"", "relevant", "not-relevant"},
          overrides : UNION {[S -> OverrideStatuses] : S \in SUBSET Target},
                                         \* the same for every release
          builds    : [Names \X (PackageVersions \cup {0}) -> Analysis]]

ASSUME TriageAssumption ==
    /\ Sources \subseteq Names
    /\ Versions \subseteq PackageVersions
    /\ Judgements \subseteq Facts /\ NotJudged \notin Facts

VARIABLES
    facts,      \* of the CVE judged, or NotJudged
    screening,  \* its reason and the targets matched
    decisions   \* per release, the reason of each target shipped

vars == <<debVars, shippedVars, facts, screening, decisions>>

Init ==
    /\ DebInit /\ ShippedInit
    /\ facts = NotJudged
    /\ screening = [reason |-> "", matched |-> {}] /\ decisions = <<>>

-----------------------------------------------------------------------------
(* Screening.                                                              *)

DebianTarget(source) == [source |-> source, namespace |-> "debian"]

VendoredMatches(f) == {rule.target : rule \in {q \in rules : q.component \in f.named}}

\* NOT-FOR-US hides the packages of an entry; without an entry Debian says nothing.
DebianNotForUs(c) == c \in DOMAIN db.triage /\ db.triage[c] = "NOT-FOR-US"

DebianPURLs(c) == IF DebianNotForUs(c) THEN {} ELSE {DebianTarget(s) : s \in AssignedSources(c)}

DebianShipped(c) == {t \in DebianPURLs(c) : Get(inventory, t) # {}}

Screen(f) ==
    CASE f.rejected ->
           [reason |-> "rejected-upstream", matched |-> {}]
      [] ~f.rejected /\ f.curated # {} ->
           [reason |-> "affects-gardenlinux-package", matched |-> f.curated]
      [] ~f.rejected /\ f.curated = {} /\ VendoredMatches(f) # {} ->
           [reason |-> "affects-vendored-dependency", matched |-> VendoredMatches(f)]
      [] OTHER ->
           IF DebianShipped(f.cve) # {}
           THEN [reason |-> "affects-debian-package", matched |-> DebianShipped(f.cve)]
           ELSE IF DebianPURLs(f.cve) # {}
           THEN [reason |-> "debian-package-not-shipped", matched |-> DebianPURLs(f.cve)]
           ELSE [reason  |-> IF DebianNotForUs(f.cve) THEN "debian-not-for-us"
                                                      ELSE "awaiting-debian",
                 matched |-> {}]

RelevantReasons ==
    {"affects-debian-package", "affects-gardenlinux-package", "affects-vendored-dependency"}

Relevant(f, reason) ==
    f.manual = "relevant" \/ (f.manual = "" /\ reason \in RelevantReasons)

-----------------------------------------------------------------------------
(* One package.                                                            *)

DebianLineage(build) == build.provenance \in {"taken-from-testing", "patched-from-debian"}

\* Mutant: Debian is asked about every build.
ResolveAnyLineage(c, t, version, build) ==
    CASE c \in build.fixed -> "fixed"
      [] OTHER -> LET status == VerdictStatus(Sid(c, t.source))
                  IN CASE status = "fixed"           -> "version-range"
                       [] status = "affected-no-fix" -> "affected-no-range"
                       [] OTHER                      -> status

\* The outcome for a package: a patch in the build first, then Debian's verdict, if
\* what is shipped comes from Debian.
Resolve(c, t, version, build) ==
    CASE c \in build.fixed -> "fixed"
      [] c \notin build.fixed /\ ~DebianLineage(build) -> "undecided"
      [] OTHER -> LET status == VerdictStatus(Sid(c, t.source))
                  IN CASE status = "fixed"           -> "version-range"
                       [] status = "affected-no-fix" -> "affected-no-range"
                       [] OTHER                      -> status

\* Mutant: the fixed version itself counts as vulnerable.
EvaluateUpToFixed(fixedVersion, version) ==
    CASE version = 0                            -> "unknown-escalated"
      [] version # 0 /\ version > fixedVersion -> "version-fixed"
      [] OTHER                                  -> "version-vulnerable"

\* Is the version shipped in the range below the fixed version?
EvaluateRange(fixedVersion, version) ==
    CASE version = 0                             -> "unknown-escalated"
      [] version # 0 /\ version >= fixedVersion -> "version-fixed"
      [] OTHER                                   -> "version-vulnerable"

PackageReason(c, t, version, a) ==
    LET outcome == Resolve(c, t, version, a)
    IN CASE outcome = "fixed"             -> "version-fixed"
         [] outcome = "not-affected"      -> "declared-not-affected"
         [] outcome = "affected-no-range" -> "affected-escalated"
         [] outcome = "version-range"     -> EvaluateRange(Sid(c, t.source).version, version)
         [] OTHER                         -> "unknown-escalated"

-----------------------------------------------------------------------------
(* One release.                                                            *)

\* The version of a target in a release: there is one at most (Conflict).
Lookup(r, t) == (CHOOSE p \in Get(index[r], t) : TRUE).version

Shipped(r, targets) == {t \in targets : Get(index[r], t) # {}}

Assess(f, s) ==
    [r \in DOMAIN index |->
        [t \in Shipped(r, s.matched) |->
            IF s.reason = "affects-vendored-dependency" THEN "unknown-escalated"
            ELSE PackageReason(f.cve, t, Lookup(r, t), f.builds[<<t.source, Lookup(r, t)>>])]]

ReasonForOverride ==
    [s \in OverrideStatuses |-> CASE s = "affected"     -> "version-vulnerable"
                                  [] s = "fixed"        -> "version-fixed"
                                  [] s = "not-affected" -> "declared-not-affected"
                                  [] OTHER              -> "unknown-escalated"]

\* What humans decided takes the place of what was computed, and stays when the
\* package is not shipped any more.
EffectiveReasons(f, decision) ==
    {decision[t] : t \in DOMAIN decision \ DOMAIN f.overrides}
        \cup {ReasonForOverride[f.overrides[t]] : t \in DOMAIN f.overrides}

Ranked == <<"version-vulnerable", "affected-escalated", "unknown-escalated",
            "version-fixed", "declared-not-affected">>

\* Mutant: the ranks in the order of confidence, certain ones first.
CompositeConfidentFirst(f, decision) ==
    LET reasons == EffectiveReasons(f, decision)
    IN CASE reasons = {} -> "package-not-shipped"
         [] "version-vulnerable" \in reasons -> "version-vulnerable"
         [] "version-fixed" \in reasons      -> "version-fixed"
         [] OTHER                            -> CHOOSE x \in reasons : TRUE

\* The strongest reason is that of the release.
CompositeReason(f, decision) ==
    LET ranks == {i \in 1..Len(Ranked) : Ranked[i] \in EffectiveReasons(f, decision)}
    IN IF ranks = {} THEN "package-not-shipped"
       ELSE Ranked[CHOOSE i \in ranks : \A j \in ranks : i <= j]

NeedsEscalation(reason) == reason \in {"affected-escalated", "unknown-escalated"}

Cleared(reason) == reason \in {"package-not-shipped", "declared-not-affected", "version-fixed"}

-----------------------------------------------------------------------------
(* The run.                                                                *)

Ingest == IngestTriage /\ UNCHANGED <<shippedVars, facts, screening, decisions>>

BuildSBOMProjections ==
    /\ ingest = "committed"
    /\ Feed \/ PoolsChange
    /\ UNCHANGED <<debVars, facts, screening, decisions>>

ProcessCVE ==
    /\ feed = "complete" /\ facts = NotJudged
    /\ facts' \in Judgements
    /\ screening' = Screen(facts')
    /\ decisions' = IF Relevant(facts', screening'.reason) THEN Assess(facts', screening') ELSE <<>>
    /\ UNCHANGED <<debVars, shippedVars>>

Next == Ingest \/ BuildSBOMProjections \/ ProcessCVE

Spec == Init /\ [][Next]_vars

-----------------------------------------------------------------------------
(* Properties.                                                             *)

\* Types.
TypeOK ==
    /\ pos \in 1..(Len(list.lines) + 1)
    /\ entry \in Entry \cup {NoEntry}
    /\ \A rows \in {tx, db} : /\ DOMAIN rows.triage \subseteq CVEs \ Temporaries
                              /\ rows.packages \in Seq(PackageRow)
                              /\ rows.releases \in Seq(ReleaseRow)
    /\ ingest \in {"reading", "committed", "failed"}
    /\ feed \in {"reading", "complete", "failed"}
    /\ inventory \subseteq Target /\ rules \subseteq Rule
    /\ DOMAIN index \subseteq Releases /\ \A r \in DOMAIN index : index[r] \subseteq ShippedSource
    /\ moment \in Moments /\ consumer \in Consumers
    /\ due \in Nat \cup {NotKnown} /\ read \in Seq(Moments) /\ (due # NotKnown => Len(read) <= due)
    /\ screening.matched \subseteq Target

Judged == facts # NotJudged

\* The sources that Debian's list assigns to a CVE in a disclosed entry.
ListedSources(c) ==
    {list.lines[i].source : i \in {j \in 1..Len(list.lines) :
        /\ list.lines[j].kind = "package" /\ HeaderOf(j) \in Disclosed
        /\ list.lines[HeaderOf(j)].id = c}}

\* What the last line of the list for a CVE and a source says.
ListedSid(c, source) ==
    LET rows == {j \in 1..Len(list.lines) :
                    /\ list.lines[j].kind = "package" /\ list.lines[j].source = source
                    /\ HeaderOf(j) \in Disclosed /\ list.lines[HeaderOf(j)].id = c}
    IN IF rows = {} THEN [token |-> "no-entry", version |-> 0]
       ELSE list.lines[CHOOSE i \in rows : \A j \in rows : j <= i].sid

\* A CVE that comes out irrelevant is rejected upstream, hidden by an entry that ends
\* with NOT-FOR-US, or assigned by Debian's list to no source that some maintained
\* release ships, in whatever namespace and by whatever kind of listing.
ShippedIsNotScreenedOut ==
    Judged /\ screening.reason \notin RelevantReasons =>
        LET c == facts.cve
        IN \/ facts.rejected
           \/ c \in DOMAIN ListedTriage /\ ListedTriage[c] = "NOT-FOR-US"
           \/ \A s \in ListedSources(c), r \in Releases :
                 ShippedVersions(r, DebianTarget(s), "inventory") = {}

\* Evidence that a version of a target does not have the CVE: a patch in its build, or
\* the list, if the build comes from Debian.
Evidence(c, t, version) ==
    LET build == facts.builds[<<t.source, version>>]
        sid == ListedSid(c, t.source)
    IN \/ c \in build.fixed
       \/ /\ DebianLineage(build)
          /\ \/ sid.token = "not-affected"
             \/ sid.token = "version" /\ version # 0 /\ sid.version <= version

Overridden(t) == t \in DOMAIN facts.overrides

\* A release is fixed or not affected only if there is evidence, or a human's word,
\* for every package the CVE was matched to in the version the release ships.
\* Evidence for another release, for another package or for a build that does not
\* come from Debian clears nothing.
ClearedOnlyWithEvidence ==
    Judged =>
        \A r \in DOMAIN decisions : Cleared(CompositeReason(facts, decisions[r])) =>
            \A t \in screening.matched : \A version \in ShippedVersions(r, t, "index") :
                IF Overridden(t) THEN facts.overrides[t] \in {"fixed", "not-affected"}
                ELSE screening.reason # "affects-vendored-dependency"
                        /\ Evidence(facts.cve, t, version)

\* A release is reported as vulnerable, past every package that is fixed or unknown,
\* exactly when it ships a matched package below the version that fixes it, or a
\* human said so.
VulnerableIsReported ==
    Judged =>
        \A r \in DOMAIN decisions :
            CompositeReason(facts, decisions[r]) = "version-vulnerable" <=>
                \/ \E t \in DOMAIN facts.overrides : facts.overrides[t] = "affected"
                \/ \E t \in screening.matched : \E version \in ShippedVersions(r, t, "index") :
                     LET build == facts.builds[<<t.source, version>>]
                         sid == ListedSid(facts.cve, t.source)
                     IN /\ ~Overridden(t)
                        /\ screening.reason # "affects-vendored-dependency"
                        /\ facts.cve \notin build.fixed /\ DebianLineage(build)
                        /\ sid.token = "version" /\ version # 0 /\ version < sid.version

\* A relevant CVE has a decision for every maintained release.  It asks for a human
\* exactly when no version condemns the release and some package is open: shipped, of
\* no human's word, without evidence for its version.  What is settled asks nobody.
OpenQuestionsEscalate ==
    Judged /\ Relevant(facts, screening.reason) =>
        /\ DOMAIN decisions = Releases
        /\ \A r \in Releases :
             LET reason == CompositeReason(facts, decisions[r])
             IN NeedsEscalation(reason) <=>
                  /\ reason # "version-vulnerable"
                  /\ \/ \E t \in DOMAIN facts.overrides : facts.overrides[t] = "unknown"
                     \/ \E t \in screening.matched \ DOMAIN facts.overrides :
                          \E version \in ShippedVersions(r, t, "index") :
                             \/ screening.reason = "affects-vendored-dependency"
                             \/ ~Evidence(facts.cve, t, version)
=============================================================================
