----------------------------- MODULE TriageProofs -----------------------------
(***************************************************************************)
(* What a run decides about a CVE, proved for every list of Debian, every  *)
(* world that is published, and every CVE.                                 *)
(*                                                                         *)
(* A run is an ingestion and a feed, one after the other, so that what is  *)
(* proved of the two holds in every run.  What is left to say is that the  *)
(* judgement is made of their results, once both are complete, and that    *)
(* these do not change any more (JudgedInv).  The properties then follow   *)
(* from three facts: the verdict for a package is what the list says last  *)
(* of it (SidIsListed), the version looked up is the one shipped           *)
(* (LookedUpIsShipped), and a release is what its worst package is         *)
(* (CompositeIsWorst).                                                     *)
(***************************************************************************)
EXTENDS Triage, TriageInputsProofs

-----------------------------------------------------------------------------
(* The parts of a run.                                                     *)

\* A step of a run is one of the ingestion or none, and one of the feed or none.
LEMMA StepsOfTheParts ==
    ASSUME [Next]_vars
    PROVE  [IngestTriage]_debVars /\ [Feed \/ PoolsChange]_shippedVars
<1>1. CASE Ingest
  BY <1>1 DEF Ingest
<1>2. CASE BuildSBOMProjections
  BY <1>2 DEF BuildSBOMProjections
<1>3. CASE ProcessCVE
  BY <1>3 DEF ProcessCVE
<1>4. CASE UNCHANGED vars
  BY <1>4 DEF vars
<1>5. QED
  BY <1>1, <1>2, <1>3, <1>4 DEF Next

\* Every run ingests the list as the ingestion on its own does (cmd/glvd2, runPipeline).
THEOREM RunIngests == Spec => DebSpec
<1>1. Init => DebInit
  BY DEF Init
<1>2. [Next]_vars => [IngestTriage]_debVars
  BY StepsOfTheParts
<1>3. QED
  BY <1>1, <1>2, PTL DEF Spec, DebSpec

\* Every run builds the projections as the feed on its own does (buildSBOMProjections).
THEOREM RunFeeds == Spec => ShippedSpec
<1>1. Init => ShippedInit
  BY DEF Init
<1>2. [Next]_vars => [Feed \/ PoolsChange]_shippedVars
  BY StepsOfTheParts
<1>3. QED
  BY <1>1, <1>2, PTL DEF Spec, ShippedSpec

\* The database of a run is empty until the whole list is in it.
THEOREM RunStoresTheList == Spec => []RowsMatchList
  BY RunIngests, IngestedAsListed, PTL

\* A run goes on only with complete projections.
THEOREM RunHasCompleteProjections == Spec => []ProjectionsMatchReleases
  BY RunFeeds, ProjectionsAreComplete, PTL

\* A version in the index of a run was shipped at some moment of it.
THEOREM RunIndexesWhatWasShipped == Spec => []IndexedVersionWasShipped
  BY RunFeeds, IndexedVersionsWereShipped, PTL

-----------------------------------------------------------------------------
(* The invariant.                                                          *)

\* The decisions about a CVE that was screened.
Decided(f, s) == IF Relevant(f, s.reason) THEN Assess(f, s) ELSE <<>>

\* What is judged is judged of a complete database and complete projections.
JudgedInv ==
    /\ feed # "reading" => ingest = "committed"
    /\ facts = NotJudged => screening.matched = {}
    /\ facts # NotJudged =>
          /\ feed = "complete"
          /\ \E f \in Facts : \E s :
                /\ facts = f /\ screening = s
                /\ s = Screen(f) /\ decisions = Decided(f, s)

TriageInv == DebInv /\ ShippedInv /\ JudgedInv

\* The judgement is a matter of the rows and the projections.
LEMMA SameJudgement ==
    ASSUME UNCHANGED <<db, inventory, rules, index>>, NEW f, NEW s
    PROVE  /\ Screen(f)' = Screen(f)
           /\ Assess(f, s)' = Assess(f, s)
<1>1. /\ \A c : DebianNotForUs(c)' <=> DebianNotForUs(c)
      /\ \A c : AssignedSources(c)' = AssignedSources(c)
      /\ \A c, source : Sid(c, source)' = Sid(c, source)
  BY DEF DebianNotForUs, AssignedSources, RowsOf, Sid
<1>2. \A c : DebianPURLs(c)' = DebianPURLs(c)
  BY <1>1 DEF DebianPURLs
<1>3. \A c : DebianShipped(c)' = DebianShipped(c)
  BY <1>2 DEF DebianShipped
<1>4. VendoredMatches(f)' = VendoredMatches(f)
  BY DEF VendoredMatches
<1>5. Screen(f)' = Screen(f)
  BY <1>1, <1>2, <1>3, <1>4 DEF Screen
<1>6. \A c, t, version, build : PackageReason(c, t, version, build)' = PackageReason(c, t, version, build)
  <2>1. \A c, t, version, build : Resolve(c, t, version, build)' = Resolve(c, t, version, build)
    BY <1>1 DEF Resolve
  <2>2. QED
    BY <1>1, <2>1 DEF PackageReason
<1>7. \A r, t : Lookup(r, t)' = Lookup(r, t)
  BY DEF Lookup
<1>8. \A r, targets : Shipped(r, targets)' = Shipped(r, targets)
  BY DEF Shipped
<1>9. Assess(f, s)' = Assess(f, s)
  BY <1>6, <1>7, <1>8 DEF Assess
<1>10. QED
  BY <1>5, <1>9

\* Nothing is judged before all is known.
LEMMA JudgedInvInit == Init => JudgedInv
<1> SUFFICES ASSUME Init PROVE JudgedInv
  OBVIOUS
<1>1. facts = NotJudged /\ screening.matched = {} /\ feed = "reading"
  BY DEF Init, ShippedInit
<1>2. QED
  BY <1>1 DEF JudgedInv

\* A complete feed is over.
LEMMA FeedIsOver ==
    ASSUME feed # "reading"
    PROVE  ~Feed /\ ~PoolsChange
<1>1. \A i, f : ~AddSBOM(i, f) /\ ~GetInReleaseFile(i) /\ ~GetPackageList(i) /\ ~MissingSBOMSet(i)
  BY DEF AddSBOM, GetInReleaseFile, GetPackageList, MissingSBOMSet, Delivering
<1>2. ~Result /\ ~FeedFails /\ ~PoolsChange
  BY DEF Result, FeedFails, PoolsChange
<1>3. QED
  BY <1>1, <1>2 DEF Feed

\* What was judged stays, and so does what it was judged of.
LEMMA JudgedInvNext ==
    ASSUME JudgedInv, [Next]_vars
    PROVE  JudgedInv'
<1>1. ASSUME UNCHANGED <<facts, screening, decisions>>,
             facts # NotJudged => UNCHANGED <<db, inventory, rules, index, feed>>,
             feed' # "reading" => ingest' = "committed"
      PROVE  JudgedInv'
  <2>1. CASE facts = NotJudged
    BY <1>1, <2>1 DEF JudgedInv
  <2>2. CASE facts # NotJudged
    <3>1. feed = "complete"
      BY <2>2 DEF JudgedInv
    <3>2. PICK f \in Facts : \E s : facts = f /\ screening = s /\ s = Screen(f) /\ decisions = Decided(f, s)
      BY <2>2 DEF JudgedInv
    <3>3. PICK s : facts = f /\ screening = s /\ s = Screen(f) /\ decisions = Decided(f, s)
      BY <3>2
    <3>4. s = Screen(f)' /\ decisions = Decided(f, s)'
      <4>1. Screen(f)' = Screen(f) /\ Assess(f, s)' = Assess(f, s)
        BY <1>1, <2>2, SameJudgement
      <4>2. Decided(f, s)' = Decided(f, s)
        BY <4>1 DEF Decided, Relevant
      <4>3. QED
        BY <3>3, <4>1, <4>2
    <3>5. facts' = f /\ screening' = s /\ decisions' = Decided(f, s)' /\ feed' = "complete"
      BY <1>1, <2>2, <3>1, <3>3, <3>4
    <3>6. (\E g \in Facts : \E r :
             facts = g /\ screening = r /\ r = Screen(g) /\ decisions = Decided(g, r))'
      BY <3>4, <3>5
    <3>7. QED
      BY <1>1, <2>2, <3>5, <3>6 DEF JudgedInv
  <2>3. QED
    BY <2>1, <2>2
<1>2. CASE Ingest
  <2>1. ingest = "reading" /\ facts' = facts /\ screening' = screening /\ decisions' = decisions
        /\ feed' = feed /\ feed = "reading"
    BY <1>2 DEF Ingest, IngestTriage, ReadHeader, ReadContent, Commit, IngestionFails, shippedVars, JudgedInv
  <2>2. facts = NotJudged
    BY <2>1 DEF JudgedInv
  <2>3. QED
    BY <1>1, <2>1, <2>2
<1>3. CASE BuildSBOMProjections
  <2>1. /\ ingest' = "committed" /\ facts' = facts /\ screening' = screening /\ decisions' = decisions
        /\ feed = "reading"
    BY <1>3, FeedIsOver DEF BuildSBOMProjections, debVars
  <2>2. facts = NotJudged
    BY <2>1 DEF JudgedInv
  <2>3. QED
    BY <1>1, <2>1, <2>2
<1>4. CASE ProcessCVE
  <2>1. /\ feed' = "complete" /\ ingest' = ingest /\ ingest = "committed" /\ facts' \in Facts
        /\ facts' # NotJudged
        /\ UNCHANGED <<db, inventory, rules, index>>
    BY <1>4, TriageAssumption DEF ProcessCVE, JudgedInv, debVars, shippedVars, projections
  <2>2. screening' = Screen(facts') /\ decisions' = Decided(facts', screening')
    BY <1>4 DEF ProcessCVE, Decided
  <2> DEFINE f == facts'  s == screening'
  <2>3. f \in Facts /\ s = Screen(f) /\ decisions' = Decided(f, s)
    BY <2>1, <2>2
  <2>4. \A g, r : Screen(g)' = Screen(g) /\ Decided(g, r)' = Decided(g, r)
    <3>1. \A g, r : Screen(g)' = Screen(g) /\ Assess(g, r)' = Assess(g, r)
      BY <2>1, SameJudgement
    <3>2. QED
      BY <3>1 DEF Decided, Relevant
  <2>5. (\E g \in Facts : \E r :
           facts = g /\ screening = r /\ r = Screen(g) /\ decisions = Decided(g, r))'
    BY <2>3, <2>4
  <2>6. QED
    BY <2>1, <2>5 DEF JudgedInv
<1>5. CASE UNCHANGED vars
  <2>1. UNCHANGED <<facts, screening, decisions, db, inventory, rules, index, feed, ingest>>
    BY <1>5 DEF vars, debVars, shippedVars, projections
  <2>2. QED
    BY <1>1, <2>1 DEF JudgedInv
<1>6. QED
  BY <1>2, <1>3, <1>4, <1>5 DEF Next

\* The three parts of the invariant hold in every run.
THEOREM TriageInvariance == Spec => []TriageInv
<1>1. Spec => []JudgedInv
  <2>1. Init => JudgedInv
    BY JudgedInvInit
  <2>2. JudgedInv /\ [Next]_vars => JudgedInv'
    BY JudgedInvNext
  <2>3. QED
    BY <2>1, <2>2, PTL DEF Spec
<1>2. Spec => []DebInv
  BY RunIngests, DebInvariance, PTL
<1>3. Spec => []ShippedInv
  BY RunFeeds, ShippedInvariance, PTL
<1>4. QED
  BY <1>1, <1>2, <1>3, PTL DEF TriageInv

-----------------------------------------------------------------------------
(* What Debian says.                                                       *)

\* The sources of the rows for a CVE, and the verdict for one of them, are those of the
\* lines of the list.
LEMMA SidIsListed ==
    ASSUME DebTypeOK, ingest = "committed", RowsMatchList, NEW c
    PROVE  /\ AssignedSources(c) = ListedSources(c)
           /\ \A source : Sid(c, source) = ListedSid(c, source)
<1> DEFINE L == 1..Len(list.lines)
           N == Len(db.packages)
           row == [i \in ListedLines("package") |-> PackageRowAt(i)]
<1>1. N \in Nat /\ Len(list.lines) \in Nat
  BY ListOfLines DEF DebTypeOK, IsRows
<1>2. InOrder(db.packages, row)
  BY DEF RowsMatchList
<1>3. PICK at \in [1..N -> DOMAIN row] :
         /\ \A n \in 1..N : db.packages[n] = row[at[n]]
         /\ \A m, n \in 1..N : m < n => at[m] < at[n]
         /\ \A i \in DOMAIN row : \E n \in 1..N : at[n] = i
  BY <1>2 DEF InOrder
<1>4. \A n \in 1..N : /\ at[n] \in L /\ list.lines[at[n]].kind = "package"
                      /\ HeaderOf(at[n]) \in Disclosed
                      /\ db.packages[n] = PackageRowAt(at[n])
  BY <1>3 DEF ListedLines
<1>5. \A i \in L : list.lines[i].kind = "package" /\ HeaderOf(i) \in Disclosed =>
                     \E n \in 1..N : at[n] = i
  BY <1>3 DEF ListedLines
<1>6. \A n \in 1..N : /\ db.packages[n].id = list.lines[HeaderOf(at[n])].id
                      /\ db.packages[n].source = list.lines[at[n]].source
                      /\ db.packages[n].sid = list.lines[at[n]].sid
  <2>1. \A i : /\ PackageRowAt(i).id = list.lines[HeaderOf(i)].id
               /\ PackageRowAt(i).source = list.lines[i].source
               /\ PackageRowAt(i).sid = list.lines[i].sid
    BY DEF PackageRowAt
  <2>2. QED
    BY <1>4, <2>1
<1>7. \A m, n \in 1..N : m <= n => at[m] <= at[n]
  <2>1. ASSUME NEW m \in 1..N, NEW n \in 1..N, m <= n
        PROVE  at[m] <= at[n]
    <3>1. at[m] \in Nat /\ at[n] \in Nat
      BY <1>1, <1>4
    <3>2. m = n \/ m < n
      BY <1>1, <2>1
    <3>3. QED
      BY <1>3, <3>1, <3>2
  <2>2. QED
    BY <2>1
<1> HIDE DEF row
<1>8. AssignedSources(c) = ListedSources(c)
  <2>1. \A x : x \in AssignedSources(c) <=> \E n \in 1..N : db.packages[n].id = c /\ x = db.packages[n].source
    BY DEF AssignedSources, RowsOf
  <2>2. \A x : x \in ListedSources(c) <=>
           \E i \in L : /\ list.lines[i].kind = "package" /\ HeaderOf(i) \in Disclosed
                        /\ list.lines[HeaderOf(i)].id = c /\ x = list.lines[i].source
    BY DEF ListedSources
  <2>3. ASSUME NEW x \in AssignedSources(c)
        PROVE  x \in ListedSources(c)
    <3>1. PICK n \in 1..N : db.packages[n].id = c /\ x = db.packages[n].source
      BY <2>1, <2>3
    <3>2. /\ at[n] \in L /\ list.lines[at[n]].kind = "package" /\ HeaderOf(at[n]) \in Disclosed
          /\ list.lines[HeaderOf(at[n])].id = c /\ x = list.lines[at[n]].source
      BY <1>4, <1>6, <3>1
    <3>3. QED
      BY <2>2, <3>2
  <2>4. ASSUME NEW x \in ListedSources(c)
        PROVE  x \in AssignedSources(c)
    <3>1. PICK i \in L : /\ list.lines[i].kind = "package" /\ HeaderOf(i) \in Disclosed
                         /\ list.lines[HeaderOf(i)].id = c /\ x = list.lines[i].source
      BY <2>2, <2>4
    <3>2. PICK n \in 1..N : at[n] = i
      BY <1>5, <3>1
    <3>3. db.packages[n].id = c /\ x = db.packages[n].source
      BY <1>6, <3>1, <3>2
    <3>4. QED
      BY <2>1, <3>3
  <2>5. QED
    BY <2>3, <2>4
<1>9. ASSUME NEW source
      PROVE  Sid(c, source) = ListedSid(c, source)
  <2> DEFINE rows == {i \in RowsOf(c) : db.packages[i].source = source}
             lines == {j \in L : /\ list.lines[j].kind = "package" /\ list.lines[j].source = source
                                 /\ HeaderOf(j) \in Disclosed /\ list.lines[HeaderOf(j)].id = c}
  <2>1. \A n \in 1..N : n \in rows <=> at[n] \in lines
    BY <1>4, <1>6 DEF RowsOf
  <2>2. \A i \in lines : \E n \in 1..N : at[n] = i
    BY <1>5
  <2>3. rows \in SUBSET (1..N) /\ lines \in SUBSET L
    BY DEF RowsOf
  <2>4. Sid(c, source) = IF rows = {} THEN [token |-> "no-entry", version |-> 0]
                         ELSE db.packages[CHOOSE i \in rows : \A j \in rows : j <= i].sid
    BY DEF Sid
  <2>5. ListedSid(c, source) = IF lines = {} THEN [token |-> "no-entry", version |-> 0]
                               ELSE list.lines[CHOOSE i \in lines : \A j \in lines : j <= i].sid
    BY DEF ListedSid
  <2> HIDE DEF rows, lines
  <2>6. CASE rows = {}
    <3>1. lines = {}
      BY <2>1, <2>2, <2>6
    <3>2. QED
      BY <2>4, <2>5, <2>6, <3>1
  <2>7. CASE rows # {}
    <3>1. PICK n \in rows : \A j \in rows : j <= n
      BY <1>1, <2>3, <2>7, LastPosition
    <3>2. at[n] \in lines /\ \A j \in lines : j <= at[n]
      BY <1>7, <2>1, <2>2, <2>3, <3>1
    <3>3. (CHOOSE i \in rows : \A j \in rows : j <= i) = n
      <4>1. \A i \in rows : i \in Nat
        BY <1>1, <2>3
      <4>2. \A i \in rows : (\A j \in rows : j <= i) => i = n
        BY <3>1, <4>1
      <4>3. QED
        BY <3>1, <4>2
    <3>4. (CHOOSE i \in lines : \A j \in lines : j <= i) = at[n]
      <4>1. \A i \in lines : i \in Nat
        BY <1>1, <2>3
      <4>2. \A i \in lines : (\A j \in lines : j <= i) => i = at[n]
        BY <3>2, <4>1
      <4>3. QED
        BY <3>2, <4>2
    <3>5. db.packages[n].sid = list.lines[at[n]].sid
      BY <1>6, <2>3, <3>1
    <3>6. lines # {}
      BY <3>2
    <3>7. QED
      BY <2>4, <2>5, <2>7, <3>3, <3>4, <3>5, <3>6
  <2>8. QED
    BY <2>6, <2>7
<1>10. QED
  BY <1>8, <1>9

\* The rows of the database are rows.
LEMMA StoredRow ==
    ASSUME DebTypeOK, NEW i \in 1..Len(db.packages)
    PROVE  db.packages[i].source \in Sources /\ db.packages[i].sid \in SidField
<1> DEFINE rows == db.packages
<1>1. rows \in Seq(PackageRow) /\ i \in 1..Len(rows)
  BY DEF DebTypeOK, IsRows
<1> HIDE DEF rows
<1>2. rows[i] \in PackageRow
  BY <1>1
<1>3. rows[i].source \in Sources /\ rows[i].sid \in SidField
  BY <1>2 DEF PackageRow
<1>4. QED
  BY <1>3 DEF rows

\* The verdict of the list is a version or a token.
LEMMA SidType ==
    ASSUME DebTypeOK, NEW c, NEW source
    PROVE  Sid(c, source) \in SidField \cup {[token |-> "no-entry", version |-> 0]}
<1> DEFINE N == Len(db.packages)
           rows == {i \in RowsOf(c) : db.packages[i].source = source}
<1>1. N \in Nat
  BY DEF DebTypeOK, IsRows
<1>2. \A i \in 1..N : db.packages[i].sid \in SidField
  BY StoredRow
<1>3. rows \in SUBSET (1..N)
  BY DEF RowsOf
<1>4. Sid(c, source) = IF rows = {} THEN [token |-> "no-entry", version |-> 0]
                       ELSE db.packages[CHOOSE i \in rows : \A j \in rows : j <= i].sid
  BY DEF Sid
<1> HIDE DEF rows
<1>5. CASE rows # {}
  <2>1. PICK n \in rows : \A j \in rows : j <= n
    BY <1>1, <1>3, <1>5, LastPosition
  <2>2. (CHOOSE i \in rows : \A j \in rows : j <= i) \in rows
    BY <2>1
  <2>3. QED
    BY <1>2, <1>3, <1>4, <1>5, <2>2
<1>6. CASE rows = {}
  BY <1>4, <1>6
<1>7. QED
  BY <1>5, <1>6

-----------------------------------------------------------------------------
(* Types.                                                                  *)

\* What a CVE is matched to are identities of packages.
LEMMA MatchedAreTargets ==
    ASSUME DebTypeOK, rules \subseteq Rule, NEW f \in Facts
    PROVE  Screen(f).matched \subseteq Target
<1>1. f.curated \subseteq Target
  BY DEF Facts
<1>2. VendoredMatches(f) \subseteq Target
  BY DEF VendoredMatches, Rule
<1>3. DebianPURLs(f.cve) \subseteq Target
  <2>1. AssignedSources(f.cve) \subseteq Names
    <3>1. \A i \in 1..Len(db.packages) : db.packages[i].source \in Sources
      BY StoredRow
    <3>2. QED
      BY <3>1, TriageAssumption DEF AssignedSources, RowsOf
  <2>2. \A s \in Names : DebianTarget(s) \in Target
    BY DEF DebianTarget, Target, Namespaces
  <2>3. QED
    BY <2>1, <2>2 DEF DebianPURLs
<1>4. DebianShipped(f.cve) \subseteq Target
  BY <1>3 DEF DebianShipped
<1>5. QED
  BY <1>1, <1>2, <1>3, <1>4 DEF Screen

\* The types of a run.
THEOREM TriageTypeCorrect == Spec => []TypeOK
<1>1. ASSUME TriageInv
      PROVE  TypeOK
  <2>1. /\ DebTypeOK /\ ShippedTypeOK /\ IndexInv
        /\ JudgedInv
    BY <1>1 DEF TriageInv, DebInv, ShippedInv
  <2>2. DOMAIN index \subseteq Releases
    BY <2>1, SameReleases DEF IndexInv, Begun
  <2>3. screening.matched \subseteq Target
    <3>1. CASE facts = NotJudged
      BY <2>1, <3>1 DEF JudgedInv
    <3>2. CASE facts # NotJudged
      BY <2>1, <3>2, MatchedAreTargets DEF JudgedInv, ShippedTypeOK
    <3>3. QED
      BY <3>1, <3>2
  <2>4. /\ pos \in 1..(Len(list.lines) + 1) /\ entry \in Entry \cup {NoEntry}
        /\ ingest \in {"reading", "committed", "failed"}
        /\ \A rows \in {tx, db} : /\ DOMAIN rows.triage \subseteq CVEs \ Temporaries
                                  /\ rows.packages \in Seq(PackageRow)
                                  /\ rows.releases \in Seq(ReleaseRow)
    BY <2>1 DEF DebTypeOK, IsRows
  <2>5. /\ feed \in {"reading", "complete", "failed"}
        /\ inventory \subseteq Target /\ rules \subseteq Rule
        /\ \A r \in DOMAIN index : index[r] \subseteq ShippedSource
        /\ moment \in Moments /\ consumer \in Consumers
        /\ due \in Nat \cup {NotKnown} /\ read \in Seq(Moments)
        /\ (due # NotKnown => Len(read) <= due)
    BY <2>1 DEF ShippedTypeOK
  <2>6. QED
    BY <2>2, <2>3, <2>4, <2>5 DEF TypeOK
<1>2. QED
  BY <1>1, TriageInvariance, PTL

-----------------------------------------------------------------------------
(* What is shipped.                                                        *)

\* The version that is looked up for a target is the one the release ships, and a target
\* that is not found is shipped in no version.
LEMMA LookedUpIsShipped ==
    ASSUME ProjectionsMatchReleases, feed = "complete", NEW r \in Releases, NEW t
    PROVE  /\ Get(index[r], t) = {} => ShippedVersions(r, t, "index") = {}
           /\ Get(index[r], t) # {} => ShippedVersions(r, t, "index") = {Lookup(r, t)}
<1> DEFINE P == PublishedAs(r, "index")
           V == ShippedVersions(r, t, "index")
           G == Get(index[r], t)
           Like(p) == p.source = t.source /\ p.namespace \in Variants(t.namespace)
<1>1. /\ \A q \in index[r] : \E p \in P : q = SourceOf(p)
      /\ \A p \in {SourceOf(q) : q \in P} :
            {q.version : q \in {e \in index[r] : e.source = p.source
                                   /\ e.namespace \in SameAs(p.namespace)}} = {p.version}
  BY DEF ProjectionsMatchReleases
<1>2. V = {p.sourceVersion : p \in {q \in P : Like(q)}}
  BY VariantsAreTheSame DEF ShippedVersions
<1>3. G = {q \in index[r] : Like(q)}
  BY DEF Get
<1> HIDE DEF P, V, G
<1>4. \A p : SourceOf(p).source = p.source /\ SourceOf(p).namespace = p.namespace
             /\ SourceOf(p).version = p.sourceVersion
  BY DEF SourceOf
<1>5. ASSUME NEW p \in P, Like(p)
      PROVE  {q.version : q \in G} = {p.sourceVersion}
  <2>1. {q.version : q \in {e \in index[r] : e.source = p.source
                               /\ e.namespace \in Variants(p.namespace)}} = {p.sourceVersion}
    <3>1. SourceOf(p) \in {SourceOf(q) : q \in P}
      OBVIOUS
    <3>2. {q.version : q \in {e \in index[r] : e.source = SourceOf(p).source
                                 /\ e.namespace \in SameAs(SourceOf(p).namespace)}} = {SourceOf(p).version}
      BY <1>1, <3>1
    <3>3. QED
      BY <1>4, <3>2, VariantsAreTheSame
  <2>2. \A e : e.source = p.source /\ e.namespace \in Variants(p.namespace) <=> Like(e)
    BY <1>5 DEF Variants
  <2>3. G = {e \in index[r] : e.source = p.source /\ e.namespace \in Variants(p.namespace)}
    BY <1>3, <2>2
  <2>4. QED
    BY <2>1, <2>3
<1>6. ASSUME NEW q \in G
      PROVE  \E p \in P : Like(p) /\ q.version = p.sourceVersion
  BY <1>1, <1>3, <1>4
<1>7. CASE G = {}
  <2>1. \A p \in P : ~Like(p)
    BY <1>5, <1>7
  <2>2. V = {}
    BY <1>2, <2>1
  <2>3. QED
    BY <1>7, <2>2 DEF G, V
<1>8. CASE G # {}
  <2> DEFINE e == CHOOSE p \in G : TRUE
  <2>1. e \in G /\ Lookup(r, t) = e.version
    BY <1>8 DEF Lookup, G
  <2> HIDE DEF e
  <2>2. \A p \in P : Like(p) => p.sourceVersion = e.version
    BY <1>5, <2>1
  <2>3. \E p \in P : Like(p) /\ p.sourceVersion = e.version
    BY <1>6, <2>1
  <2>4. V = {e.version}
    BY <1>2, <2>2, <2>3
  <2>5. QED
    BY <1>8, <2>1, <2>4 DEF G, V
<1>9. QED
  BY <1>7, <1>8

\* A CVE that comes out irrelevant concerns nothing that a release ships: the inventory,
\* asked for Debian's sources under either namespace, has every source that is published
\* (screening.Service, inventory.Set.Contains).
THEOREM ShippedIsScreenedIn == Spec => []ShippedIsNotScreenedOut
<1>1. ASSUME TriageInv, RowsMatchList, ProjectionsMatchReleases
      PROVE  ShippedIsNotScreenedOut
  <2> SUFFICES ASSUME Judged, screening.reason \notin RelevantReasons
               PROVE  LET c == facts.cve
                      IN \/ facts.rejected
                         \/ c \in DOMAIN ListedTriage /\ ListedTriage[c] = "NOT-FOR-US"
                         \/ \A s \in ListedSources(c), r \in Releases :
                               ShippedVersions(r, DebianTarget(s), "inventory") = {}
    BY DEF ShippedIsNotScreenedOut
  <2> DEFINE c == facts.cve
  <2>1. screening = Screen(facts) /\ feed = "complete" /\ ingest = "committed" /\ facts \in Facts
    BY <1>1 DEF TriageInv, JudgedInv, Judged
  <2>2. db.triage = ListedTriage
    BY <1>1, <2>1 DEF RowsMatchList
  <2>3. AssignedSources(c) = ListedSources(c)
    BY <1>1, <2>1, SidIsListed DEF TriageInv, DebInv
  <2>4. CASE facts.rejected
    BY <2>4
  <2>5. CASE ~facts.rejected
    <3>1. facts.curated = {} /\ VendoredMatches(facts) = {}
      BY <2>1, <2>5 DEF Screen, RelevantReasons
    <3>2. DebianShipped(c) = {}
      BY <2>1, <2>5, <3>1 DEF Screen, RelevantReasons
    <3>3. CASE DebianNotForUs(c)
      BY <2>2, <3>3 DEF DebianNotForUs
    <3>4. CASE ~DebianNotForUs(c)
      <4>1. ASSUME NEW s \in ListedSources(c), NEW r \in Releases,
                   NEW version \in ShippedVersions(r, DebianTarget(s), "inventory")
            PROVE  FALSE
        <5>1. PICK q \in PublishedAs(r, "inventory") :
                 q.source = DebianTarget(s).source
                   /\ q.namespace \in SameAs(DebianTarget(s).namespace)
          BY <4>1 DEF ShippedVersions
        <5>2. PICK i \in MaintainedReleases : q \in PublishedFor(i, "inventory")
          BY DEF PublishedAs
        <5>3. Identity(q) \in inventory
          BY <1>1, <2>1, <5>2 DEF ProjectionsMatchReleases
        <5>4. Identity(q) \in Get(inventory, DebianTarget(s))
          BY <5>1, <5>3, VariantsAreTheSame DEF Get, Identity
        <5>5. DebianTarget(s) \in DebianPURLs(c)
          BY <2>3, <3>4 DEF DebianPURLs
        <5>6. QED
          BY <3>2, <5>4, <5>5 DEF DebianShipped
      <4>2. QED
        BY <4>1
    <3>5. QED
      BY <3>3, <3>4
  <2>6. QED
    BY <2>4, <2>5
<1>2. QED
  BY <1>1, TriageInvariance, RunStoresTheList, RunHasCompleteProjections, PTL

-----------------------------------------------------------------------------
(* One package, and one release.                                           *)

Reasons == {"version-vulnerable", "affected-escalated", "unknown-escalated",
            "version-fixed", "declared-not-affected"}

\* A package is settled by evidence alone, and condemned by a version of Debian alone.
LEMMA PackageIsJudged ==
    ASSUME NEW c, NEW t, NEW version \in Nat, NEW build,
           Sid(c, t.source) \in SidField \cup {[token |-> "no-entry", version |-> 0]}
    PROVE  LET reason == PackageReason(c, t, version, build)
               sid == Sid(c, t.source)
           IN /\ reason \in Reasons
              /\ reason \in {"version-fixed", "declared-not-affected"} <=>
                    \/ c \in build.fixed
                    \/ /\ DebianLineage(build)
                       /\ \/ sid.token = "not-affected"
                          \/ sid.token = "version" /\ version # 0 /\ sid.version <= version
              /\ reason = "version-vulnerable" <=>
                    /\ c \notin build.fixed /\ DebianLineage(build)
                    /\ sid.token = "version" /\ version # 0 /\ version < sid.version
<1> DEFINE sid == Sid(c, t.source)
           reason == PackageReason(c, t, version, build)
           outcome == Resolve(c, t, version, build)
           status == VerdictStatus(sid)
<1>1. reason = CASE outcome = "fixed"             -> "version-fixed"
                 [] outcome = "not-affected"      -> "declared-not-affected"
                 [] outcome = "affected-no-range" -> "affected-escalated"
                 [] outcome = "version-range"     -> EvaluateRange(sid.version, version)
                 [] OTHER                         -> "unknown-escalated"
  BY DEF PackageReason
<1>2. outcome = CASE c \in build.fixed -> "fixed"
                  [] c \notin build.fixed /\ ~DebianLineage(build) -> "undecided"
                  [] OTHER -> CASE status = "fixed"           -> "version-range"
                                [] status = "affected-no-fix" -> "affected-no-range"
                                [] OTHER                      -> status
  BY DEF Resolve
<1>3. status = CASE sid.token = "version"                    -> "fixed"
                 [] sid.token = "not-affected"               -> "not-affected"
                 [] sid.token \in {"unfixed", "end-of-life"} -> "affected-no-fix"
                 [] OTHER                                    -> "undecided"
  BY DEF VerdictStatus
<1>4. sid.token = "version" => sid.version \in Nat
  <2>1. sid \in [token : {"version"}, version : Versions] \/ sid.token \in Tokens \cup {"no-entry"}
    BY DEF SidField
  <2>2. "version" \notin Tokens \cup {"no-entry"}
    BY DEF Tokens
  <2>3. QED
    BY <2>1, <2>2, DebSecTrackerAssumption
<1>5. EvaluateRange(sid.version, version) =
         CASE version = 0                            -> "unknown-escalated"
           [] version # 0 /\ version >= sid.version -> "version-fixed"
           [] OTHER                                  -> "version-vulnerable"
  BY DEF EvaluateRange
<1> HIDE DEF reason, outcome, status, sid
<1>6. CASE c \in build.fixed
  <2>1. reason = "version-fixed"
    BY <1>1, <1>2, <1>6
  <2>2. QED
    BY <1>6, <2>1 DEF Reasons, reason, sid
<1>7. CASE c \notin build.fixed /\ ~DebianLineage(build)
  <2>1. outcome = "undecided"
    BY <1>2, <1>7
  <2>2. reason = "unknown-escalated"
    BY <1>1, <2>1
  <2>3. QED
    BY <1>7, <2>2 DEF Reasons, reason, sid
<1>8. CASE c \notin build.fixed /\ DebianLineage(build)
  <2>1. outcome = CASE status = "fixed"           -> "version-range"
                    [] status = "affected-no-fix" -> "affected-no-range"
                    [] OTHER                      -> status
    BY <1>2, <1>8
  <2>2. CASE sid.token = "version"
    <3>1. status = "fixed"
      BY <1>3, <2>2
    <3>2. outcome = "version-range"
      BY <2>1, <3>1
    <3>3. reason = EvaluateRange(sid.version, version)
      BY <1>1, <3>2
    <3>4. CASE version = 0
      <4>1. reason = "unknown-escalated"
        BY <1>5, <3>3, <3>4
      <4>2. QED
        BY <1>8, <2>2, <3>4, <4>1 DEF Reasons, reason, sid
    <3>5. CASE version # 0 /\ sid.version <= version
      <4>1. reason = "version-fixed"
        BY <1>4, <1>5, <2>2, <3>3, <3>5
      <4>2. ~(version < sid.version)
        BY <1>4, <2>2, <3>5
      <4>3. QED
        BY <1>8, <2>2, <3>5, <4>1, <4>2 DEF Reasons, reason, sid
    <3>6. CASE version # 0 /\ version < sid.version
      <4>1. ~(version >= sid.version) /\ ~(sid.version <= version)
        BY <1>4, <2>2, <3>6
      <4>2. reason = "version-vulnerable"
        BY <1>5, <3>3, <3>6, <4>1
      <4>3. QED
        BY <1>8, <2>2, <3>6, <4>1, <4>2 DEF Reasons, reason, sid
    <3>7. QED
      BY <1>4, <2>2, <3>4, <3>5, <3>6
  <2>3. CASE sid.token = "not-affected"
    <3>1. status = "not-affected"
      BY <1>3, <2>3
    <3>2. outcome = "not-affected"
      BY <2>1, <3>1
    <3>3. reason = "declared-not-affected"
      BY <1>1, <3>2
    <3>4. QED
      BY <1>8, <2>3, <3>3 DEF Reasons, reason, sid
  <2>4. CASE sid.token \in {"unfixed", "end-of-life"}
    <3>1. status = "affected-no-fix"
      BY <1>3, <2>4
    <3>2. outcome = "affected-no-range"
      BY <2>1, <3>1
    <3>3. reason = "affected-escalated"
      BY <1>1, <3>2
    <3>4. QED
      BY <1>8, <2>4, <3>3 DEF Reasons, reason, sid
  <2>5. CASE sid.token \notin {"version", "not-affected", "unfixed", "end-of-life"}
    <3>1. status = "undecided"
      BY <1>3, <2>5
    <3>2. outcome = "undecided"
      BY <2>1, <3>1
    <3>3. reason = "unknown-escalated"
      BY <1>1, <3>2
    <3>4. QED
      BY <1>8, <2>5, <3>3 DEF Reasons, reason, sid
  <2>6. QED
    BY <2>2, <2>3, <2>4, <2>5
<1>9. QED
  BY <1>6, <1>7, <1>8

\* The reason of a release is the worst of those that count for it.
LEMMA CompositeIsWorst ==
    ASSUME NEW f, NEW decision, EffectiveReasons(f, decision) \subseteq Reasons
    PROVE  LET reasons == EffectiveReasons(f, decision)
               composite == CompositeReason(f, decision)
           IN /\ composite = "version-vulnerable" <=> "version-vulnerable" \in reasons
              /\ NeedsEscalation(composite) <=>
                    /\ "version-vulnerable" \notin reasons
                    /\ "affected-escalated" \in reasons \/ "unknown-escalated" \in reasons
              /\ Cleared(composite) <=> reasons \subseteq {"version-fixed", "declared-not-affected"}
<1> DEFINE reasons == EffectiveReasons(f, decision)
           composite == CompositeReason(f, decision)
           ranks == {i \in 1..Len(Ranked) : Ranked[i] \in reasons}
<1>1. /\ Len(Ranked) = 5
      /\ Ranked[1] = "version-vulnerable" /\ Ranked[2] = "affected-escalated"
      /\ Ranked[3] = "unknown-escalated" /\ Ranked[4] = "version-fixed"
      /\ Ranked[5] = "declared-not-affected"
  BY DEF Ranked
<1>2. composite = IF ranks = {} THEN "package-not-shipped"
                  ELSE Ranked[CHOOSE i \in ranks : \A j \in ranks : i <= j]
  BY DEF CompositeReason
<1>3. \A i : i \in ranks <=> i \in {1, 2, 3, 4, 5} /\ Ranked[i] \in reasons
  BY <1>1
<1>4. reasons \subseteq Reasons
  OBVIOUS
<1> HIDE DEF reasons, composite, ranks
<1>5. CASE ranks = {}
  <2>1. composite = "package-not-shipped"
    BY <1>2, <1>5
  <2>2. reasons = {}
    BY <1>1, <1>3, <1>4, <1>5 DEF Reasons
  <2>3. QED
    BY <2>1, <2>2 DEF NeedsEscalation, Cleared, reasons, composite
<1>6. CASE ranks # {}
  <2>1. ranks \in SUBSET Nat
    BY <1>3
  <2>2. PICK x \in ranks : \A y \in ranks : x <= y
    BY <1>6, <2>1, LeastNumber
  <2>3. (CHOOSE i \in ranks : \A j \in ranks : i <= j) = x
    <3>1. \A i \in ranks : (\A j \in ranks : i <= j) => i = x
      BY <2>1, <2>2
    <3>2. QED
      BY <2>2, <3>1
  <2>4. composite = Ranked[x] /\ Ranked[x] \in reasons /\ x \in {1, 2, 3, 4, 5}
    BY <1>2, <1>3, <1>6, <2>2, <2>3
  <2>5. \A y \in {1, 2, 3, 4, 5} : y < x => Ranked[y] \notin reasons
    BY <1>3, <2>2, <2>4
  <2>6. CASE x = 1
    BY <1>1, <2>4, <2>6 DEF NeedsEscalation, Cleared, reasons, composite
  <2>7. CASE x = 2
    <3>1. Ranked[1] \notin reasons
      BY <2>5, <2>7
    <3>2. QED
      BY <1>1, <2>4, <2>7, <3>1 DEF NeedsEscalation, Cleared, reasons, composite
  <2>8. CASE x = 3
    <3>1. Ranked[1] \notin reasons /\ Ranked[2] \notin reasons
      BY <2>5, <2>8
    <3>2. QED
      BY <1>1, <2>4, <2>8, <3>1 DEF NeedsEscalation, Cleared, reasons, composite
  <2>9. CASE x \in {4, 5}
    <3>1. Ranked[1] \notin reasons /\ Ranked[2] \notin reasons /\ Ranked[3] \notin reasons
      BY <2>5, <2>9
    <3>2. reasons \subseteq {"version-fixed", "declared-not-affected"}
      BY <1>1, <1>4, <3>1 DEF Reasons
    <3>3. composite \in {"version-fixed", "declared-not-affected"}
      BY <1>1, <2>4, <2>9
    <3>4. QED
      BY <1>1, <3>1, <3>2, <3>3 DEF NeedsEscalation, Cleared, reasons, composite
  <2>10. QED
    BY <2>4, <2>6, <2>7, <2>8, <2>9
<1>7. QED
  BY <1>5, <1>6

\* What a human's word makes of a package.
LEMMA OverrideIsTaken ==
    ASSUME NEW status \in OverrideStatuses
    PROVE  /\ ReasonForOverride[status] \in Reasons
           /\ ReasonForOverride[status] \in {"version-fixed", "declared-not-affected"} <=>
                 status \in {"fixed", "not-affected"}
           /\ ReasonForOverride[status] = "version-vulnerable" <=> status = "affected"
           /\ ReasonForOverride[status] = "unknown-escalated" <=> status = "unknown"
<1>1. ReasonForOverride[status] = CASE status = "affected"     -> "version-vulnerable"
                                    [] status = "fixed"        -> "version-fixed"
                                    [] status = "not-affected" -> "declared-not-affected"
                                    [] OTHER                   -> "unknown-escalated"
  BY DEF ReasonForOverride
<1>2. status \in {"affected", "fixed", "not-affected", "unknown"}
  BY DEF OverrideStatuses
<1>3. QED
  BY <1>1, <1>2 DEF Reasons

\* The overrides are statuses.
LEMMA OverridesAreStatuses ==
    ASSUME NEW f \in Facts
    PROVE  \A t \in DOMAIN f.overrides : f.overrides[t] \in OverrideStatuses
<1>1. PICK S \in SUBSET Target : f.overrides \in [S -> OverrideStatuses]
  BY DEF Facts
<1>2. QED
  BY <1>1

\* A CVE has decisions about every release or none, each about the targets shipped there,
\* and each as the evidence for the version shipped says.
LEMMA ReleaseIsJudged ==
    ASSUME TriageInv, RowsMatchList, ProjectionsMatchReleases, Judged
    PROVE  /\ facts \in Facts
           /\ DOMAIN decisions \subseteq Releases
           /\ Relevant(facts, screening.reason) => DOMAIN decisions = Releases
           /\ \A r \in DOMAIN decisions :
                /\ DOMAIN decisions[r] = {t \in screening.matched : ShippedVersions(r, t, "index") # {}}
                /\ \A t \in DOMAIN decisions[r] : \A version \in ShippedVersions(r, t, "index") :
                     LET reason == decisions[r][t]
                         build == facts.builds[<<t.source, version>>]
                         sid == ListedSid(facts.cve, t.source)
                     IN /\ reason \in Reasons
                        /\ reason \in {"version-fixed", "declared-not-affected"} <=>
                              /\ screening.reason # "affects-vendored-dependency"
                              /\ Evidence(facts.cve, t, version)
                        /\ reason = "version-vulnerable" <=>
                              /\ screening.reason # "affects-vendored-dependency"
                              /\ facts.cve \notin build.fixed /\ DebianLineage(build)
                              /\ sid.token = "version" /\ version # 0 /\ version < sid.version
<1>1. /\ facts \in Facts /\ feed = "complete" /\ ingest = "committed"
      /\ decisions = Decided(facts, screening)
      /\ DebTypeOK /\ \A r \in DOMAIN index : index[r] \subseteq ShippedSource
  BY DEF TriageInv, JudgedInv, Judged, DebInv, ShippedInv, ShippedTypeOK
<1>2. DOMAIN index = Releases
  BY <1>1 DEF ProjectionsMatchReleases
<1>3. Relevant(facts, screening.reason) => decisions = Assess(facts, screening)
  BY <1>1 DEF Decided
<1>4. ~Relevant(facts, screening.reason) => DOMAIN decisions = {}
  BY <1>1 DEF Decided
<1>5. DOMAIN Assess(facts, screening) = Releases
  BY <1>2 DEF Assess
<1>6. ASSUME NEW r \in DOMAIN decisions
      PROVE  /\ r \in Releases
             /\ DOMAIN decisions[r] = Shipped(r, screening.matched)
             /\ \A t \in Shipped(r, screening.matched) :
                   decisions[r][t] =
                     IF screening.reason = "affects-vendored-dependency" THEN "unknown-escalated"
                     ELSE PackageReason(facts.cve, t, Lookup(r, t),
                                        facts.builds[<<t.source, Lookup(r, t)>>])
  <2>1. decisions = Assess(facts, screening) /\ r \in Releases
    BY <1>3, <1>4, <1>5
  <2>2. decisions[r] = [t \in Shipped(r, screening.matched) |->
            IF screening.reason = "affects-vendored-dependency" THEN "unknown-escalated"
            ELSE PackageReason(facts.cve, t, Lookup(r, t), facts.builds[<<t.source, Lookup(r, t)>>])]
    BY <1>2, <2>1 DEF Assess
  <2>3. QED
    BY <2>1, <2>2
<1>7. ASSUME NEW r \in DOMAIN decisions
      PROVE  DOMAIN decisions[r] = {t \in screening.matched : ShippedVersions(r, t, "index") # {}}
  <2>1. Shipped(r, screening.matched) = {t \in screening.matched : Get(index[r], t) # {}}
    BY DEF Shipped
  <2>2. \A t : Get(index[r], t) # {} <=> ShippedVersions(r, t, "index") # {}
    BY <1>1, <1>6, LookedUpIsShipped
  <2>3. QED
    BY <1>6, <2>1, <2>2
<1>8. ASSUME NEW r \in DOMAIN decisions, NEW t \in DOMAIN decisions[r],
             NEW version \in ShippedVersions(r, t, "index")
      PROVE  LET reason == decisions[r][t]
                 build == facts.builds[<<t.source, version>>]
                 sid == ListedSid(facts.cve, t.source)
             IN /\ reason \in Reasons
                /\ reason \in {"version-fixed", "declared-not-affected"} <=>
                      /\ screening.reason # "affects-vendored-dependency"
                      /\ Evidence(facts.cve, t, version)
                /\ reason = "version-vulnerable" <=>
                      /\ screening.reason # "affects-vendored-dependency"
                      /\ facts.cve \notin build.fixed /\ DebianLineage(build)
                      /\ sid.token = "version" /\ version # 0 /\ version < sid.version
  <2> DEFINE reason == decisions[r][t]
             build == facts.builds[<<t.source, version>>]
             sid == ListedSid(facts.cve, t.source)
             c == facts.cve
  <2>1. Get(index[r], t) # {} /\ version = Lookup(r, t)
    BY <1>1, <1>6, LookedUpIsShipped
  <2>2. version \in Nat
    <3>1. PICK e \in index[r] : version = e.version
      BY <2>1 DEF Lookup, Get
    <3>2. e \in ShippedSource
      BY <1>1, <1>2, <1>6, <3>1
    <3>3. e.version \in PackageVersions \cup {0}
      BY <3>2 DEF ShippedSource
    <3>4. PackageVersions \cup {0} \subseteq Nat
      BY ListingAssumption
    <3>5. e.version \in Nat
      BY <3>3, <3>4, Zenon
    <3>6. QED
      BY <3>1, <3>5, Zenon
  <2>3. sid = Sid(c, t.source)
    BY <1>1, SidIsListed
  <2>4. Sid(c, t.source) \in SidField \cup {[token |-> "no-entry", version |-> 0]}
    BY <1>1, SidType
  <2>5. reason = IF screening.reason = "affects-vendored-dependency" THEN "unknown-escalated"
                 ELSE PackageReason(c, t, version, build)
    BY <1>6, <2>1
  <2>6. Evidence(c, t, version) <=>
           \/ c \in build.fixed
           \/ /\ DebianLineage(build)
              /\ \/ sid.token = "not-affected"
                 \/ sid.token = "version" /\ version # 0 /\ sid.version <= version
    BY DEF Evidence
  <2> HIDE DEF reason, build, sid, c
  <2>7. CASE screening.reason = "affects-vendored-dependency"
    BY <2>5, <2>7 DEF Reasons, reason
  <2>8. CASE screening.reason # "affects-vendored-dependency"
    <3>1. LET judged == PackageReason(c, t, version, build)
          IN /\ judged \in Reasons
             /\ judged \in {"version-fixed", "declared-not-affected"} <=>
                   \/ c \in build.fixed
                   \/ /\ DebianLineage(build)
                      /\ \/ sid.token = "not-affected"
                         \/ sid.token = "version" /\ version # 0 /\ sid.version <= version
             /\ judged = "version-vulnerable" <=>
                   /\ c \notin build.fixed /\ DebianLineage(build)
                   /\ sid.token = "version" /\ version # 0 /\ version < sid.version
      BY <2>2, <2>3, <2>4, PackageIsJudged
    <3>2. reason = PackageReason(c, t, version, build)
      BY <2>5, <2>8
    <3>3. /\ reason \in Reasons
          /\ reason \in {"version-fixed", "declared-not-affected"} <=> Evidence(c, t, version)
          /\ reason = "version-vulnerable" <=>
                /\ c \notin build.fixed /\ DebianLineage(build)
                /\ sid.token = "version" /\ version # 0 /\ version < sid.version
      BY <2>6, <3>1, <3>2
    <3>4. QED
      BY <2>8, <3>3 DEF reason, build, sid, c
  <2>9. QED
    BY <2>7, <2>8
<1>9. DOMAIN decisions \subseteq Releases /\ (Relevant(facts, screening.reason) => DOMAIN decisions = Releases)
  BY <1>3, <1>5, <1>6
<1>10. QED
  BY <1>1, <1>7, <1>8, <1>9

\* The reasons that count for a release: of the packages nobody spoke of, and of those
\* somebody did.
LEMMA ReasonsOfRelease ==
    ASSUME TriageInv, RowsMatchList, ProjectionsMatchReleases, Judged, NEW r \in DOMAIN decisions
    PROVE  LET reasons == EffectiveReasons(facts, decisions[r])
           IN /\ reasons \subseteq Reasons
              /\ \A x : x \in reasons <=>
                    \/ \E t \in DOMAIN facts.overrides : x = ReasonForOverride[facts.overrides[t]]
                    \/ \E t \in screening.matched :
                         /\ t \notin DOMAIN facts.overrides
                         /\ ShippedVersions(r, t, "index") # {} /\ x = decisions[r][t]
<1> DEFINE reasons == EffectiveReasons(facts, decisions[r])
<1>1. /\ DOMAIN decisions[r] = {t \in screening.matched : ShippedVersions(r, t, "index") # {}}
      /\ facts \in Facts
  BY ReleaseIsJudged
<1>2. \A x : x \in reasons <=>
                    \/ \E t \in DOMAIN facts.overrides : x = ReasonForOverride[facts.overrides[t]]
                    \/ \E t \in screening.matched :
                         /\ t \notin DOMAIN facts.overrides
                         /\ ShippedVersions(r, t, "index") # {} /\ x = decisions[r][t]
  BY <1>1 DEF EffectiveReasons
<1>3. \A t \in screening.matched : ShippedVersions(r, t, "index") # {} => decisions[r][t] \in Reasons
  BY <1>1, ReleaseIsJudged
<1>4. \A t \in DOMAIN facts.overrides : ReasonForOverride[facts.overrides[t]] \in Reasons
  BY <1>1, OverridesAreStatuses, OverrideIsTaken
<1> HIDE DEF reasons
<1>5. reasons \subseteq Reasons
  BY <1>2, <1>3, <1>4
<1>6. QED
  BY <1>2, <1>5 DEF reasons

\* A release is cleared only if there is evidence, or a human's word, for every package
\* the CVE was matched to in the version the release ships (affectedness, releasestatus).
THEOREM ClearingNeedsEvidence == Spec => []ClearedOnlyWithEvidence
<1>1. ASSUME TriageInv, RowsMatchList, ProjectionsMatchReleases, Judged,
             NEW r \in DOMAIN decisions, Cleared(CompositeReason(facts, decisions[r])),
             NEW t \in screening.matched, NEW version \in ShippedVersions(r, t, "index")
      PROVE  IF Overridden(t) THEN facts.overrides[t] \in {"fixed", "not-affected"}
             ELSE screening.reason # "affects-vendored-dependency" /\ Evidence(facts.cve, t, version)
  <2> DEFINE reasons == EffectiveReasons(facts, decisions[r])
  <2>1. reasons \subseteq {"version-fixed", "declared-not-affected"}
    BY <1>1, ReasonsOfRelease, CompositeIsWorst
  <2>2. facts \in Facts
    BY <1>1, ReleaseIsJudged
  <2>3. CASE Overridden(t)
    <3>1. t \in DOMAIN facts.overrides
      BY <2>3 DEF Overridden
    <3>2. ReasonForOverride[facts.overrides[t]] \in {"version-fixed", "declared-not-affected"}
      BY <1>1, <2>1, <3>1, ReasonsOfRelease
    <3>3. facts.overrides[t] \in OverrideStatuses
      BY <2>2, <3>1, OverridesAreStatuses
    <3>4. QED
      BY <2>3, <3>2, <3>3, OverrideIsTaken
  <2>4. CASE ~Overridden(t)
    <3>1. decisions[r][t] \in {"version-fixed", "declared-not-affected"}
      BY <1>1, <2>1, <2>4, ReasonsOfRelease DEF Overridden
    <3>2. t \in DOMAIN decisions[r]
      BY <1>1, ReleaseIsJudged
    <3>3. QED
      BY <1>1, <2>4, <3>1, <3>2, ReleaseIsJudged
  <2>5. QED
    BY <2>3, <2>4
<1>2. ASSUME TriageInv, RowsMatchList, ProjectionsMatchReleases
      PROVE  ClearedOnlyWithEvidence
  BY <1>1, <1>2 DEF ClearedOnlyWithEvidence
<1>3. QED
  BY <1>2, TriageInvariance, RunStoresTheList, RunHasCompleteProjections, PTL

\* A release is reported as vulnerable exactly when it ships a matched package below the
\* version that fixes it, or a human said so (releasestatus, assessment's compositeRank).
THEOREM VulnerableReleasesAreReported == Spec => []VulnerableIsReported
<1>1. ASSUME TriageInv, RowsMatchList, ProjectionsMatchReleases, Judged, NEW r \in DOMAIN decisions
      PROVE  CompositeReason(facts, decisions[r]) = "version-vulnerable" <=>
                \/ \E t \in DOMAIN facts.overrides : facts.overrides[t] = "affected"
                \/ \E t \in screening.matched : \E version \in ShippedVersions(r, t, "index") :
                     LET build == facts.builds[<<t.source, version>>]
                         sid == ListedSid(facts.cve, t.source)
                     IN /\ ~Overridden(t)
                        /\ screening.reason # "affects-vendored-dependency"
                        /\ facts.cve \notin build.fixed /\ DebianLineage(build)
                        /\ sid.token = "version" /\ version # 0 /\ version < sid.version
  <2> DEFINE reasons == EffectiveReasons(facts, decisions[r])
             Below(t, version) ==
                LET build == facts.builds[<<t.source, version>>]
                    sid == ListedSid(facts.cve, t.source)
                IN /\ screening.reason # "affects-vendored-dependency"
                   /\ facts.cve \notin build.fixed /\ DebianLineage(build)
                   /\ sid.token = "version" /\ version # 0 /\ version < sid.version
  <2>1. CompositeReason(facts, decisions[r]) = "version-vulnerable" <=> "version-vulnerable" \in reasons
    BY <1>1, ReasonsOfRelease, CompositeIsWorst
  <2>2. "version-vulnerable" \in reasons <=>
           \/ \E t \in DOMAIN facts.overrides : "version-vulnerable" = ReasonForOverride[facts.overrides[t]]
           \/ \E t \in screening.matched :
                /\ t \notin DOMAIN facts.overrides
                /\ ShippedVersions(r, t, "index") # {} /\ "version-vulnerable" = decisions[r][t]
    BY <1>1, ReasonsOfRelease
  <2>3. \A t \in DOMAIN facts.overrides :
           "version-vulnerable" = ReasonForOverride[facts.overrides[t]] <=> facts.overrides[t] = "affected"
    BY <1>1, ReleaseIsJudged, OverridesAreStatuses, OverrideIsTaken
  <2>4. \A t \in screening.matched : \A version \in ShippedVersions(r, t, "index") :
           "version-vulnerable" = decisions[r][t] <=> Below(t, version)
    <3>1. ASSUME NEW t \in screening.matched, NEW version \in ShippedVersions(r, t, "index")
          PROVE  "version-vulnerable" = decisions[r][t] <=> Below(t, version)
      <4>1. t \in DOMAIN decisions[r]
        BY <1>1, ReleaseIsJudged
      <4>2. QED
        BY <1>1, <4>1, ReleaseIsJudged
    <3>2. QED
      BY <3>1
  <2> HIDE DEF reasons, Below
  <2>5. "version-vulnerable" \in reasons <=>
           \/ \E t \in DOMAIN facts.overrides : facts.overrides[t] = "affected"
           \/ \E t \in screening.matched : \E version \in ShippedVersions(r, t, "index") :
                ~Overridden(t) /\ Below(t, version)
    BY <2>2, <2>3, <2>4 DEF Overridden
  <2>6. QED
    BY <2>1, <2>5 DEF Below
<1>2. ASSUME TriageInv, RowsMatchList, ProjectionsMatchReleases
      PROVE  VulnerableIsReported
  BY <1>1, <1>2 DEF VulnerableIsReported
<1>3. QED
  BY <1>2, TriageInvariance, RunStoresTheList, RunHasCompleteProjections, PTL

\* A relevant CVE has a decision for every maintained release, and it asks for a human
\* exactly when no version condemns the release and some package is open (NeedsEscalation).
THEOREM OpenQuestionsAreEscalated == Spec => []OpenQuestionsEscalate
<1>1. ASSUME TriageInv, RowsMatchList, ProjectionsMatchReleases, Judged, NEW r \in DOMAIN decisions
      PROVE  LET reason == CompositeReason(facts, decisions[r])
             IN NeedsEscalation(reason) <=>
                  /\ reason # "version-vulnerable"
                  /\ \/ \E t \in DOMAIN facts.overrides : facts.overrides[t] = "unknown"
                     \/ \E t \in screening.matched \ DOMAIN facts.overrides :
                          \E version \in ShippedVersions(r, t, "index") :
                             \/ screening.reason = "affects-vendored-dependency"
                             \/ ~Evidence(facts.cve, t, version)
  <2> DEFINE reasons == EffectiveReasons(facts, decisions[r])
             reason == CompositeReason(facts, decisions[r])
             Open(t, version) == \/ screening.reason = "affects-vendored-dependency"
                                 \/ ~Evidence(facts.cve, t, version)
             settled == {"version-fixed", "declared-not-affected"}
  <2>1. /\ reason = "version-vulnerable" <=> "version-vulnerable" \in reasons
        /\ NeedsEscalation(reason) <=>
              /\ "version-vulnerable" \notin reasons
              /\ "affected-escalated" \in reasons \/ "unknown-escalated" \in reasons
    BY <1>1, ReasonsOfRelease, CompositeIsWorst
  <2>2. /\ reasons \subseteq Reasons
        /\ \A x : x \in reasons <=>
              \/ \E t \in DOMAIN facts.overrides : x = ReasonForOverride[facts.overrides[t]]
              \/ \E t \in screening.matched :
                   /\ t \notin DOMAIN facts.overrides
                   /\ ShippedVersions(r, t, "index") # {} /\ x = decisions[r][t]
    BY <1>1, ReasonsOfRelease
  <2>3. \A t \in DOMAIN facts.overrides :
           /\ ReasonForOverride[facts.overrides[t]] \in settled \/ facts.overrides[t] = "unknown"
                 \/ ReasonForOverride[facts.overrides[t]] = "version-vulnerable"
           /\ facts.overrides[t] = "unknown" => ReasonForOverride[facts.overrides[t]] \notin settled
    <3>1. ASSUME NEW t \in DOMAIN facts.overrides
          PROVE  /\ ReasonForOverride[facts.overrides[t]] \in settled \/ facts.overrides[t] = "unknown"
                       \/ ReasonForOverride[facts.overrides[t]] = "version-vulnerable"
                 /\ facts.overrides[t] = "unknown" => ReasonForOverride[facts.overrides[t]] \notin settled
      <4>1. facts.overrides[t] \in OverrideStatuses
        BY <1>1, ReleaseIsJudged, OverridesAreStatuses
      <4>2. QED
        BY <4>1, OverrideIsTaken DEF OverrideStatuses
    <3>2. QED
      BY <3>1
  <2>4. \A t \in screening.matched : \A version \in ShippedVersions(r, t, "index") :
           decisions[r][t] \in settled <=> ~Open(t, version)
    <3>1. ASSUME NEW t \in screening.matched, NEW version \in ShippedVersions(r, t, "index")
          PROVE  decisions[r][t] \in settled <=> ~Open(t, version)
      <4>1. t \in DOMAIN decisions[r]
        BY <1>1, ReleaseIsJudged
      <4>2. QED
        BY <1>1, <4>1, ReleaseIsJudged
    <3>2. QED
      BY <3>1
  <2> HIDE DEF reasons, reason, Open
  <2>5. "version-vulnerable" \notin reasons =>
           ("affected-escalated" \in reasons \/ "unknown-escalated" \in reasons
              <=> \E x \in reasons : x \notin settled)
    BY <2>2 DEF Reasons
  <2>6. "version-vulnerable" \notin reasons =>
           ((\E x \in reasons : x \notin settled) <=>
              \/ \E t \in DOMAIN facts.overrides : facts.overrides[t] = "unknown"
              \/ \E t \in screening.matched \ DOMAIN facts.overrides :
                   \E version \in ShippedVersions(r, t, "index") : Open(t, version))
    <3> HIDE DEF settled
    <3> SUFFICES ASSUME "version-vulnerable" \notin reasons
                 PROVE  (\E x \in reasons : x \notin settled) <=>
                          \/ \E t \in DOMAIN facts.overrides : facts.overrides[t] = "unknown"
                          \/ \E t \in screening.matched \ DOMAIN facts.overrides :
                               \E version \in ShippedVersions(r, t, "index") : Open(t, version)
      OBVIOUS
    <3>1. ASSUME NEW x \in reasons, x \notin settled
          PROVE  \/ \E t \in DOMAIN facts.overrides : facts.overrides[t] = "unknown"
                 \/ \E t \in screening.matched \ DOMAIN facts.overrides :
                      \E version \in ShippedVersions(r, t, "index") : Open(t, version)
      BY <2>2, <2>3, <2>4, <3>1
    <3>2. ASSUME NEW t \in DOMAIN facts.overrides, facts.overrides[t] = "unknown"
          PROVE  \E x \in reasons : x \notin settled
      BY <2>2, <2>3, <3>2
    <3>3. ASSUME NEW t \in screening.matched \ DOMAIN facts.overrides,
                 NEW version \in ShippedVersions(r, t, "index"), Open(t, version)
          PROVE  \E x \in reasons : x \notin settled
      BY <2>2, <2>4, <3>3
    <3>4. QED
      BY <3>1, <3>2, <3>3
  <2>7. NeedsEscalation(reason) <=>
          /\ reason # "version-vulnerable"
          /\ \/ \E t \in DOMAIN facts.overrides : facts.overrides[t] = "unknown"
             \/ \E t \in screening.matched \ DOMAIN facts.overrides :
                  \E version \in ShippedVersions(r, t, "index") : Open(t, version)
    BY <2>1, <2>5, <2>6
  <2>8. QED
    BY <2>7 DEF reason, Open
<1>2. ASSUME TriageInv, RowsMatchList, ProjectionsMatchReleases
      PROVE  OpenQuestionsEscalate
  <2>1. ASSUME Judged, Relevant(facts, screening.reason)
        PROVE  DOMAIN decisions = Releases
    BY <1>2, <2>1, ReleaseIsJudged
  <2>2. QED
    BY <1>1, <1>2, <2>1 DEF OpenQuestionsEscalate
<1>3. QED
  BY <1>2, TriageInvariance, RunStoresTheList, RunHasCompleteProjections, PTL
===============================================================================
