-------------------------- MODULE IdentifierMatching --------------------------
(***************************************************************************)
(* How a run prepares to match CVEs by their identifiers, in the order of  *)
(* cmd/glvd2/pipeline.go: the mapping of Debian's decisions, the curated   *)
(* rules, the rules derived from the SBOMs.  Lookup and Suggest then only  *)
(* read them.                                                              *)
(***************************************************************************)
EXTENDS InclusionRules, DebianMapping

CONSTANTS
    Files,     \* sets of CVE files, each with an id of its own
    Tables,    \* Debian's rows, in the order they are stored
    Filters,   \* the configured noise filters
    Configs,   \* lists of curated rules
    Shipments  \* lists of SBOMs, by what their sources carry

ASSUME MatchingAssumption ==
    /\ \A files \in Files : files \subseteq CVE
                         /\ \A f, g \in files : f.id = g.id => f = g
    /\ \A t \in Tables : t \in Seq(Row)
    /\ Filters \subseteq [{"pairs", "cpes", "packages"} -> SUBSET FilterRule]
    /\ \A c \in Configs : c \in Seq(Rule)
    /\ \A s \in Shipments : s \in Seq(Seq(ShippedBy))

VARIABLES
    files, table, filters, config, sboms,  \* what the run finds
    ids,        \* the identifiers collected from the files
    unread,     \* the rows not yet analysed
    counts,     \* how often an identifier came with a package
    next,       \* the next rule of the config, then the next SBOM
    curated,    \* the curated rules, as they are compiled
    derived,    \* the rules derived from the SBOMs
    vendored,   \* and these, compiled
    phase

found == <<files, table, filters, config, sboms>>
vars == <<found, ids, unread, counts, next, curated, derived, vendored, phase>>

\* One file after the other, in any order: each has its own id.
Collected(fs) ==
    LET map(f) == ProcessCVE(<<>>, f)
        named == {f \in fs : f.id \in DOMAIN map(f)}
    IN [i \in {f.id : f \in named} |-> LET f == CHOOSE g \in named : g.id = i IN map(f)[i]]

\* Strings have an order: that of the identifiers there are, and that of the PURLs.
ASSUME OrderAssumption ==
    /\ \A order \in {IdentifierOrder, PackageOrder} : order \in Seq(ToSet(order))
    /\ \A fs \in Files : \A i \in DOMAIN Collected(fs) :
         IDs(Collected(fs)[i]) \subseteq ToSet(IdentifierOrder)
    /\ \A p \in DOMAIN Identity : Identity[p] \in ToSet(PackageOrder)

Init ==
    /\ files \in Files /\ table \in Tables /\ filters \in Filters
    /\ config \in Configs /\ sboms \in Shipments
    /\ ids = Collected(files)
    /\ unread = DOMAIN table /\ counts = EmptyBag
    /\ next = 1 /\ curated = NoRules /\ derived = {} /\ vendored = NoRules
    /\ phase = "analyze"

-----------------------------------------------------------------------------

\* The query orders nothing: the rows may come in any order.  A row of a CVE without
\* identifiers, or of a package whose name makes no PURL, counts for nothing.
AnalyzeRow(i) ==
    /\ phase = "analyze" /\ i \in unread
    /\ unread' = unread \ {i}
    /\ counts' = IF table[i].cve \in DOMAIN ids /\ table[i].package \in DOMAIN Identity
                 THEN AddMatches(counts, filters, ids[table[i].cve], table[i].package)
                 ELSE counts
    /\ UNCHANGED <<found, ids, next, curated, derived, vendored, phase>>

Analyzed ==
    /\ phase = "analyze" /\ unread = {}
    /\ phase' = "load"
    /\ UNCHANGED <<found, ids, unread, counts, next, curated, derived, vendored>>

LoadRule ==
    /\ phase = "load" /\ next <= Len(config)
    /\ \/ /\ Loadable(config[next])
          /\ curated' = AddRule(curated, config[next]) /\ next' = next + 1
          /\ UNCHANGED phase
       \/ /\ ~Loadable(config[next])
          /\ curated' = NoRules /\ phase' = "failed"
          /\ UNCHANGED next
    /\ UNCHANGED <<found, ids, unread, counts, derived, vendored>>

Loaded ==
    /\ phase = "load" /\ next > Len(config)
    /\ next' = 1 /\ phase' = "feed"
    /\ UNCHANGED <<found, ids, unread, counts, curated, derived, vendored>>

\* The rules appended before the one that cannot be built are lost with the run.
AddSBOM ==
    /\ phase = "feed" /\ next <= Len(sboms)
    /\ \/ /\ Buildable(sboms[next])
          /\ derived' = derived \cup RulesFromSBOM(sboms[next]) /\ next' = next + 1
          /\ UNCHANGED phase
       \/ /\ ~Buildable(sboms[next])
          /\ phase' = "failed"
          /\ UNCHANGED <<derived, next>>
    /\ UNCHANGED <<found, ids, unread, counts, curated, vendored>>

\* All derived rules are compiled at once.  They cannot fail to load: none is empty,
\* and their PURLs have been parsed before.
Result ==
    /\ phase = "feed" /\ next > Len(sboms)
    /\ vendored' = NewFromRules(derived)
    /\ phase' = "ready"
    /\ UNCHANGED <<found, ids, unread, counts, next, curated, derived>>

Next == (\E i \in unread : AnalyzeRow(i)) \/ Analyzed \/ LoadRule \/ Loaded \/ AddSBOM \/ Result

Spec == Init /\ [][Next]_vars

-----------------------------------------------------------------------------
(* Properties.                                                             *)

\* Types.
TypeOK ==
    /\ \A i \in DOMAIN ids : /\ ids[i].pairs \subseteq Pairs /\ ids[i].packages \subseteq Pairs
                             /\ DOMAIN ids[i].wfns \subseteq WFN /\ Values(ids[i].wfns) \subseteq WFN
    /\ unread \subseteq DOMAIN table
    /\ IsABag(counts) /\ \A pair \in DOMAIN counts : pair[2] \in {Identity[p] : p \in DOMAIN Identity}
    /\ next \in 1..(Len(config) + Len(sboms) + 1)
    /\ \A m \in {curated, vendored} : \A k \in DOMAIN m :
         m[k] \subseteq {Canonical[p] : p \in DOMAIN Canonical} /\ m[k] # {}
    /\ derived \subseteq Rule /\ \A r \in derived : Loadable(r)
    /\ phase \in {"analyze", "load", "feed", "ready", "failed"}

IDsOf(cve) == Existing(ids, cve.id)

\* The rule an SBOM's group amounts to, said without a normal form.
Carries(group, cve, wfns) ==
    \E child \in ToSet(group.children) :
        \/ \E e \in AffectedEntries(cve) : e.url # Absent /\ SamePackage(e.url, child.purl)
        \/ \E w \in wfns, c \in child.cpes :
             /\ Parses(c) /\ HasVendorProduct(w) /\ HasVendorProduct(Decoded(c))
             /\ SameIgnoringCase(<<w.vendor, w.product>>,
                                 <<Decoded(c).vendor, Decoded(c).product>>)

\* Both directions of the mapping: a CVE leads to the target of every rule, and every
\* source of every SBOM, that names something it affects, in whatever case and in
\* whichever container it does so, and to no other.  Several rules for one identifier
\* add up, and no run goes on with a part of the rules.  Of a CPE that a CVE spells in
\* several ways exactly one spelling counts, the same one for both kinds of rules.
LookupMatchesRules ==
    phase = "ready" =>
        /\ \A i \in 1..Len(config) : Loadable(config[i])
        /\ \A i \in 1..Len(sboms) : Buildable(sboms[i])
        /\ \A cve \in files : \E wfns \in Spellings(cve) :
             LET rules  == {r \in ToSet(config) : AppliesTo(r, cve, wfns)}
                 groups == {g \in UNION {ToSet(sboms[i]) : i \in 1..Len(sboms)} :
                               Carries(g, cve, wfns)}
             IN /\ Lookup(curated, IDsOf(cve)) = {Canonical[r.target] : r \in rules}
                /\ Lookup(vendored, IDsOf(cve)) = {Canonical[g.target] : g \in groups}

\* Is this identifier of the CVE noise for the package?
Silenced(rules, group, name) ==
    \E r \in rules : (group \in r.groups \/ "*" \in r.groups) /\ MatchRule(r, name)

Noise(i, cve, package) ==
    CASE i[1] = "vp"  -> Silenced(filters.pairs, i[2], i[3])
      [] i[1] = "pid" -> \/ Silenced(filters.packages, i[2], i[3])
                         \/ i[2] \in RedHat /\ ~Occurs(Lower[i[3]], Lower[package], Places)
      [] i[1] = "cpe" -> \E w \in Values(IDsOf(cve).wfns) :
                            /\ WFNID(w) = i
                            /\ \/ {AnyValue, NoValue} \cap {w.vendor, w.product} # {}
                               \/ Silenced(filters.cpes, w.vendor, w.product)
      [] OTHER -> FALSE

\* The rows that speak for a package by an identifier.
RowsFor(i, p) ==
    {n \in DOMAIN table :
        LET source == table[n].package IN
        /\ source \in DOMAIN Identity /\ Identity[source] = p
        /\ \E f \in files : /\ f.id = table[n].cve
                            /\ i \in IDs(IDsOf(f)) /\ ~Noise(i, f, source)}

Suggestion(cve) == Suggest(counts, IDsOf(cve))

\* Whatever order the rows came in, the suggestions for a CVE are the packages that
\* Debian has found affected by an identifier of it that is not noise, each once, with
\* exactly these identifiers and the number of rows behind each; the one with the most
\* rows comes first, and no two runs over the same rows differ.
SuggestionsMatchHistory ==
    phase = "ready" =>
        \A cve \in files :
            LET s == Suggestion(cve)
                evidence(p) == {[identifier |-> i, count |-> Cardinality(RowsFor(i, p))] :
                                   i \in {j \in IDs(IDsOf(cve)) : RowsFor(j, p) # {}}}
                weight(n) == Total(evidence(s[n].package))
            IN /\ {s[n].package : n \in DOMAIN s} =
                     {p \in {Identity[q] : q \in DOMAIN Identity} : evidence(p) # {}}
               /\ \A n \in DOMAIN s :
                    LET m == s[n].matches
                    IN /\ ToSet(m) = evidence(s[n].package) /\ IsInjective(m)
                       /\ \A j, k \in DOMAIN m : j < k =>
                            \/ m[j].count > m[k].count
                            \/ /\ m[j].count = m[k].count
                               /\ At(IdentifierOrder, m[j].identifier)
                                    < At(IdentifierOrder, m[k].identifier)
               /\ \A j, k \in DOMAIN s : j < k =>
                    \/ weight(j) > weight(k)
                    \/ /\ weight(j) = weight(k)
                       /\ At(PackageOrder, s[j].package) < At(PackageOrder, s[k].package)

\* "The identifier sets across all rules must be disjoint; this is validated at load."
\* (config/gl_specific_packages.toml)
RulesAreDisjoint ==
    phase \in {"feed", "ready"} =>
        \A i, j \in 1..Len(config) : i # j => RuleKeys(config[i]) \cap RuleKeys(config[j]) = {}
=============================================================================
