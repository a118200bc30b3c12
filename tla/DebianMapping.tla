----------------------------- MODULE DebianMapping -----------------------------
(***************************************************************************)
(* From Debian's past decisions to suggestions for a CVE that Debian has   *)
(* not decided: which identifiers came with which source package           *)
(* (internal/debmap, internal/debmap/filter), and the candidates ranked by *)
(* how often they did (internal/pkgsuggest).                               *)
(***************************************************************************)
EXTENDS CVEIdentifiers, Bags

CONSTANTS
    Identity,        \* a Debian source |-> its identity PURL, if it has one
    Occurrences,     \* <<pattern, text, where>>: the pattern stands there in the text
    RedHat,          \* the two collections of Red Hat that list more than packages
    IdentifierOrder, \* identifiers as strings, in their order
    PackageOrder     \* identity PURLs, in their order

Row == [cve : STRING, package : STRING]

FilterRule == [groups : SUBSET STRING, discardAll : BOOLEAN, prefixes : SUBSET STRING,
               suffixes : SUBSET STRING, contained : SUBSET STRING, equals : SUBSET STRING]

Places == {"prefix", "inside", "suffix"}

\* A text contains itself.
Occurs(text, pattern, places) ==
    pattern = text \/ \E at \in places : <<pattern, text, at>> \in Occurrences

MatchRule(rule, name) ==
    \/ rule.discardAll
    \/ \E p \in rule.prefixes : Occurs(name, p, {"prefix"})
    \/ \E p \in rule.suffixes : Occurs(name, p, {"suffix"})
    \/ \E p \in rule.contained : Occurs(name, p, Places)
    \/ name \in rule.equals

\* Mutant: a rule for all groups is a rule for a group of that name.
DiscardByGroup(rules, group, name) ==
    \E rule \in rules : group \in rule.groups /\ MatchRule(rule, name)

ShouldDiscard(rules, group, name) ==
    \E rule \in rules : {group, "*"} \cap rule.groups # {} /\ MatchRule(rule, name)

\* An identifier as a string.
PairID(p)    == <<"vp", p[1], p[2]>>
PackageID(p) == <<"pid", p[1], p[2]>>
URLID(p)     == <<"purl", p>>
WFNID(w)     == LET f == FormatAsCPE23String(w) IN <<"cpe", f.part, f.vendor, f.product>>

\* Red Hat's collections count for packages of a similar name.
OtherProductOfRedHat(p, package) ==
    p[1] \in RedHat /\ ~Occurs(Lower[p[2]], Lower[package], Places)

\* The identifiers of a CVE that say something about a package it affects.
MatchingIDs(filters, ids, package) ==
    {PairID(p) : p \in {q \in ids.pairs : ~ShouldDiscard(filters.pairs, q[1], q[2])}}
    \cup {WFNID(w) : w \in {v \in Values(ids.wfns) :
              HasVendorProduct(v) /\ ~ShouldDiscard(filters.cpes, v.vendor, v.product)}}
    \cup {PackageID(p) : p \in {q \in ids.packages :
              /\ ~ShouldDiscard(filters.packages, q[1], q[2])
              /\ ~OtherProductOfRedHat(q, package)}}
    \cup {URLID(p) : p \in ids.urls}

\* The counts are a bag of identifiers with the package they came with.
AddMatches(counts, filters, ids, package) ==
    counts (+) SetToBag(MatchingIDs(filters, ids, package) \X {Identity[package]})

-----------------------------------------------------------------------------
(* Suggestions.                                                            *)

At(order, x) == CHOOSE i \in 1..Len(order) : order[i] = x

\* A set in an order, given by its pairs: each member comes after as many as are before it.
Ranked(S, order) ==
    [n \in 1..Cardinality(S) |->
        CHOOSE x \in S : Cardinality({y \in S : <<y, x>> \in order}) = n - 1]

IDs(ids) ==
    {PairID(p) : p \in ids.pairs} \cup {WFNID(w) : w \in Values(ids.wfns)}
        \cup {PackageID(p) : p \in ids.packages} \cup {URLID(p) : p \in ids.urls}

\* The evidence for a package: what matched it, how often.
MatchesFor(counts, ids, package) ==
    {[identifier |-> i, count |-> counts[<<i, package>>]] :
        i \in {j \in IDs(ids) : BagIn(<<j, package>>, counts)}}

MatchBefore(m, n) ==
    \/ m.count > n.count
    \/ /\ m.count = n.count
       /\ At(IdentifierOrder, m.identifier) < At(IdentifierOrder, n.identifier)

PackageBefore(total, q, r) ==
    \/ total[q] > total[r]
    \/ total[q] = total[r] /\ At(PackageOrder, q) < At(PackageOrder, r)

ByCount(matches) == {p \in matches \X matches : MatchBefore(p[1], p[2])}

ByTotal(packages, total) == {p \in packages \X packages : PackageBefore(total, p[1], p[2])}

Total(matches) == MapThenSumSet(LAMBDA m : m.count, matches)

Suggest(counts, ids) ==
    LET packages == {q \in {pair[2] : pair \in DOMAIN counts} : MatchesFor(counts, ids, q) # {}}
        matches(q) == MatchesFor(counts, ids, q)
        total  == [q \in packages |-> Total(matches(q))]
        ranked == Ranked(packages, ByTotal(packages, total))
    IN [i \in DOMAIN ranked |->
           [package |-> ranked[i], matches |-> Ranked(matches(ranked[i]), ByCount(matches(ranked[i])))]]
=============================================================================
