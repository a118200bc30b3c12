---------------------------- MODULE InclusionRules ----------------------------
(***************************************************************************)
(* The rules that tie a CVE's identifiers to a package of Garden Linux     *)
(* (internal/glmap): curated ones from config/gl_specific_packages.toml,   *)
(* and those derived from the SBOMs (internal/gardenlinux/vendormap).      *)
(***************************************************************************)
EXTENDS CVEIdentifiers

CONSTANT
    Canonical   \* a PURL |-> its type, namespace and name; others do not parse

ASSUME CanonicalAssumption ==
    /\ DOMAIN Canonical \subseteq STRING
    /\ \A p \in DOMAIN Canonical : /\ Canonical[p] \in DOMAIN Canonical
                                   /\ Canonical[Canonical[p]] = Canonical[p]

Pairs == (DOMAIN Lower) \X (DOMAIN Lower)

Rule == [target : STRING, purls : SUBSET STRING, cpes : SUBSET Pairs, pairs : SUBSET Pairs,
         packages : SUBSET Pairs]

\* A Debian source and the other components it carries.
ShippedBy == [target : STRING, children : Seq([purl : STRING, cpes : SUBSET CPE])]

NoRules == [k \in {} |-> {}]

Key(kind, pair) == <<kind, Lower[pair[1]], Lower[pair[2]]>>

PURLKey(p) == <<"purl", Canonical[p]>>

Canonicalizable(purls) == {p \in purls : p \in DOMAIN Canonical}

RuleKeys(rule) ==
    {Key("vp", p) : p \in rule.pairs} \cup {Key("cpe", p) : p \in rule.cpes}
        \cup {Key("pid", p) : p \in rule.packages}
        \cup {PURLKey(p) : p \in Canonicalizable(rule.purls)}

IsEmptyRule(rule) ==
    rule.purls = {} /\ rule.cpes = {} /\ rule.pairs = {} /\ rule.packages = {}

\* A rule without a target or an identifier, or with a PURL that does not parse,
\* makes the load fail.
Loadable(rule) ==
    /\ {rule.target} \cup rule.purls \subseteq DOMAIN Canonical
    /\ ~IsEmptyRule(rule)

\* Mutant: the last rule for an identifier is the one that counts.
AddLastRule(m, rule) ==
    [k \in DOMAIN m \cup RuleKeys(rule) |->
        IF k \in RuleKeys(rule) THEN {Canonical[rule.target]} ELSE m[k]]

Targets(m, k) == IF k \in DOMAIN m THEN m[k] ELSE {}

\* Mutant: the target is kept as it is written.
AddAsWritten(m, rule) ==
    [k \in DOMAIN m \cup RuleKeys(rule) |->
        Targets(m, k) \cup (IF k \in RuleKeys(rule) THEN {rule.target} ELSE {})]

AddRule(m, rule) ==
    [k \in DOMAIN m \cup RuleKeys(rule) |->
        Targets(m, k) \cup (IF k \in RuleKeys(rule) THEN {Canonical[rule.target]} ELSE {})]

\* Add, one after the other: the order does not show.
NewFromRules(rules) ==
    [k \in UNION {RuleKeys(r) : r \in rules} |->
        {Canonical[r.target] : r \in {q \in rules : k \in RuleKeys(q)}}]

\* Every target of every identifier.
Lookup(m, ids) ==
    LET keys == {Key("vp", p) : p \in ids.pairs}
                \cup {Key("cpe", <<w.vendor, w.product>>) :
                          w \in {v \in Values(ids.wfns) : HasVendorProduct(v)}}
                \cup {Key("pid", p) : p \in ids.packages}
                \cup {PURLKey(p) : p \in Canonicalizable(ids.urls)}
    IN UNION {Targets(m, k) : k \in keys}

-----------------------------------------------------------------------------
(* The rules derived from an SBOM.                                         *)

\* A source whose name makes no PURL ends the run.
Buildable(groups) == \A group \in ToSet(groups) : group.target \in DOMAIN Canonical

\* What else does not parse is left out.
VendoredRule(group) ==
    LET children == ToSet(group.children)
        wfns == {Decoded(c) : c \in {n \in UNION {child.cpes : child \in children} : Parses(n)}}
    IN [target   |-> Canonical[group.target],
        purls    |-> {Canonical[p] : p \in Canonicalizable({child.purl : child \in children})},
        cpes     |-> {<<w.vendor, w.product>> : w \in {v \in wfns : HasVendorProduct(v)}},
        pairs    |-> {},
        packages |-> {}]

\* The rules of one SBOM; those without an identifier are left out.
RulesFromSBOM(groups) ==
    {r \in {VendoredRule(group) : group \in ToSet(groups)} : ~IsEmptyRule(r)}

-----------------------------------------------------------------------------
(* What a rule means, said without keys.                                   *)

SameIgnoringCase(p, q) == Lower[p[1]] = Lower[q[1]] /\ Lower[p[2]] = Lower[q[2]]

SamePackage(p, q) == {p, q} \subseteq DOMAIN Canonical /\ Canonical[p] = Canonical[q]

\* The CVE names something of the rule; of the CPEs it names, wfns count.
AppliesTo(rule, cve, wfns) ==
    \/ \E e \in AffectedEntries(cve) :
         \/ \E p \in VendorProducts(e), q \in rule.pairs : SameIgnoringCase(p, q)
         \/ \E q \in rule.packages : /\ Absent \notin {e.collection, e.package}
                                     /\ SameIgnoringCase(<<e.collection, e.package>>, q)
         \/ \E q \in rule.purls : e.url # Absent /\ SamePackage(e.url, q)
    \/ \E w \in wfns, q \in rule.cpes :
         HasVendorProduct(w) /\ SameIgnoringCase(<<w.vendor, w.product>>, q)

\* The ways to take each CPE that a CVE names in one of its spellings.
Spellings(cve) ==
    LET named == NamedWFNs(cve)
    IN {wfns \in SUBSET named :
           /\ \A w \in named : \E v \in wfns : WFNKey(v) = WFNKey(w)
           /\ \A v, w \in wfns : WFNKey(v) = WFNKey(w) => v = w}
=============================================================================
