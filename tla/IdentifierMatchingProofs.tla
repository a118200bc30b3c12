----------------------- MODULE IdentifierMatchingProofs -----------------------
(***************************************************************************)
(* What the rules lead to and what Debian's rows suggest, proved for every *)
(* set of CVEs, every config, every SBOM and every table.                  *)
(*                                                                         *)
(* Rules and identifiers meet in keys.  A key a CVE has in common with a   *)
(* rule is something that both name, in the spellings that are kept of the *)
(* CVE's CPEs (SharedKey, KeptAreSpellings), and a lookup finds the        *)
(* targets of the rules that have a key in common (LookupFinds).  The      *)
(* invariant says which rules are compiled so far (RulesInv).              *)
(*                                                                         *)
(* A count is the number of rows that added a pair, in whatever order they *)
(* came (CountsInv), and a suggestion is made of these numbers alone       *)
(* (CountsAreEvidence).  Its two rankings put each package and each match  *)
(* behind as many as come before it, which under an order without ties is  *)
(* a list of all of them (RankedInOrder).                                  *)
(***************************************************************************)
EXTENDS IdentifierMatching, CVEIdentifiersProofs

-----------------------------------------------------------------------------
(* Types.                                                                  *)

\* A name is decoded to a WFN.
LEMMA DecodedIsWFN ==
    ASSUME NEW c \in CPE
    PROVE  Decoded(c) \in WFN
<1>1. \A a \in Attributes : c[a] \in DOMAIN Lower
  BY DEF CPE, Attributes
<1>2. \A t \in DOMAIN Lower : DecodeAV22(t) \in DOMAIN Lower /\ DecodeAV23(t) \in DOMAIN Lower
  BY CPEAssumption DEF DecodeAV22, DecodeAV23
<1>3. QED
  BY <1>1, <1>2 DEF Decoded, WFN

\* The vendor and the product of a WFN, and its key.
LEMMA AttributesOfWFN ==
    ASSUME NEW w \in WFN
    PROVE  /\ w.vendor \in DOMAIN Lower /\ w.product \in DOMAIN Lower
           /\ <<w.vendor, w.product>> \in Pairs /\ WFNKey(w) \in WFN
<1>1. \A a \in Attributes : w[a] \in DOMAIN Lower
  BY DEF WFN
<1>2. w.vendor \in DOMAIN Lower /\ w.product \in DOMAIN Lower
  BY <1>1 DEF Attributes
<1>3. \A t \in DOMAIN Lower : Lower[Bound[t]] \in DOMAIN Lower
  BY CPEAssumption
<1>4. WFNKey(w) \in WFN
  BY <1>1, <1>3 DEF WFNKey, WFN
<1>5. QED
  BY <1>2, <1>4 DEF Pairs

\* The entries of a CVE.
LEMMA EntriesOfCVE ==
    ASSUME NEW cve \in CVE
    PROVE  AffectedEntries(cve) \subseteq AffectedEntry
<1> DEFINE Container == [affected : Seq(AffectedEntry), criteria : Seq(CPE)]
           containers == cve.containers
<1>1. containers \in Seq(Container)
  BY DEF CVE
<1> HIDE DEF Container, containers
<1>2. ASSUME NEW i \in DOMAIN containers
      PROVE  ToSet(containers[i].affected) \subseteq AffectedEntry
  <2>1. containers[i] \in Container
    BY <1>1
  <2>2. containers[i].affected \in Seq(AffectedEntry)
    BY <2>1 DEF Container
  <2>3. QED
    BY <2>2 DEF ToSet
<1>3. QED
  BY <1>2 DEF AffectedEntries, containers

\* The criteria of a CVE.
LEMMA CriteriaOfCVE ==
    ASSUME NEW cve \in CVE, NEW i \in DOMAIN cve.containers
    PROVE  ToSet(cve.containers[i].criteria) \subseteq CPE
<1> DEFINE Container == [affected : Seq(AffectedEntry), criteria : Seq(CPE)]
           containers == cve.containers
<1>1. containers \in Seq(Container)
  BY DEF CVE
<1> HIDE DEF Container, containers
<1>2. containers[i] \in Container
  BY <1>1 DEF containers
<1>3. containers[i].criteria \in Seq(CPE)
  BY <1>2 DEF Container
<1>4. QED
  BY <1>3 DEF ToSet, containers

\* The WFNs of a CVE.
LEMMA WFNsOfCVE ==
    ASSUME NEW cve \in CVE
    PROVE  NamedWFNs(cve) \subseteq WFN
<1> DEFINE names == (UNION {ToSet(e.cpes) : e \in AffectedEntries(cve)})
                    \cup (UNION {ToSet(cve.containers[i].criteria) : i \in DOMAIN cve.containers})
<1>1. ASSUME NEW e \in AffectedEntries(cve)
      PROVE  ToSet(e.cpes) \subseteq CPE
  <2>1. e.cpes \in Seq(CPE)
    BY EntriesOfCVE DEF AffectedEntry
  <2>2. QED
    BY <2>1 DEF ToSet
<1>2. names \subseteq CPE
  BY <1>1, CriteriaOfCVE
<1>3. NamedWFNs(cve) = {Decoded(c) : c \in {n \in names : Parses(n)}}
  BY DEF NamedWFNs
<1> HIDE DEF names
<1>4. QED
  BY <1>2, <1>3, DecodedIsWFN

\* What an entry says.
LEMMA PairsOfEntry ==
    ASSUME NEW e \in AffectedEntry
    PROVE  /\ VendorProducts(e) \subseteq Pairs
           /\ <<e.collection, e.package>> \in Pairs
<1>1. /\ e.vendor \in DOMAIN Normalized /\ e.product \in DOMAIN Normalized
      /\ e.collection \in DOMAIN Lower /\ e.package \in DOMAIN Lower
  BY DEF AffectedEntry
<1>2. Normalized[e.vendor] \in DOMAIN Lower /\ Normalized[e.product] \in DOMAIN Lower
  BY <1>1, NormalizedAssumption
<1>3. QED
  BY <1>1, <1>2 DEF VendorProducts, Pairs

-----------------------------------------------------------------------------
(* Keys.                                                                   *)

IDKeys(given) ==
    {Key("vp", p) : p \in given.pairs}
    \cup {Key("cpe", <<w.vendor, w.product>>) :
              w \in {v \in Values(given.wfns) : HasVendorProduct(v)}}
    \cup {Key("pid", p) : p \in given.packages}
    \cup {PURLKey(p) : p \in Canonicalizable(given.urls)}

KeysOf(kind, P) == {Key(kind, p) : p \in P}
PURLKeysOf(P)   == {PURLKey(p) : p \in Canonicalizable(P)}

\* Keys of one kind are the same for what is the same but for its case.
LEMMA KeysMeet ==
    ASSUME NEW kind, NEW P, NEW Q
    PROVE  KeysOf(kind, P) \cap KeysOf(kind, Q) # {}
             <=> \E p \in P, q \in Q : SameIgnoringCase(p, q)
<1>1. ASSUME NEW p \in P, NEW q \in Q
      PROVE  Key(kind, p) = Key(kind, q) <=> SameIgnoringCase(p, q)
  BY DEF Key, SameIgnoringCase
<1>2. KeysOf(kind, P) \cap KeysOf(kind, Q) # {}
        <=> \E p \in P, q \in Q : Key(kind, p) = Key(kind, q)
  BY DEF KeysOf
<1>3. QED
  BY <1>1, <1>2

LEMMA PURLKeysMeet ==
    ASSUME NEW P, NEW Q
    PROVE  PURLKeysOf(P) \cap PURLKeysOf(Q) # {}
             <=> \E p \in P, q \in Q : SamePackage(p, q)
<1>1. ASSUME NEW p \in P, NEW q \in Q
      PROVE  PURLKey(p) = PURLKey(q) <=> Canonical[p] = Canonical[q]
  BY DEF PURLKey
<1>2. PURLKeysOf(P) \cap PURLKeysOf(Q) # {}
        <=> \E p \in Canonicalizable(P), q \in Canonicalizable(Q) : PURLKey(p) = PURLKey(q)
  BY DEF PURLKeysOf
<1>3. QED
  BY <1>1, <1>2 DEF Canonicalizable, SamePackage

\* A key has a kind.
LEMMA KindOfKeys ==
    ASSUME NEW kind, NEW P
    PROVE  \A k \in KeysOf(kind, P) : k[1] = kind
BY DEF Key, KeysOf

LEMMA KindOfPURLKeys ==
    ASSUME NEW P
    PROVE  \A k \in PURLKeysOf(P) : k[1] = "purl"
BY DEF PURLKey, PURLKeysOf

\* Identifiers and a rule have a key in common if they have one of some kind.
SharedPair(given, rule)    == \E p \in given.pairs, q \in rule.pairs : SameIgnoringCase(p, q)
SharedPackage(given, rule) == \E p \in given.packages, q \in rule.packages : SameIgnoringCase(p, q)
SharedURL(given, rule)     == \E p \in given.urls, q \in rule.purls : SamePackage(p, q)
SharedCPE(given, rule)     ==
    \E w \in Values(given.wfns), q \in rule.cpes :
        HasVendorProduct(w) /\ SameIgnoringCase(<<w.vendor, w.product>>, q)

LEMMA SharedKinds ==
    ASSUME NEW given, NEW rule
    PROVE  IDKeys(given) \cap RuleKeys(rule) # {}
             <=> \/ SharedPair(given, rule) \/ SharedPackage(given, rule)
                 \/ SharedURL(given, rule) \/ SharedCPE(given, rule)
<1> DEFINE A1 == KeysOf("vp", given.pairs)
           CPEs == {<<w.vendor, w.product>> : w \in {v \in Values(given.wfns) : HasVendorProduct(v)}}
           A2 == KeysOf("cpe", CPEs)
           A3 == KeysOf("pid", given.packages)
           A4 == PURLKeysOf(given.urls)
           B1 == KeysOf("vp", rule.pairs)
           B2 == KeysOf("cpe", rule.cpes)
           B3 == KeysOf("pid", rule.packages)
           B4 == PURLKeysOf(rule.purls)
<1>1. IDKeys(given) = A1 \cup A2 \cup A3 \cup A4 /\ RuleKeys(rule) = B1 \cup B2 \cup B3 \cup B4
  BY DEF IDKeys, RuleKeys, KeysOf, PURLKeysOf
<1>2. /\ \A k \in A1 \cup B1 : k[1] = "vp"
      /\ \A k \in A2 \cup B2 : k[1] = "cpe"
      /\ \A k \in A3 \cup B3 : k[1] = "pid"
      /\ \A k \in A4 \cup B4 : k[1] = "purl"
  <2>1. (\A k \in A1 : k[1] = "vp") /\ (\A k \in B1 : k[1] = "vp")
    BY KindOfKeys
  <2>2. (\A k \in A2 : k[1] = "cpe") /\ (\A k \in B2 : k[1] = "cpe")
    BY KindOfKeys
  <2>3. (\A k \in A3 : k[1] = "pid") /\ (\A k \in B3 : k[1] = "pid")
    BY KindOfKeys
  <2>4. (\A k \in A4 : k[1] = "purl") /\ (\A k \in B4 : k[1] = "purl")
    BY KindOfPURLKeys
  <2> HIDE DEF A1, A2, A3, A4, B1, B2, B3, B4
  <2>5. QED
    BY <2>1, <2>2, <2>3, <2>4
<1>3. A1 \cap B1 # {} <=> SharedPair(given, rule)
  BY KeysMeet DEF SharedPair
<1>4. A2 \cap B2 # {} <=> SharedCPE(given, rule)
  <2>1. A2 \cap B2 # {} <=> \E p \in CPEs, q \in rule.cpes : SameIgnoringCase(p, q)
    <3> HIDE DEF CPEs
    <3>1. QED
      BY KeysMeet
  <2>2. QED
    BY <2>1 DEF SharedCPE
<1>5. A3 \cap B3 # {} <=> SharedPackage(given, rule)
  BY KeysMeet DEF SharedPackage
<1>6. A4 \cap B4 # {} <=> SharedURL(given, rule)
  BY PURLKeysMeet DEF SharedURL
<1> HIDE DEF A1, A2, A3, A4, B1, B2, B3, B4
<1>7. (A1 \cup A2 \cup A3 \cup A4) \cap (B1 \cup B2 \cup B3 \cup B4) # {}
        <=> A1 \cap B1 # {} \/ A2 \cap B2 # {} \/ A3 \cap B3 # {} \/ A4 \cap B4 # {}
  <2>1. A1 \cap (B2 \cup B3 \cup B4) = {} /\ A2 \cap (B1 \cup B3 \cup B4) = {}
    BY <1>2
  <2>2. A3 \cap (B1 \cup B2 \cup B4) = {} /\ A4 \cap (B1 \cup B2 \cup B3) = {}
    BY <1>2
  <2>3. QED
    BY <2>1, <2>2
<1>8. QED
  BY <1>1, <1>3, <1>4, <1>5, <1>6, <1>7

-----------------------------------------------------------------------------
(* What a key in common means for a CVE.                                   *)

\* What a CVE has in common with a rule, by what it names.
NamesPair(rule, cve) ==
    \E e \in AffectedEntries(cve) :
        \E p \in VendorProducts(e), q \in rule.pairs : SameIgnoringCase(p, q)
NamesPackage(rule, cve) ==
    \E e \in AffectedEntries(cve) :
        \E q \in rule.packages : /\ Absent \notin {e.collection, e.package}
                                 /\ SameIgnoringCase(<<e.collection, e.package>>, q)
NamesURL(rule, cve) ==
    \E e \in AffectedEntries(cve) :
        \E q \in rule.purls : e.url # Absent /\ SamePackage(e.url, q)
NamesCPE(rule, wfns) ==
    \E w \in wfns, q \in rule.cpes :
        HasVendorProduct(w) /\ SameIgnoringCase(<<w.vendor, w.product>>, q)

LEMMA AppliesByKind ==
    ASSUME NEW rule, NEW cve, NEW wfns
    PROVE  AppliesTo(rule, cve, wfns) <=> \/ NamesPair(rule, cve) \/ NamesPackage(rule, cve)
                                          \/ NamesURL(rule, cve) \/ NamesCPE(rule, wfns)
BY Zenon DEF AppliesTo, NamesPair, NamesPackage, NamesURL, NamesCPE

\* The WFNs that are kept of a CVE are one spelling of each CPE it names.
LEMMA KeptAreSpellings ==
    ASSUME NEW cve, NEW map, IsMapOf(map, NamedWFNs(cve))
    PROVE  Values(map) \in Spellings(cve)
<1> DEFINE W == NamedWFNs(cve)
<1>1. DOMAIN map = {WFNKey(w) : w \in W} /\ \A k \in DOMAIN map : map[k] \in W /\ WFNKey(map[k]) = k
  BY DEF IsMapOf
<1> HIDE DEF W
<1>2. Values(map) \in SUBSET W
  BY <1>1 DEF Values
<1>3. \A w \in W : \E v \in Values(map) : WFNKey(v) = WFNKey(w)
  BY <1>1 DEF Values
<1>4. \A v, w \in Values(map) : WFNKey(v) = WFNKey(w) => v = w
  BY <1>1 DEF Values
<1>5. QED
  BY <1>2, <1>3, <1>4 DEF Spellings, W

\* A key in common is something that both name, in the spellings that are kept.
LEMMA SharedKey ==
    ASSUME NEW cve \in CVE, NEW given, NEW rule,
           Holds(given, AffectedEntries(cve), NamedWFNs(cve))
    PROVE  IDKeys(given) \cap RuleKeys(rule) # {} <=> AppliesTo(rule, cve, Values(given.wfns))
<1> DEFINE E == AffectedEntries(cve)
<1>1. given.pairs = PairsOf(E) /\ given.packages = PackagesOf(E) /\ given.urls = URLsOf(E)
  BY DEF Holds
<1>2. SharedPair(given, rule) <=> NamesPair(rule, cve)
  BY <1>1 DEF SharedPair, NamesPair, PairsOf
<1>3. SharedPackage(given, rule) <=> NamesPackage(rule, cve)
  BY <1>1 DEF SharedPackage, NamesPackage, PackagesOf
<1>4. SharedURL(given, rule) <=> NamesURL(rule, cve)
  BY <1>1 DEF SharedURL, NamesURL, URLsOf
<1>5. SharedCPE(given, rule) <=> NamesCPE(rule, Values(given.wfns))
  BY DEF SharedCPE, NamesCPE
<1> HIDE DEF E
<1>6. QED
  BY <1>2, <1>3, <1>4, <1>5, SharedKinds, AppliesByKind

-----------------------------------------------------------------------------
(* Rules as they are compiled.                                             *)

TargetsOf(rules) == {Canonical[r.target] : r \in rules}

\* A rule more adds to the rules compiled.
LEMMA AddedRule ==
    ASSUME NEW R, NEW r
    PROVE  AddRule(NewFromRules(R), r) = NewFromRules(R \cup {r})
<1> DEFINE m == NewFromRules(R)
           n == NewFromRules(R \cup {r})
           a == AddRule(m, r)
<1>1. /\ m = [k \in DOMAIN m |-> m[k]] /\ DOMAIN m = UNION {RuleKeys(q) : q \in R}
      /\ \A k \in DOMAIN m : m[k] = TargetsOf({q \in R : k \in RuleKeys(q)})
  BY DEF NewFromRules, TargetsOf
<1>2. /\ n = [k \in DOMAIN n |-> n[k]] /\ DOMAIN n = UNION {RuleKeys(q) : q \in R \cup {r}}
      /\ \A k \in DOMAIN n : n[k] = TargetsOf({q \in R \cup {r} : k \in RuleKeys(q)})
  BY DEF NewFromRules, TargetsOf
<1> HIDE DEF m, n
<1>3. /\ a = [k \in DOMAIN a |-> a[k]] /\ DOMAIN a = DOMAIN m \cup RuleKeys(r)
      /\ \A k \in DOMAIN a :
           a[k] = Targets(m, k) \cup (IF k \in RuleKeys(r) THEN {Canonical[r.target]} ELSE {})
  BY DEF AddRule
<1> HIDE DEF a
<1>4. DOMAIN a = DOMAIN n
  BY <1>1, <1>2, <1>3
<1>5. \A k \in DOMAIN n : a[k] = n[k]
  <2> SUFFICES ASSUME NEW k \in DOMAIN n
               PROVE  a[k] = n[k]
    OBVIOUS
  <2>1. Targets(m, k) = TargetsOf({q \in R : k \in RuleKeys(q)})
    BY <1>1 DEF Targets, TargetsOf
  <2>2. {q \in R \cup {r} : k \in RuleKeys(q)}
          = {q \in R : k \in RuleKeys(q)} \cup {q \in {r} : k \in RuleKeys(q)}
    OBVIOUS
  <2>3. a[k] = Targets(m, k) \cup (IF k \in RuleKeys(r) THEN {Canonical[r.target]} ELSE {})
    BY <1>3, <1>4
  <2>4. n[k] = TargetsOf({q \in R \cup {r} : k \in RuleKeys(q)})
    BY <1>2
  <2>5. TargetsOf({q \in R : k \in RuleKeys(q)} \cup {q \in {r} : k \in RuleKeys(q)})
          = TargetsOf({q \in R : k \in RuleKeys(q)})
            \cup (IF k \in RuleKeys(r) THEN {Canonical[r.target]} ELSE {})
    BY DEF TargetsOf
  <2>6. QED
    BY <2>1, <2>2, <2>3, <2>4, <2>5
<1>6. a = n
  BY <1>2, <1>3, <1>4, <1>5
<1>7. QED
  BY <1>6 DEF a, n, m

\* None are compiled to none.
LEMMA NoRulesCompiled == NoRules = NewFromRules({})
BY DEF NoRules, NewFromRules

\* A lookup finds the targets of the rules that have a key in common with the identifiers.
LEMMA LookupFinds ==
    ASSUME NEW R, NEW given
    PROVE  Lookup(NewFromRules(R), given)
             = TargetsOf({r \in R : IDKeys(given) \cap RuleKeys(r) # {}})
<1> DEFINE m == NewFromRules(R)
<1>1. \A k : Targets(m, k) = TargetsOf({r \in R : k \in RuleKeys(r)})
  BY DEF NewFromRules, Targets, TargetsOf
<1> HIDE DEF m
<1>2. Lookup(m, given) = UNION {Targets(m, k) : k \in IDKeys(given)}
  BY DEF Lookup, IDKeys
<1>3. QED
  BY <1>1, <1>2 DEF TargetsOf, m

\* And so the targets of the rules that name something the CVE affects.
LEMMA LookupLeads ==
    ASSUME NEW cve \in CVE, NEW given, Holds(given, AffectedEntries(cve), NamedWFNs(cve)), NEW R
    PROVE  Lookup(NewFromRules(R), given)
             = TargetsOf({r \in R : AppliesTo(r, cve, Values(given.wfns))})
<1>1. {r \in R : IDKeys(given) \cap RuleKeys(r) # {}}
        = {r \in R : AppliesTo(r, cve, Values(given.wfns))}
  BY SharedKey
<1>2. QED
  BY <1>1, LookupFinds

-----------------------------------------------------------------------------
(* Rules derived from an SBOM.                                             *)

\* The rule derived from what a source carries is a rule, and names what is carried.
LEMMA VendoredRuleMeans ==
    ASSUME NEW g \in ShippedBy, g.target \in DOMAIN Canonical
    PROVE  /\ VendoredRule(g) \in Rule /\ VendoredRule(g).target = Canonical[g.target]
           /\ {VendoredRule(g).target} \cup VendoredRule(g).purls \subseteq DOMAIN Canonical
           /\ \A cve \in CVE : \A W : AppliesTo(VendoredRule(g), cve, W) <=> Carries(g, cve, W)
<1> DEFINE r == VendoredRule(g)
           children == ToSet(g.children)
           names == {n \in UNION {child.cpes : child \in children} : Parses(n)}
           wfns == {Decoded(c) : c \in names}
<1>1. \A child \in children : child \in [purl : STRING, cpes : SUBSET CPE]
  <2> DEFINE Child == [purl : STRING, cpes : SUBSET CPE]
             carried == g.children
  <2>1. carried \in Seq(Child)
    BY DEF ShippedBy
  <2> HIDE DEF Child, carried
  <2>2. \A child \in ToSet(carried) : child \in Child
    BY <2>1 DEF ToSet
  <2>3. QED
    BY <2>2 DEF Child, carried
<1>2. /\ r = [target |-> r.target, purls |-> r.purls, cpes |-> r.cpes,
              pairs |-> r.pairs, packages |-> r.packages]
      /\ r.target = Canonical[g.target] /\ r.pairs = {} /\ r.packages = {}
      /\ r.purls = {Canonical[p] : p \in Canonicalizable({child.purl : child \in children})}
      /\ r.cpes = {<<w.vendor, w.product>> : w \in {v \in wfns : HasVendorProduct(v)}}
  BY DEF VendoredRule
<1> HIDE DEF r
<1>3. \A n \in names : n \in CPE
  BY <1>1
<1>4. wfns \subseteq WFN
  BY <1>3, DecodedIsWFN
<1>5. r.cpes \subseteq Pairs
  BY <1>2, <1>4, AttributesOfWFN
<1>6. r.purls \subseteq DOMAIN Canonical
  BY <1>2, CanonicalAssumption DEF Canonicalizable
<1>7. r \in Rule
  <2>1. r.target \in STRING /\ r.purls \subseteq STRING
    BY <1>2, <1>6, CanonicalAssumption
  <2>2. QED
    BY <1>2, <1>5, <2>1 DEF Rule
<1>8. ASSUME NEW cve \in CVE, NEW W
      PROVE  AppliesTo(r, cve, W) <=> Carries(g, cve, W)
  <2> DEFINE CarriesURL == \E child \in children, e \in AffectedEntries(cve) :
                              e.url # Absent /\ SamePackage(e.url, child.purl)
             CarriesCPE == \E child \in children, w \in W : \E c \in child.cpes :
                /\ Parses(c) /\ HasVendorProduct(w) /\ HasVendorProduct(Decoded(c))
                /\ SameIgnoringCase(<<w.vendor, w.product>>,
                                    <<Decoded(c).vendor, Decoded(c).product>>)
  <2>1. ~NamesPair(r, cve) /\ ~NamesPackage(r, cve)
    BY <1>2 DEF NamesPair, NamesPackage
  <2>2. NamesURL(r, cve) <=> CarriesURL
    <3>1. \A e \in AffectedEntries(cve) : \A child \in children :
            child.purl \in DOMAIN Canonical =>
              (SamePackage(e.url, Canonical[child.purl]) <=> SamePackage(e.url, child.purl))
      BY CanonicalAssumption DEF SamePackage
    <3>2. ASSUME NamesURL(r, cve)
          PROVE  CarriesURL
      <4>1. PICK e \in AffectedEntries(cve), q \in r.purls : e.url # Absent /\ SamePackage(e.url, q)
        BY <3>2 DEF NamesURL
      <4>2. PICK child \in children : child.purl \in DOMAIN Canonical /\ q = Canonical[child.purl]
        BY <1>2 DEF Canonicalizable
      <4>3. QED
        BY <3>1, <4>1, <4>2
    <3>3. ASSUME CarriesURL
          PROVE  NamesURL(r, cve)
      <4>1. PICK child \in children, e \in AffectedEntries(cve) :
              e.url # Absent /\ SamePackage(e.url, child.purl)
        BY <3>3
      <4>2. child.purl \in DOMAIN Canonical
        BY <4>1 DEF SamePackage
      <4>3. Canonical[child.purl] \in r.purls
        BY <1>2, <4>2 DEF Canonicalizable
      <4>4. QED
        BY <3>1, <4>1, <4>2, <4>3 DEF NamesURL
    <3>4. QED
      BY <3>2, <3>3
  <2>3. NamesCPE(r, W) <=> CarriesCPE
    <3>1. ASSUME NamesCPE(r, W)
          PROVE  CarriesCPE
      <4>1. PICK w \in W, q \in r.cpes :
              HasVendorProduct(w) /\ SameIgnoringCase(<<w.vendor, w.product>>, q)
        BY <3>1 DEF NamesCPE
      <4>2. PICK c \in names :
              HasVendorProduct(Decoded(c)) /\ q = <<Decoded(c).vendor, Decoded(c).product>>
        BY <1>2
      <4>3. QED
        BY <4>1, <4>2
    <3>2. ASSUME CarriesCPE
          PROVE  NamesCPE(r, W)
      <4>1. PICK child \in children, w \in W : \E c \in child.cpes :
              /\ Parses(c) /\ HasVendorProduct(w) /\ HasVendorProduct(Decoded(c))
              /\ SameIgnoringCase(<<w.vendor, w.product>>,
                                  <<Decoded(c).vendor, Decoded(c).product>>)
        BY <3>2
      <4>2. \A c \in child.cpes : Parses(c) /\ HasVendorProduct(Decoded(c))
                                => <<Decoded(c).vendor, Decoded(c).product>> \in r.cpes
        BY <1>2
      <4>3. QED
        BY <4>1, <4>2 DEF NamesCPE
    <3>3. QED
      BY <3>1, <3>2
  <2>4. Carries(g, cve, W) <=> CarriesURL \/ CarriesCPE
    BY DEF Carries
  <2> HIDE DEF CarriesURL, CarriesCPE
  <2>5. QED
    BY <2>1, <2>2, <2>3, <2>4, AppliesByKind
<1>9. {r.target} \cup r.purls \subseteq DOMAIN Canonical
  BY <1>2, <1>6, CanonicalAssumption
<1>10. QED
  BY <1>2, <1>7, <1>8, <1>9 DEF r

\* An empty rule applies to nothing.
LEMMA EmptyAppliesToNone ==
    ASSUME NEW r, IsEmptyRule(r), NEW cve, NEW wfns
    PROVE  ~AppliesTo(r, cve, wfns)
BY DEF IsEmptyRule, AppliesTo

-----------------------------------------------------------------------------
(* The invariant.                                                          *)

\* The rules loaded and the rules derived, up to the n-th of the config and of the SBOMs.
LoadedTo(n)  == {config[i] : i \in 1..n}
DerivedTo(n) == UNION {RulesFromSBOM(sboms[i]) : i \in 1..n}

FoundInv ==
    /\ files \in Files /\ table \in Tables /\ filters \in Filters
    /\ config \in Configs /\ sboms \in Shipments
    /\ ids = Collected(files)

\* What the n-th row adds to the counts, and the analysed rows that added a pair.
Added(n) ==
    IF table[n].cve \in DOMAIN ids /\ table[n].package \in DOMAIN Identity
    THEN MatchingIDs(filters, ids[table[n].cve], table[n].package) \X {Identity[table[n].package]}
    ELSE {}

Analysed     == (DOMAIN table) \ unread
Adders(pair) == {n \in Analysed : pair \in Added(n)}

CountsInv ==
    /\ unread \subseteq DOMAIN table
    /\ phase # "analyze" => unread = {}
    /\ IsABag(counts)
    /\ DOMAIN counts = UNION {Added(n) : n \in Analysed}
    /\ \A pair \in DOMAIN counts : counts[pair] = Cardinality(Adders(pair))

RulesInv ==
    /\ phase \in {"analyze", "load", "feed", "ready", "failed"}
    /\ phase # "ready" => vendored = NoRules
    /\ phase = "analyze" => next = 1
    /\ phase \in {"analyze", "load"} =>
         /\ next \in 1..(Len(config) + 1) /\ derived = {}
         /\ \A i \in 1..(next - 1) : Loadable(config[i])
         /\ curated = NewFromRules(LoadedTo(next - 1))
    /\ phase \in {"feed", "ready"} =>
         /\ \A i \in 1..Len(config) : Loadable(config[i])
         /\ curated = NewFromRules(LoadedTo(Len(config)))
         /\ next \in 1..(Len(sboms) + 1) /\ derived = DerivedTo(next - 1)
         /\ \A i \in 1..(next - 1) : Buildable(sboms[i])
    /\ phase = "ready" => next = Len(sboms) + 1 /\ vendored = NewFromRules(derived)
    /\ phase = "failed" =>
         \/ next \in 1..Len(config) /\ curated = NoRules /\ derived = {}
         \/ /\ \A i \in 1..Len(config) : Loadable(config[i])
            /\ curated = NewFromRules(LoadedTo(Len(config)))
            /\ next \in 1..Len(sboms) /\ derived = DerivedTo(next - 1)
            /\ \A i \in 1..(next - 1) : Buildable(sboms[i])

MatchingInv == FoundInv /\ CountsInv /\ RulesInv

\* What the run finds does not change.
LEMMA FoundStep ==
    ASSUME FoundInv, [Next]_vars
    PROVE  FoundInv' /\ UNCHANGED <<found, ids>>
BY DEF FoundInv, Next, AnalyzeRow, Analyzed, LoadRule, Loaded, AddSBOM, Result, vars, found

\* The lengths of the config and of the SBOMs.
LEMMA FoundLists ==
    ASSUME FoundInv
    PROVE  /\ Len(config) \in Nat /\ \A i \in 1..Len(config) : config[i] \in Rule
           /\ Len(sboms) \in Nat /\ \A i \in 1..Len(sboms) : sboms[i] \in Seq(ShippedBy)
<1>1. config \in Seq(Rule) /\ sboms \in Seq(Seq(ShippedBy))
  BY MatchingAssumption DEF FoundInv
<1>2. QED
  BY <1>1

\* An analysed row is counted once for each pair that it adds, and for no other.
LEMMA CountsStep ==
    ASSUME CountsInv, FoundInv, RulesInv, [Next]_vars
    PROVE  CountsInv'
<1>0. UNCHANGED <<found, ids>> /\ IsFiniteSet(DOMAIN table) /\ \A n : Added(n)' = Added(n)
  <2>1. table \in Seq(Row)
    BY MatchingAssumption DEF FoundInv
  <2>2. DOMAIN table = 1..Len(table) /\ Len(table) \in Nat
    BY <2>1
  <2>3. IsFiniteSet(DOMAIN table)
    BY <2>2, FS_Interval
  <2>4. UNCHANGED <<found, ids>>
    BY FoundStep
  <2>5. QED
    BY <2>3, <2>4 DEF found, Added
<1>1. CASE \E i \in unread : AnalyzeRow(i)
  <2>1. PICK i \in unread : AnalyzeRow(i)
    BY <1>1
  <2>2. /\ unread' = unread \ {i} /\ unread' \subseteq DOMAIN table' /\ phase' = "analyze"
        /\ Analysed' = Analysed \cup {i} /\ i \notin Analysed
    BY <1>0, <2>1 DEF AnalyzeRow, CountsInv, found, Analysed
  <2>3. counts \in [DOMAIN counts -> {n \in Nat : n > 0}]
    BY DEF CountsInv, IsABag
  <2>4. counts' = [x \in DOMAIN counts \cup Added(i) |->
                     (IF x \in DOMAIN counts THEN counts[x] ELSE 0)
                     + (IF x \in Added(i) THEN 1 ELSE 0)]
    <3>1. CASE table[i].cve \in DOMAIN ids /\ table[i].package \in DOMAIN Identity
      <4>1. counts' = counts (+) SetToBag(Added(i))
        BY <2>1, <3>1 DEF AnalyzeRow, AddMatches, Added
      <4>2. /\ DOMAIN SetToBag(Added(i)) = Added(i)
            /\ \A x \in Added(i) : SetToBag(Added(i))[x] = 1
        BY DEF SetToBag
      <4>3. QED
        BY <4>1, <4>2 DEF (+)
    <3>2. CASE ~(table[i].cve \in DOMAIN ids /\ table[i].package \in DOMAIN Identity)
      <4>1. counts' = counts /\ Added(i) = {}
        BY <2>1, <3>2 DEF AnalyzeRow, Added
      <4>2. QED
        BY <2>3, <4>1
    <3>3. QED
      BY <3>1, <3>2
  <2>5. \A x \in DOMAIN counts \cup Added(i) :
          (IF x \in DOMAIN counts THEN counts[x] ELSE 0) + (IF x \in Added(i) THEN 1 ELSE 0)
            \in {n \in Nat : n > 0}
    BY <2>3
  <2>6. IsABag(counts')
    BY <2>4, <2>5 DEF IsABag
  <2>7. DOMAIN counts' = UNION {Added(n)' : n \in Analysed'}
    BY <1>0, <2>2, <2>4 DEF CountsInv
  <2>8. ASSUME NEW pair \in DOMAIN counts'
        PROVE  counts'[pair] = Cardinality(Adders(pair)')
    <3>1. Adders(pair)' = IF pair \in Added(i) THEN Adders(pair) \cup {i} ELSE Adders(pair)
      BY <1>0, <2>2 DEF Adders
    <3>2. IsFiniteSet(Adders(pair)) /\ i \notin Adders(pair)
      BY <1>0, <2>2, FS_Subset DEF Adders, Analysed
    <3>3. Cardinality(Adders(pair)) \in Nat
          /\ Cardinality(Adders(pair) \cup {i}) = Cardinality(Adders(pair)) + 1
      BY <3>2, FS_AddElement, FS_CardinalityType
    <3>4. Cardinality(Adders(pair)) = IF pair \in DOMAIN counts THEN counts[pair] ELSE 0
      <4>1. pair \notin DOMAIN counts => Adders(pair) = {}
        BY DEF CountsInv, Adders
      <4>2. QED
        BY <4>1, FS_EmptySet DEF CountsInv
    <3>5. counts'[pair] = (IF pair \in DOMAIN counts THEN counts[pair] ELSE 0)
                          + (IF pair \in Added(i) THEN 1 ELSE 0)
      BY <2>4, <2>8
    <3>6. CASE pair \in Added(i)
      BY <3>1, <3>3, <3>4, <3>5, <3>6
    <3>7. CASE pair \notin Added(i)
      BY <3>1, <3>3, <3>4, <3>5, <3>7
    <3>8. QED
      BY <3>6, <3>7
  <2>9. QED
    BY <2>2, <2>6, <2>7, <2>8 DEF CountsInv
<1>2. CASE Analyzed
  BY <1>0, <1>2 DEF Analyzed, CountsInv, found, Analysed, Adders
<1>3. CASE LoadRule \/ Loaded \/ AddSBOM \/ Result \/ UNCHANGED vars
  <2>1. UNCHANGED <<unread, counts>> /\ (phase' # "analyze" => phase # "analyze" )
    BY <1>3 DEF LoadRule, Loaded, AddSBOM, Result, vars
  <2>2. QED
    BY <1>0, <2>1 DEF CountsInv, found, Analysed, Adders
<1>4. QED
  BY <1>1, <1>2, <1>3 DEF Next

\* Every step keeps what is compiled.
LEMMA RulesStep ==
    ASSUME RulesInv, FoundInv, [Next]_vars
    PROVE  RulesInv'
<1> DEFINE Lc == Len(config)  Ls == Len(sboms)
<1>0. /\ Lc \in Nat /\ Ls \in Nat /\ config' = config /\ sboms' = sboms
      /\ \A n : LoadedTo(n)' = LoadedTo(n) /\ DerivedTo(n)' = DerivedTo(n)
  BY FoundLists, FoundStep DEF found, LoadedTo, DerivedTo
<1>1. CASE UNCHANGED <<next, curated, derived, vendored, phase>>
  BY <1>0, <1>1 DEF RulesInv
<1>2. CASE Analyzed
  BY <1>0, <1>2 DEF Analyzed, RulesInv
<1>3. CASE LoadRule
  <2>1. /\ phase = "load" /\ next <= Lc /\ next \in 1..(Lc + 1) /\ derived = {} /\ derived' = {}
        /\ vendored = NoRules /\ vendored' = NoRules
        /\ \A i \in 1..(next - 1) : Loadable(config[i])
        /\ curated = NewFromRules(LoadedTo(next - 1))
    BY <1>3 DEF LoadRule, RulesInv
  <2>2. CASE Loadable(config[next]) /\ curated' = AddRule(curated, config[next])
             /\ next' = next + 1 /\ phase' = phase
    <3>1. 1..next = 1..(next - 1) \cup {next} /\ next' - 1 = next /\ next' \in 1..(Lc + 1)
      BY <1>0, <2>1, <2>2
    <3>2. LoadedTo(next) = LoadedTo(next - 1) \cup {config[next]}
      BY <3>1 DEF LoadedTo
    <3>3. curated' = NewFromRules(LoadedTo(next))
      BY <2>1, <2>2, <3>2, AddedRule
    <3>4. \A i \in 1..next : Loadable(config[i])
      BY <2>1, <2>2, <3>1
    <3>5. QED
      BY <1>0, <2>1, <2>2, <3>1, <3>3, <3>4 DEF RulesInv
  <2>3. CASE curated' = NoRules /\ phase' = "failed" /\ next' = next
    BY <1>0, <2>1, <2>3 DEF RulesInv
  <2>4. QED
    BY <1>3, <2>2, <2>3 DEF LoadRule
<1>4. CASE Loaded
  <2>1. DerivedTo(0) = {}
    BY DEF DerivedTo
  <2>2. next = Lc + 1 /\ next - 1 = Lc /\ next' - 1 = 0
    BY <1>0, <1>4 DEF Loaded, RulesInv
  <2>3. QED
    BY <1>0, <1>4, <2>1, <2>2 DEF Loaded, RulesInv
<1>5. CASE AddSBOM
  <2>1. /\ phase = "feed" /\ next \in 1..(Ls + 1) /\ next <= Ls /\ derived = DerivedTo(next - 1)
        /\ vendored = NoRules /\ UNCHANGED <<curated, vendored>>
        /\ \A i \in 1..Lc : Loadable(config[i])
        /\ curated = NewFromRules(LoadedTo(Lc))
        /\ \A i \in 1..(next - 1) : Buildable(sboms[i])
    BY <1>5 DEF AddSBOM, RulesInv
  <2>2. CASE /\ Buildable(sboms[next])
             /\ derived' = derived \cup RulesFromSBOM(sboms[next])
             /\ next' = next + 1 /\ phase' = phase
    <3>1. 1..next = 1..(next - 1) \cup {next} /\ next' - 1 = next /\ next' \in 1..(Ls + 1)
      BY <1>0, <2>1, <2>2
    <3>2. derived' = DerivedTo(next)
      BY <2>1, <2>2, <3>1 DEF DerivedTo
    <3>3. \A i \in 1..next : Buildable(sboms[i])
      BY <2>1, <2>2, <3>1
    <3>4. QED
      BY <1>0, <2>1, <2>2, <3>1, <3>2, <3>3 DEF RulesInv
  <2>3. CASE phase' = "failed" /\ UNCHANGED <<derived, next>>
    <3>1. next \in 1..Ls
      BY <1>0, <2>1
    <3>2. QED
      BY <1>0, <2>1, <2>3, <3>1 DEF RulesInv
  <2>4. QED
    BY <1>5, <2>2, <2>3 DEF AddSBOM
<1>6. CASE Result
  <2>1. next = Ls + 1
    BY <1>0, <1>6 DEF Result, RulesInv
  <2>2. QED
    BY <1>0, <1>6, <2>1 DEF Result, RulesInv
<1>7. QED
  BY <1>1, <1>2, <1>3, <1>4, <1>5, <1>6 DEF Next, AnalyzeRow, vars

\* The invariant holds throughout a run.
THEOREM MatchingInvariance == Spec => []MatchingInv
<1>1. Init => MatchingInv
  <2> SUFFICES ASSUME Init
               PROVE  MatchingInv
    OBVIOUS
  <2>1. FoundInv
    BY DEF Init, FoundInv
  <2>2. CountsInv
    <3>1. Analysed = {} /\ DOMAIN counts = {} /\ IsABag(counts)
      BY DEF Init, Analysed, IsABag, EmptyBag, SetToBag
    <3>2. QED
      BY <3>1 DEF Init, CountsInv
  <2>3. Len(config) \in Nat
    BY <2>1, FoundLists
  <2>4. LoadedTo(0) = {}
    BY DEF LoadedTo
  <2>5. RulesInv
    <3>1. next = 1 /\ next - 1 = 0 /\ next \in 1..(Len(config) + 1) /\ 1..0 = {}
      BY <2>3 DEF Init
    <3>2. curated = NewFromRules(LoadedTo(0))
      BY <2>4, NoRulesCompiled DEF Init
    <3>3. phase = "analyze" /\ derived = {} /\ vendored = NoRules
      BY DEF Init
    <3>4. QED
      BY <3>1, <3>2, <3>3 DEF RulesInv
  <2>6. QED
    BY <2>1, <2>2, <2>5 DEF MatchingInv
<1>2. MatchingInv /\ [Next]_vars => MatchingInv'
  BY FoundStep, CountsStep, RulesStep DEF MatchingInv
<1>3. QED
  BY <1>1, <1>2, PTL DEF Spec

-----------------------------------------------------------------------------
(* What the run has found of a CVE.                                        *)

\* The identifiers collected for a CVE are those of all it names.
LEMMA CollectedHold ==
    ASSUME FoundInv, NEW cve \in files
    PROVE  /\ cve \in CVE
           /\ Holds(IDsOf(cve), AffectedEntries(cve), NamedWFNs(cve))
<1> DEFINE map(f) == ProcessCVE(<<>>, f)
           named == {f \in files : f.id \in DOMAIN map(f)}
<1>1. files \subseteq CVE /\ \A f, g \in files : f.id = g.id => f = g
  BY MatchingAssumption DEF FoundInv
<1>2. cve.id \notin DOMAIN <<>>
  OBVIOUS
<1>3. Holds(Existing(map(cve), cve.id), AffectedEntries(cve), NamedWFNs(cve))
  BY <1>1, <1>2, ProcessedRecord, AllContainers DEF Entered
<1>4. /\ DOMAIN ids = {f.id : f \in named}
      /\ \A i \in DOMAIN ids : ids[i] = map(CHOOSE g \in named : g.id = i)[i]
  <2>1. ids = [i \in {f.id : f \in named} |-> map(CHOOSE g \in named : g.id = i)[i]]
    BY Zenon DEF FoundInv, Collected
  <2> HIDE DEF map, named
  <2>2. QED
    BY <2>1
<1>5. named \subseteq files /\ \A f \in files : f \in named <=> f.id \in DOMAIN map(f)
  OBVIOUS
<1> HIDE DEF map, named
<1>6. Existing(ids, cve.id) = Existing(map(cve), cve.id)
  <2>1. CASE cve \in named
    <3>1. (CHOOSE g \in named : g.id = cve.id) = cve
      BY <1>1, <1>5, <2>1
    <3>2. cve.id \in DOMAIN ids /\ cve.id \in DOMAIN map(cve)
      BY <1>4, <1>5, <2>1
    <3>3. ids[cve.id] = map(cve)[cve.id]
      BY <1>4, <3>1, <3>2
    <3>4. QED
      BY <3>2, <3>3 DEF Existing
  <2>2. CASE cve \notin named
    <3>1. cve.id \notin DOMAIN ids
      BY <1>1, <1>4, <1>5, <2>2
    <3>2. cve.id \notin DOMAIN map(cve)
      BY <1>5, <2>2
    <3>3. QED
      BY <3>1, <3>2 DEF Existing
  <2>3. QED
    BY <2>1, <2>2
<1>7. QED
  BY <1>1, <1>3, <1>6 DEF IDsOf

-----------------------------------------------------------------------------
(* Lookups.                                                                *)

\* All that is derived.
Groups == UNION {ToSet(sboms[i]) : i \in 1..Len(sboms)}

LEMMA GroupsOfSBOMs ==
    ASSUME FoundInv
    PROVE  /\ Groups \subseteq ShippedBy
           /\ DerivedTo(Len(sboms)) = {r \in {VendoredRule(g) : g \in Groups} : ~IsEmptyRule(r)}
<1>1. ASSUME NEW i \in 1..Len(sboms), NEW g \in ToSet(sboms[i])
      PROVE  g \in ShippedBy
  BY FoundLists DEF ToSet
<1>2. QED
  BY <1>1 DEF Groups, DerivedTo, RulesFromSBOM

\* The targets of the rules of the config that apply.
LEMMA CuratedTargets ==
    ASSUME NEW cve, NEW W, Len(config) \in Nat
    PROVE  TargetsOf({r \in LoadedTo(Len(config)) : AppliesTo(r, cve, W)})
             = {Canonical[r.target] : r \in {q \in ToSet(config) : AppliesTo(q, cve, W)}}
BY DEF TargetsOf, LoadedTo, ToSet

\* The targets of the derived rules that apply.
LEMMA VendoredTargets ==
    ASSUME FoundInv, \A i \in 1..Len(sboms) : Buildable(sboms[i]), NEW cve \in CVE, NEW W
    PROVE  TargetsOf({r \in DerivedTo(Len(sboms)) : AppliesTo(r, cve, W)})
             = {Canonical[g.target] : g \in {h \in Groups : Carries(h, cve, W)}}
<1> DEFINE L == TargetsOf({r \in DerivedTo(Len(sboms)) : AppliesTo(r, cve, W)})
           R == {Canonical[g.target] : g \in {h \in Groups : Carries(h, cve, W)}}
<1>1. \A g \in Groups : /\ Canonical[VendoredRule(g).target] = Canonical[g.target]
                        /\ AppliesTo(VendoredRule(g), cve, W) <=> Carries(g, cve, W)
  <2>1. \A g \in Groups : g \in ShippedBy /\ g.target \in DOMAIN Canonical
    BY GroupsOfSBOMs DEF Groups, Buildable
  <2>2. QED
    BY <2>1, VendoredRuleMeans, CanonicalAssumption
<1>2. ASSUME NEW t \in L
      PROVE  t \in R
  <2>1. PICK r \in DerivedTo(Len(sboms)) : AppliesTo(r, cve, W) /\ t = Canonical[r.target]
    BY DEF TargetsOf
  <2>2. PICK g \in Groups : r = VendoredRule(g)
    BY GroupsOfSBOMs
  <2>3. QED
    BY <1>1, <2>1, <2>2
<1>3. ASSUME NEW t \in R
      PROVE  t \in L
  <2>1. PICK g \in Groups : Carries(g, cve, W) /\ t = Canonical[g.target]
    OBVIOUS
  <2>2. AppliesTo(VendoredRule(g), cve, W) /\ t = Canonical[VendoredRule(g).target]
    BY <1>1, <2>1
  <2>3. ~IsEmptyRule(VendoredRule(g))
    BY <2>2, EmptyAppliesToNone
  <2>4. VendoredRule(g) \in DerivedTo(Len(sboms))
    BY <2>3, GroupsOfSBOMs
  <2>5. QED
    BY <2>2, <2>4 DEF TargetsOf
<1>4. QED
  BY <1>2, <1>3

\* A CVE leads to the target of every curated rule and of every source of an SBOM that names
\* something it affects, and to no other; of each CPE that it names, the one spelling kept
\* counts.
THEOREM LookupsAreRight == Spec => []LookupMatchesRules
<1>1. ASSUME MatchingInv
      PROVE  LookupMatchesRules
  <2> SUFFICES ASSUME phase = "ready"
               PROVE  LookupMatchesRules
    BY DEF LookupMatchesRules
  <2>1. FoundInv /\ Len(config) \in Nat /\ Len(sboms) \in Nat
    BY <1>1, FoundLists DEF MatchingInv
  <2>2. /\ \A i \in 1..Len(config) : Loadable(config[i])
        /\ \A i \in 1..Len(sboms) : Buildable(sboms[i])
        /\ curated = NewFromRules(LoadedTo(Len(config)))
        /\ vendored = NewFromRules(DerivedTo(Len(sboms)))
    <3>1. next - 1 = Len(sboms)
      BY <1>1, <2>1 DEF MatchingInv, RulesInv
    <3>2. QED
      BY <1>1, <3>1 DEF MatchingInv, RulesInv
  <2>3. ASSUME NEW cve \in files
        PROVE  \E wfns \in Spellings(cve) :
                 LET rules  == {r \in ToSet(config) : AppliesTo(r, cve, wfns)}
                     groups == {g \in Groups : Carries(g, cve, wfns)}
                 IN /\ Lookup(curated, IDsOf(cve)) = {Canonical[r.target] : r \in rules}
                    /\ Lookup(vendored, IDsOf(cve)) = {Canonical[g.target] : g \in groups}
    <3> DEFINE given == IDsOf(cve)
               W     == Values(given.wfns)
    <3>1. cve \in CVE /\ Holds(given, AffectedEntries(cve), NamedWFNs(cve))
      BY <2>1, <2>3, CollectedHold
    <3>2. W \in Spellings(cve)
      BY <3>1, KeptAreSpellings DEF Holds
    <3> HIDE DEF given
    <3>3. \A R : Lookup(NewFromRules(R), given) = TargetsOf({r \in R : AppliesTo(r, cve, W)})
      BY <3>1, LookupLeads
    <3> HIDE DEF W
    <3>4. Lookup(curated, given) = TargetsOf({r \in LoadedTo(Len(config)) : AppliesTo(r, cve, W)})
      BY <2>2, <3>3
    <3>5. Lookup(vendored, given)
            = TargetsOf({r \in DerivedTo(Len(sboms)) : AppliesTo(r, cve, W)})
      BY <2>2, <3>3
    <3>6. Lookup(curated, given)
            = {Canonical[r.target] : r \in {q \in ToSet(config) : AppliesTo(q, cve, W)}}
      BY <2>1, <3>4, CuratedTargets
    <3>7. Lookup(vendored, given)
            = {Canonical[g.target] : g \in {h \in Groups : Carries(h, cve, W)}}
      BY <2>1, <2>2, <3>1, <3>5, VendoredTargets
    <3>8. QED
      BY <3>2, <3>6, <3>7 DEF given
  <2>4. QED
    BY Zenon, <2>2, <2>3 DEF LookupMatchesRules, Groups
<1>2. QED
  BY <1>1, MatchingInvariance, PTL

-----------------------------------------------------------------------------
(* Type correctness.                                                       *)

\* The identifiers collected have their types.
LEMMA CollectedTypes ==
    ASSUME FoundInv, NEW i \in DOMAIN ids
    PROVE  /\ ids[i].pairs \subseteq Pairs /\ ids[i].packages \subseteq Pairs
           /\ DOMAIN ids[i].wfns \subseteq WFN /\ Values(ids[i].wfns) \subseteq WFN
<1>1. PICK cve \in files : cve.id = i
  BY DEF FoundInv, Collected
<1>2. cve \in CVE /\ Holds(IDsOf(cve), AffectedEntries(cve), NamedWFNs(cve)) /\ IDsOf(cve) = ids[i]
  BY <1>1, CollectedHold DEF IDsOf, Existing
<1> DEFINE E == AffectedEntries(cve)
           W == NamedWFNs(cve)
           x == ids[i]
<1>3. x.pairs = PairsOf(E) /\ IsMapOf(x.wfns, W) /\ x.packages = PackagesOf(E)
  BY <1>2 DEF Holds
<1>4. E \subseteq AffectedEntry /\ W \subseteq WFN
  BY <1>2, EntriesOfCVE, WFNsOfCVE
<1> HIDE DEF E, W, x
<1>5. PairsOf(E) \subseteq Pairs /\ PackagesOf(E) \subseteq Pairs
  BY <1>4, PairsOfEntry DEF PairsOf, PackagesOf
<1>6. DOMAIN x.wfns \subseteq WFN /\ Values(x.wfns) \subseteq WFN
  <2>1. \A w \in W : w \in WFN /\ WFNKey(w) \in WFN
    BY <1>4, AttributesOfWFN
  <2>2. QED
    BY <1>3, <2>1 DEF IsMapOf, Values
<1>7. QED
  BY <1>3, <1>5, <1>6 DEF x

\* The rules compiled lead to packages, and every key to one.
LEMMA CompiledTypes ==
    ASSUME NEW R, \A r \in R : r.target \in DOMAIN Canonical, NEW k \in DOMAIN NewFromRules(R)
    PROVE  /\ NewFromRules(R)[k] \subseteq {Canonical[p] : p \in DOMAIN Canonical}
           /\ NewFromRules(R)[k] # {}
<1>1. k \in UNION {RuleKeys(r) : r \in R}
      /\ NewFromRules(R)[k] = {Canonical[r.target] : r \in {q \in R : k \in RuleKeys(q)}}
  BY DEF NewFromRules
<1>2. PICK r \in R : k \in RuleKeys(r)
  BY <1>1
<1>3. QED
  BY <1>1, <1>2

\* What is counted is a package.
LEMMA CountedPackages ==
    ASSUME CountsInv, NEW pair \in DOMAIN counts
    PROVE  pair[2] \in {Identity[p] : p \in DOMAIN Identity}
<1>1. PICK n \in Analysed : pair \in Added(n)
  BY DEF CountsInv
<1>2. QED
  BY <1>1 DEF Added

\* What is derived can be loaded.
LEMMA DerivedTypes ==
    ASSUME FoundInv, NEW n \in Nat, n <= Len(sboms), \A i \in 1..n : Buildable(sboms[i])
    PROVE  DerivedTo(n) \subseteq Rule /\ \A r \in DerivedTo(n) : Loadable(r)
<1>1. ASSUME NEW r \in DerivedTo(n)
      PROVE  r \in Rule /\ Loadable(r)
  <2>1. PICK i \in 1..n : r \in RulesFromSBOM(sboms[i])
    BY DEF DerivedTo
  <2>2. i \in 1..Len(sboms)
    BY FoundLists
  <2>3. PICK g \in ToSet(sboms[i]) : r = VendoredRule(g) /\ ~IsEmptyRule(r)
    BY <2>1 DEF RulesFromSBOM
  <2>4. g \in ShippedBy /\ g.target \in DOMAIN Canonical
    BY <2>1, <2>2, <2>3, GroupsOfSBOMs DEF Groups, Buildable
  <2>5. r \in Rule /\ {r.target} \cup r.purls \subseteq DOMAIN Canonical
    BY <2>3, <2>4, VendoredRuleMeans
  <2>6. QED
    BY <2>3, <2>5 DEF Loadable
<1>2. QED
  BY <1>1

\* Everything has its type: the identifiers in the terms of the rules, the counts a bag, and
\* no rule without an identifier or without a target is compiled.
THEOREM MatchingTypes == Spec => []TypeOK
<1>1. ASSUME MatchingInv
      PROVE  TypeOK
  <2> DEFINE Lc == Len(config)  Ls == Len(sboms)
  <2>1. FoundInv /\ CountsInv /\ RulesInv /\ Lc \in Nat /\ Ls \in Nat
    BY <1>1, FoundLists DEF MatchingInv
  <2>2. \A i \in DOMAIN ids : /\ ids[i].pairs \subseteq Pairs /\ ids[i].packages \subseteq Pairs
                              /\ DOMAIN ids[i].wfns \subseteq WFN /\ Values(ids[i].wfns) \subseteq WFN
    BY <2>1, CollectedTypes
  <2>3. next \in 1..(Lc + Ls + 1) /\ phase \in {"analyze", "load", "feed", "ready", "failed"}
    <3>1. next \in 1..(Lc + 1) \/ next \in 1..(Ls + 1) \/ next \in 1..Lc \/ next \in 1..Ls
      BY <2>1 DEF RulesInv
    <3>2. QED
      BY <2>1, <3>1 DEF RulesInv
  <2>4. \E n \in Nat : n <= Lc /\ (\A i \in 1..n : Loadable(config[i]))
                       /\ (curated = NewFromRules(LoadedTo(n)) \/ curated = NoRules)
    <3>1. CASE phase \in {"analyze", "load"}
      <4>1. next - 1 \in Nat /\ next - 1 <= Lc
        BY <2>1, <3>1 DEF RulesInv
      <4>2. QED
        BY <2>1, <3>1, <4>1 DEF RulesInv
    <3>2. CASE phase \in {"feed", "ready"}
      BY <2>1, <3>2 DEF RulesInv
    <3>3. CASE phase = "failed"
      <4>1. 0 \in Nat /\ 0 <= Lc /\ 1..0 = {}
        BY <2>1
      <4>2. QED
        BY <2>1, <3>3, <4>1 DEF RulesInv
    <3>4. QED
      BY <2>3, <3>1, <3>2, <3>3
  <2>5. \E n \in Nat : n <= Ls /\ derived = DerivedTo(n) /\ \A i \in 1..n : Buildable(sboms[i])
    <3>1. CASE /\ next \in 1..(Ls + 1) /\ derived = DerivedTo(next - 1)
               /\ \A i \in 1..(next - 1) : Buildable(sboms[i])
      <4>1. next - 1 \in Nat /\ next - 1 <= Ls
        BY <2>1, <3>1
      <4>2. QED
        BY <3>1, <4>1
    <3>2. CASE derived = {}
      <4>1. derived = DerivedTo(0) /\ 0 \in Nat /\ 0 <= Ls /\ 1..0 = {}
        BY <2>1, <3>2 DEF DerivedTo
      <4>2. QED
        BY <4>1
    <3>3. next \in 1..Ls => next \in 1..(Ls + 1)
      BY <2>1
    <3>4. QED
      BY <2>1, <2>3, <3>1, <3>2, <3>3 DEF RulesInv
  <2>6. derived \subseteq Rule /\ \A r \in derived : Loadable(r)
    BY <2>1, <2>5, DerivedTypes
  <2> DEFINE Compiled(m) == \A k \in DOMAIN m :
               m[k] \subseteq {Canonical[p] : p \in DOMAIN Canonical} /\ m[k] # {}
  <2>7. DOMAIN NoRules = {}
    BY DEF NoRules
  <2>8. Compiled(curated)
    <3>1. PICK n \in Nat : /\ n <= Lc /\ \A i \in 1..n : Loadable(config[i])
                           /\ curated = NewFromRules(LoadedTo(n)) \/ curated = NoRules
      BY <2>4
    <3>2. \A r \in LoadedTo(n) : r.target \in DOMAIN Canonical
      BY <3>1 DEF LoadedTo, Loadable
    <3>3. QED
      BY <2>7, <3>1, <3>2, CompiledTypes
  <2>9. Compiled(vendored)
    <3>1. vendored = NewFromRules(derived) \/ vendored = NoRules
      BY <2>1 DEF RulesInv
    <3>2. \A r \in derived : r.target \in DOMAIN Canonical
      BY <2>6 DEF Loadable
    <3>3. QED
      BY <2>7, <3>1, <3>2, CompiledTypes
  <2> HIDE DEF Lc, Ls, Compiled
  <2>10. \A m \in {curated, vendored} : Compiled(m)
    BY <2>8, <2>9
  <2>11. IsABag(counts) /\ unread \subseteq DOMAIN table
         /\ \A pair \in DOMAIN counts : pair[2] \in {Identity[p] : p \in DOMAIN Identity}
    BY <2>1, CountedPackages DEF CountsInv
  <2>12. QED
    BY <2>2, <2>3, <2>6, <2>10, <2>11 DEF TypeOK, Lc, Ls, Compiled
<1>2. QED
  BY <1>1, MatchingInvariance, PTL

-----------------------------------------------------------------------------
(* Ranks and sums.                                                         *)

\* A strict order in which any two members of a set can be compared.
IsOrder(R, S) ==
    /\ \A x \in S : <<x, x>> \notin R
    /\ \A x, y \in S : x # y => <<x, y>> \in R \/ <<y, x>> \in R
    /\ \A x, y, z \in S : <<x, y>> \in R /\ <<y, z>> \in R => <<x, z>> \in R

\* How many come before a member.
Rank(R, S, x) == Cardinality({y \in S : <<y, x>> \in R})

\* The ranks of a finite set are 0, 1, ... in the order of its members.
LEMMA RanksFollowOrder ==
    ASSUME NEW S, IsFiniteSet(S), NEW R, IsOrder(R, S)
    PROVE  /\ \A x, y \in S : <<x, y>> \in R <=> Rank(R, S, x) < Rank(R, S, y)
           /\ \A x \in S : Rank(R, S, x) \in 0..(Cardinality(S) - 1)
           /\ \A n \in 1..Cardinality(S) : \E x \in S : Rank(R, S, x) = n - 1
<1> DEFINE before(x) == {y \in S : <<y, x>> \in R}
           N == Cardinality(S)
           rank(x) == Rank(R, S, x)
<1>1. \A x \in S : IsFiniteSet(before(x)) /\ rank(x) = Cardinality(before(x)) /\ rank(x) \in Nat
  BY FS_Subset, FS_CardinalityType DEF Rank
<1>2. N \in Nat
  BY FS_CardinalityType
<1>3. ASSUME NEW x \in S, NEW y \in S, <<x, y>> \in R
      PROVE  rank(x) < rank(y)
  <2>1. before(x) \subseteq before(y) /\ x \in before(y) /\ x \notin before(x)
    BY <1>3 DEF IsOrder
  <2>2. Cardinality(before(x)) <= Cardinality(before(y))
        /\ Cardinality(before(x)) # Cardinality(before(y))
    BY <1>1, <2>1, FS_Subset
  <2> HIDE DEF before, rank
  <2>3. QED
    BY <1>1, <2>2
<1>4. ASSUME NEW x \in S, NEW y \in S
      PROVE  /\ <<x, y>> \in R <=> rank(x) < rank(y)
             /\ rank(x) = rank(y) => x = y
  <2> HIDE DEF before, rank
  <2>1. x = y \/ <<x, y>> \in R \/ <<y, x>> \in R
    BY DEF IsOrder
  <2>2. rank(x) \in Nat /\ rank(y) \in Nat
    BY <1>1
  <2>3. x = y => <<x, y>> \notin R
    BY DEF IsOrder
  <2>4. QED
    BY <1>3, <2>1, <2>2, <2>3
<1>5. ASSUME NEW x \in S
      PROVE  rank(x) \in 0..(N - 1)
  <2>1. before(x) \subseteq S /\ x \notin before(x)
    BY DEF IsOrder
  <2>2. Cardinality(before(x)) <= N /\ Cardinality(before(x)) # N
    BY <2>1, FS_Subset
  <2> HIDE DEF before, rank, N
  <2>3. QED
    BY <1>1, <1>2, <2>2
<1>6. ASSUME NEW n \in 1..N
      PROVE  \E x \in S : rank(x) = n - 1
  <2> DEFINE f == [x \in S |-> rank(x)]
  <2> HIDE DEF rank, N
  <2>1. f \in Injection(S, 0..(N - 1))
    <3>1. f \in [S -> 0..(N - 1)]
      BY <1>5
    <3>2. \A x, y \in S : f[x] = f[y] => x = y
      BY <1>4
    <3>3. QED
      BY <3>1, <3>2 DEF Injection, IsInjective
  <2>2. IsFiniteSet(0..(N - 1)) /\ Cardinality(0..(N - 1)) = N
    BY <1>2, FS_Interval
  <2> HIDE DEF f
  <2>3. f \in Surjection(S, 0..(N - 1))
    BY <2>1, <2>2, FS_Injection DEF N
  <2>4. n - 1 \in 0..(N - 1)
    BY <1>2
  <2>5. QED
    BY <2>3, <2>4 DEF Surjection, f
<1>7. QED
  BY <1>4, <1>5, <1>6

\* A list made by rank: if there is a member of the rank, it has its place.
IsRanked(R, S, s) ==
    /\ DOMAIN s = 1..Cardinality(S)
    /\ \A n \in 1..Cardinality(S) :
         (\E x \in S : Rank(R, S, x) = n - 1) => s[n] \in S /\ Rank(R, S, s[n]) = n - 1

\* Ranked makes one.
LEMMA RankedIsRanked ==
    ASSUME NEW S, NEW R
    PROVE  IsRanked(R, S, Ranked(S, R))
<1> DEFINE s == Ranked(S, R)
<1>1. /\ DOMAIN s = 1..Cardinality(S)
      /\ \A n \in 1..Cardinality(S) : s[n] = CHOOSE x \in S : Rank(R, S, x) = n - 1
  BY DEF Ranked, Rank
<1> HIDE DEF s
<1>2. \A n \in 1..Cardinality(S) :
        (\E x \in S : Rank(R, S, x) = n - 1) => s[n] \in S /\ Rank(R, S, s[n]) = n - 1
  BY <1>1
<1>3. QED
  BY <1>1, <1>2 DEF IsRanked, s

\* Such a list has each member once, in order.
LEMMA RankedInOrder ==
    ASSUME NEW S, IsFiniteSet(S), NEW R, IsOrder(R, S), NEW s, IsRanked(R, S, s)
    PROVE  /\ ToSet(s) = S
           /\ IsInjective(s)
           /\ \A j, k \in DOMAIN s : j < k => <<s[j], s[k]>> \in R
<1> DEFINE N == Cardinality(S)
           rank(x) == Rank(R, S, x)
<1>1. /\ \A x, y \in S : <<x, y>> \in R <=> rank(x) < rank(y)
      /\ \A x \in S : rank(x) \in 0..(N - 1)
      /\ \A n \in 1..N : \E x \in S : rank(x) = n - 1
  BY RanksFollowOrder
<1>2. \A n \in 1..N : (\E x \in S : rank(x) = n - 1) => s[n] \in S /\ rank(s[n]) = n - 1
  BY DEF IsRanked
<1> HIDE DEF rank
<1>3. \A n \in 1..N : s[n] \in S /\ rank(s[n]) = n - 1
  BY <1>1, <1>2
<1>4. N \in Nat /\ DOMAIN s = 1..N
  BY FS_CardinalityType DEF IsRanked
<1> HIDE DEF N
<1>5. IsInjective(s)
  <2>1. ASSUME NEW j \in 1..N, NEW k \in 1..N, s[j] = s[k]
        PROVE  j = k
    <3>1. rank(s[j]) = j - 1 /\ rank(s[k]) = k - 1
      BY <1>3
    <3>2. rank(s[j]) = rank(s[k])
      BY <2>1
    <3>3. QED
      BY <1>4, <3>1, <3>2
  <2>2. QED
    BY <1>4, <2>1 DEF IsInjective
<1>6. \A j, k \in DOMAIN s : j < k => <<s[j], s[k]>> \in R
  <2>1. ASSUME NEW j \in 1..N, NEW k \in 1..N, j < k
        PROVE  <<s[j], s[k]>> \in R
    <3>1. rank(s[j]) = j - 1 /\ rank(s[k]) = k - 1 /\ s[j] \in S /\ s[k] \in S
      BY <1>3
    <3>2. rank(s[j]) < rank(s[k])
      BY <1>4, <2>1, <3>1
    <3>3. QED
      BY <1>1, <3>1, <3>2
  <2>2. QED
    BY <1>4, <2>1
<1>7. ASSUME NEW x \in S
      PROVE  \E n \in DOMAIN s : s[n] = x
  <2>1. rank(x) + 1 \in 1..N
    BY <1>1, <1>4
  <2>2. s[rank(x) + 1] \in S /\ rank(s[rank(x) + 1]) = rank(x)
    BY <1>1, <1>3, <1>4, <2>1
  <2>3. s[rank(x) + 1] = x
    <3>1. \A y \in S : rank(y) = rank(x) /\ y # x => <<x, y>> \in R \/ <<y, x>> \in R
      BY DEF IsOrder
    <3>2. \A y \in S : rank(y) = rank(x) => ~(<<x, y>> \in R) /\ ~(<<y, x>> \in R)
      BY <1>1, <1>4
    <3>3. QED
      BY <2>2, <3>1, <3>2
  <2>4. QED
    BY <1>4, <2>1, <2>3
<1>8. ToSet(s) = S
  BY <1>3, <1>4, <1>7 DEF ToSet
<1>9. QED
  BY <1>5, <1>6, <1>8

\* The steps of a sum over a set, one member less each time.
SumStep(s, h) ==
    IF s = {} THEN 0 ELSE LET x == CHOOSE y \in s : TRUE IN x.count + h[s \ {x}]

\* The sum over a finite set is defined: for the small subsets first, then for all.
LEMMA SumExists ==
    ASSUME NEW S, IsFiniteSet(S), \A x \in S : x.count \in Nat
    PROVE  \E h : h = [s \in SUBSET S |-> SumStep(s, h)]
<1> DEFINE Small(n) == {s \in SUBSET S : Cardinality(s) <= n}
           Defined(n) == \E h : h = [s \in Small(n) |-> SumStep(s, h)]
           Bad == {n \in Nat : ~Defined(n)}
<1>1. \A s \in SUBSET S : IsFiniteSet(s) /\ Cardinality(s) \in Nat
                         /\ Cardinality(s) <= Cardinality(S)
  BY FS_Subset, FS_CardinalityType
<1>2. ASSUME NEW s \in SUBSET S, s # {}
      PROVE  LET x == CHOOSE y \in s : TRUE
             IN s \ {x} \in SUBSET S /\ Cardinality(s \ {x}) = Cardinality(s) - 1
  BY <1>1, <1>2, FS_RemoveElement
<1>3. ASSUME NEW n \in Nat, n # 0 => Defined(n - 1)
      PROVE  Defined(n)
  <2>1. PICK g : n # 0 => g = [s \in Small(n - 1) |-> SumStep(s, g)]
    BY <1>3
  <2> DEFINE h == [s \in Small(n) |-> SumStep(s, g)]
  <2>2. ASSUME NEW s \in Small(n)
        PROVE  SumStep(s, g) = SumStep(s, h)
    <3>1. CASE s = {}
      BY <3>1 DEF SumStep
    <3>2. CASE s # {}
      <4> DEFINE x == CHOOSE y \in s : TRUE
                 t == s \ {x}
      <4>1. t \in SUBSET S /\ Cardinality(t) = Cardinality(s) - 1 /\ s \in SUBSET S
        BY <1>2, <3>2
      <4>2. Cardinality(s) # 0 /\ Cardinality(s) \in Nat /\ Cardinality(s) <= n
        BY <1>1, <3>2, <4>1, FS_EmptySet
      <4>3. n # 0 /\ t \in Small(n - 1) /\ t \in Small(n)
        BY <4>1, <4>2
      <4>4. g[t] = SumStep(t, g) /\ h[t] = SumStep(t, g)
        BY <2>1, <4>3
      <4> HIDE DEF h, t
      <4>5. SumStep(s, g) = x.count + g[t] /\ SumStep(s, h) = x.count + h[t]
        BY <3>2 DEF SumStep, t
      <4>6. QED
        BY <4>4, <4>5
    <3>3. QED
      BY <3>1, <3>2
  <2>3. h = [s \in Small(n) |-> SumStep(s, h)]
    <3> HIDE DEF Small
    <3>1. h = [s \in Small(n) |-> SumStep(s, g)]
      OBVIOUS
    <3> HIDE DEF h
    <3>2. QED
      BY <2>2, <3>1
  <2> HIDE DEF h
  <2>4. QED
    BY <2>3
<1>4. Bad = {}
  <2> SUFFICES ASSUME Bad # {}
               PROVE  FALSE
    OBVIOUS
  <2>1. PICK n \in Bad : \A m \in Bad : n <= m
    BY LeastNumber
  <2>2. n # 0 => Defined(n - 1)
    <3> HIDE DEF Defined
    <3>1. QED
      BY <2>1
  <2> HIDE DEF Defined
  <2>3. QED
    BY <1>3, <2>1, <2>2
<1>5. Cardinality(S) \in Nat /\ Small(Cardinality(S)) = SUBSET S
  BY <1>1
<1>6. Defined(Cardinality(S))
  <2> HIDE DEF Defined
  <2>1. QED
    BY <1>4, <1>5
<1>7. QED
  <2> HIDE DEF Small
  <2>1. QED
    BY <1>5, <1>6

\* The total of a finite set of matches is a number.
LEMMA TotalIsNumber ==
    ASSUME NEW S, IsFiniteSet(S), \A x \in S : x.count \in Nat
    PROVE  Total(S) \in Nat
<1> DEFINE sum == CHOOSE h : h = [s \in SUBSET S |-> SumStep(s, h)]
           Bad == {n \in Nat : \E s \in SUBSET S : Cardinality(s) = n /\ sum[s] \notin Nat}
<1>1. Total(S) = sum[S]
  BY DEF Total, MapThenSumSet, MapThenFoldSet, SumStep
<1>2. sum = [s \in SUBSET S |-> SumStep(s, sum)]
  BY SumExists
<1> HIDE DEF sum
<1>3. \A s \in SUBSET S : IsFiniteSet(s) /\ Cardinality(s) \in Nat
  BY FS_Subset, FS_CardinalityType
<1>4. Bad = {}
  <2> SUFFICES ASSUME Bad # {}
               PROVE  FALSE
    OBVIOUS
  <2>1. PICK n \in Bad : \A m \in Bad : n <= m
    BY LeastNumber
  <2>2. PICK s \in SUBSET S : Cardinality(s) = n /\ sum[s] \notin Nat
    BY <2>1
  <2> DEFINE x == CHOOSE y \in s : TRUE
  <2>3. s # {} /\ sum[s] = x.count + sum[s \ {x}]
    BY <1>2, <2>2 DEF SumStep
  <2>4. x \in s /\ s \ {x} \in SUBSET S
    BY <2>3
  <2> HIDE DEF x
  <2>5. Cardinality(s \ {x}) \in Nat /\ Cardinality(s \ {x}) < n
    BY <1>3, <2>2, <2>4, FS_RemoveElement
  <2>6. sum[s \ {x}] \in Nat
    BY <2>1, <2>4, <2>5
  <2>7. QED
    BY <2>2, <2>3, <2>4, <2>6
<1>5. QED
  BY <1>1, <1>3, <1>4

-----------------------------------------------------------------------------
(* Suggestions.                                                            *)

\* Of the identifiers of a CVE those match that are not noise for the package.
LEMMA MatchesAreNotNoise ==
    ASSUME FoundInv, NEW f \in files, NEW source, NEW i
    PROVE  i \in MatchingIDs(filters, IDsOf(f), source) <=> i \in IDs(IDsOf(f)) /\ ~Noise(i, f, source)
<1> DEFINE x == IDsOf(f)
<1>1. x.pairs \subseteq Pairs /\ x.packages \subseteq Pairs
  <2>1. f \in CVE /\ Holds(x, AffectedEntries(f), NamedWFNs(f))
    BY CollectedHold
  <2>2. AffectedEntries(f) \subseteq AffectedEntry
    BY <2>1, EntriesOfCVE
  <2>3. QED
    BY <2>1, <2>2, PairsOfEntry DEF Holds, PairsOf, PackagesOf
<1>2. \A v, w \in Values(x.wfns) : WFNID(v) = WFNID(w) => v = w
  <2>1. IsMapOf(x.wfns, NamedWFNs(f))
    BY CollectedHold DEF Holds
  <2>2. ASSUME NEW v \in Values(x.wfns), NEW w \in Values(x.wfns), WFNID(v) = WFNID(w)
        PROVE  v = w
    <3>1. \A a \in Attributes : Bound[v[a]] = Bound[w[a]]
      BY <2>2 DEF WFNID, FormatAsCPE23String, Attributes
    <3>2. WFNKey(v) = WFNKey(w)
      BY <3>1 DEF WFNKey
    <3>3. QED
      BY <2>1, <3>2 DEF IsMapOf, Values
  <2>3. QED
    BY <2>2
<1>3. \A rules, group, name : ShouldDiscard(rules, group, name) <=> Silenced(rules, group, name)
  BY DEF ShouldDiscard, Silenced
<1> HIDE DEF x
<1> DEFINE pairs    == {PairID(p) : p \in {q \in x.pairs : ~ShouldDiscard(filters.pairs, q[1], q[2])}}
           wfns     == {WFNID(w) : w \in {v \in Values(x.wfns) :
                          HasVendorProduct(v) /\ ~ShouldDiscard(filters.cpes, v.vendor, v.product)}}
           packages == {PackageID(p) : p \in {q \in x.packages :
                          /\ ~ShouldDiscard(filters.packages, q[1], q[2])
                          /\ ~OtherProductOfRedHat(q, source)}}
           urls     == {URLID(p) : p \in x.urls}
           noise    == Noise(i, f, source)
<1>4. /\ \A p : PairID(p)[1] = "vp" /\ PairID(p)[2] = p[1] /\ PairID(p)[3] = p[2]
      /\ \A p : PackageID(p)[1] = "pid" /\ PackageID(p)[2] = p[1] /\ PackageID(p)[3] = p[2]
      /\ \A p : URLID(p)[1] = "purl"
      /\ \A w : WFNID(w)[1] = "cpe"
  BY DEF PairID, PackageID, URLID, WFNID
<1>kinds. /\ \A j \in pairs : j[1] = "vp"
          /\ \A j \in wfns : j[1] = "cpe"
          /\ \A j \in packages : j[1] = "pid"
          /\ \A j \in urls : j[1] = "purl"
  <2>1. \A j \in pairs : j[1] = "vp"
    BY <1>4
  <2>2. \A j \in wfns : j[1] = "cpe"
    BY <1>4
  <2>3. \A j \in packages : j[1] = "pid"
    BY <1>4
  <2>4. \A j \in urls : j[1] = "purl"
    BY <1>4
  <2> HIDE DEF pairs, wfns, packages, urls
  <2>5. QED
    BY <2>1, <2>2, <2>3, <2>4
<1>5. ASSUME NEW p \in x.pairs, i = PairID(p)
      PROVE  (i \in pairs <=> ~noise) /\ i \notin wfns \cup packages \cup urls
  <2>1. noise <=> Silenced(filters.pairs, p[1], p[2])
    BY <1>4, <1>5 DEF Noise
  <2>2. ASSUME NEW q \in x.pairs, PairID(q) = PairID(p)
        PROVE  q = p
    <3>1. q = <<q[1], q[2]>> /\ p = <<p[1], p[2]>>
      BY <1>1 DEF Pairs
    <3>2. q[1] = p[1] /\ q[2] = p[2]
      BY <1>4, <2>2
    <3>3. QED
      BY <3>1, <3>2
  <2>3. i \in pairs <=> ~ShouldDiscard(filters.pairs, p[1], p[2])
    BY <1>5, <2>2
  <2>4. i \notin wfns \cup packages \cup urls
    BY <1>4, <1>kinds, <1>5
  <2> HIDE DEF pairs, wfns, packages, urls, noise
  <2>5. QED
    BY <1>3, <2>4, <2>1, <2>3
<1>6. ASSUME NEW w \in Values(x.wfns), i = WFNID(w)
      PROVE  (i \in wfns <=> ~noise) /\ i \notin pairs \cup packages \cup urls
  <2>1. noise <=> \E v \in Values(x.wfns) :
                     /\ WFNID(v) = i
                     /\ \/ {AnyValue, NoValue} \cap {v.vendor, v.product} # {}
                        \/ Silenced(filters.cpes, v.vendor, v.product)
    BY <1>4, <1>6 DEF Noise, x
  <2>2. noise <=> ~HasVendorProduct(w) \/ Silenced(filters.cpes, w.vendor, w.product)
    BY <1>2, <1>6, <2>1 DEF HasVendorProduct
  <2>3. i \in wfns <=> HasVendorProduct(w) /\ ~ShouldDiscard(filters.cpes, w.vendor, w.product)
    BY <1>2, <1>6
  <2>4. i \notin pairs \cup packages \cup urls
    BY <1>4, <1>kinds, <1>6
  <2> HIDE DEF pairs, wfns, packages, urls, noise
  <2>5. QED
    BY <1>3, <2>4, <2>2, <2>3
<1>7. ASSUME NEW p \in x.packages, i = PackageID(p)
      PROVE  (i \in packages <=> ~noise) /\ i \notin pairs \cup wfns \cup urls
  <2>1. noise <=> Silenced(filters.packages, p[1], p[2]) \/ OtherProductOfRedHat(p, source)
    BY <1>4, <1>7 DEF Noise, OtherProductOfRedHat
  <2>2. ASSUME NEW q \in x.packages, PackageID(q) = PackageID(p)
        PROVE  q = p
    <3>1. q = <<q[1], q[2]>> /\ p = <<p[1], p[2]>>
      BY <1>1 DEF Pairs
    <3>2. q[1] = p[1] /\ q[2] = p[2]
      BY <1>4, <2>2
    <3>3. QED
      BY <3>1, <3>2
  <2>3. i \in packages <=> ~ShouldDiscard(filters.packages, p[1], p[2])
                            /\ ~OtherProductOfRedHat(p, source)
    BY <1>7, <2>2
  <2>4. i \notin pairs \cup wfns \cup urls
    BY <1>4, <1>kinds, <1>7
  <2> HIDE DEF pairs, wfns, packages, urls, noise
  <2>5. QED
    BY <1>3, <2>4, <2>1, <2>3
<1>8. ASSUME NEW p \in x.urls, i = URLID(p)
      PROVE  i \in urls /\ ~noise
  BY <1>4, <1>8 DEF Noise
<1>9. MatchingIDs(filters, x, source) = pairs \cup wfns \cup packages \cup urls
  BY DEF MatchingIDs
<1>10. pairs \cup wfns \cup packages \cup urls \subseteq IDs(x)
  BY DEF IDs
<1>11. i \in IDs(x) => \/ \E p \in x.pairs : i = PairID(p)
                       \/ \E w \in Values(x.wfns) : i = WFNID(w)
                       \/ \E p \in x.packages : i = PackageID(p)
                       \/ \E p \in x.urls : i = URLID(p)
  BY DEF IDs
<1> HIDE DEF pairs, wfns, packages, urls, noise
<1>12. i \in MatchingIDs(filters, x, source) <=> i \in IDs(x) /\ ~noise
  BY <1>5, <1>6, <1>7, <1>8, <1>9, <1>10, <1>11
<1>13. QED
  BY <1>12 DEF noise, x

\* Which rows add a pair is which rows speak for the package by the identifier.
LEMMA AddersSpeak ==
    ASSUME FoundInv, NEW n \in DOMAIN table, NEW i, NEW p
    PROVE  <<i, p>> \in Added(n) <=> n \in RowsFor(i, p)
<1> DEFINE source == table[n].package
           cve    == table[n].cve
<1>1. /\ DOMAIN ids \subseteq {f.id : f \in files}
      /\ \A f \in files : IDsOf(f) = IF f.id \in DOMAIN ids THEN ids[f.id] ELSE NoIdentifiers
  BY DEF FoundInv, Collected, IDsOf, Existing
<1>2. IDs(NoIdentifiers) = {}
  BY DEF IDs, NoIdentifiers, Values, NoWFNs
<1>3. ASSUME <<i, p>> \in Added(n)
      PROVE  n \in RowsFor(i, p)
  <2>1. /\ cve \in DOMAIN ids /\ source \in DOMAIN Identity
        /\ i \in MatchingIDs(filters, ids[cve], source) /\ p = Identity[source]
    BY <1>3 DEF Added
  <2>2. PICK f \in files : f.id = cve /\ IDsOf(f) = ids[cve]
    BY <1>1, <2>1
  <2>3. i \in IDs(IDsOf(f)) /\ ~Noise(i, f, source)
    BY <2>1, <2>2, MatchesAreNotNoise
  <2>4. QED
    BY <2>1, <2>2, <2>3 DEF RowsFor
<1>4. ASSUME n \in RowsFor(i, p)
      PROVE  <<i, p>> \in Added(n)
  <2>1. source \in DOMAIN Identity /\ Identity[source] = p
    BY <1>4 DEF RowsFor
  <2>2. PICK f \in files : f.id = cve /\ i \in IDs(IDsOf(f)) /\ ~Noise(i, f, source)
    BY <1>4 DEF RowsFor
  <2>3. cve \in DOMAIN ids /\ IDsOf(f) = ids[cve]
    BY <1>1, <1>2, <2>2
  <2>4. i \in MatchingIDs(filters, ids[cve], source)
    BY <2>2, <2>3, MatchesAreNotNoise
  <2>5. QED
    BY <2>1, <2>3, <2>4 DEF Added
<1>5. QED
  BY <1>3, <1>4

\* The evidence for a package, from the rows.
Evidence(cve, p) ==
    {[identifier |-> i, count |-> Cardinality(RowsFor(i, p))] :
        i \in {j \in IDs(IDsOf(cve)) : RowsFor(j, p) # {}}}

\* When all rows are analysed, the counts are the evidence.
LEMMA CountsAreEvidence ==
    ASSUME MatchingInv, phase = "ready", NEW cve \in files, NEW p
    PROVE  MatchesFor(counts, IDsOf(cve), p) = Evidence(cve, p)
<1>1. FoundInv /\ CountsInv /\ Analysed = DOMAIN table
  BY DEF MatchingInv, CountsInv, Analysed
<1>2. ASSUME NEW i
      PROVE  /\ Adders(<<i, p>>) = RowsFor(i, p)
             /\ BagIn(<<i, p>>, counts) <=> RowsFor(i, p) # {}
             /\ BagIn(<<i, p>>, counts) => counts[<<i, p>>] = Cardinality(RowsFor(i, p))
  <2>1. RowsFor(i, p) \subseteq DOMAIN table
    BY DEF RowsFor
  <2>2. Adders(<<i, p>>) = RowsFor(i, p)
    BY <1>1, <2>1, AddersSpeak DEF Adders
  <2>3. <<i, p>> \in DOMAIN counts <=> Adders(<<i, p>>) # {}
    BY <1>1 DEF CountsInv, Adders
  <2>4. <<i, p>> \in DOMAIN counts => counts[<<i, p>>] = Cardinality(Adders(<<i, p>>))
    BY <1>1 DEF CountsInv
  <2>5. QED
    BY <2>2, <2>3, <2>4 DEF BagIn, BagToSet
<1>3. QED
  BY <1>2 DEF MatchesFor, Evidence

\* The order of identifiers, and of packages, tells any two apart.
LEMMA OrdersTell ==
    ASSUME NEW order, order \in Seq(ToSet(order)), NEW x \in ToSet(order), NEW y \in ToSet(order)
    PROVE  At(order, x) \in Nat /\ (At(order, x) = At(order, y) => x = y)
<1>1. \A z \in ToSet(order) : \E n \in 1..Len(order) : order[n] = z
  BY DEF ToSet
<1>2. \A z \in ToSet(order) : At(order, z) \in 1..Len(order) /\ order[At(order, z)] = z
  BY <1>1 DEF At
<1>3. QED
  BY <1>2

\* What has an order is finite.
LEMMA OrderedIsFinite ==
    ASSUME NEW order, order \in Seq(ToSet(order))
    PROVE  IsFiniteSet(ToSet(order))
<1>1. order \in Surjection(1..Len(order), ToSet(order)) /\ Len(order) \in Nat
  BY DEF Surjection, ToSet
<1>2. IsFiniteSet(1..Len(order))
  BY <1>1, FS_Interval
<1>3. QED
  BY <1>1, <1>2, FS_Surjection

\* The evidence for a package is finite: its matches are numbers of rows, and each has an
\* identifier of its own, of those that have an order.
LEMMA EvidenceTypes ==
    ASSUME FoundInv, NEW cve \in files, NEW p
    PROVE  /\ IsFiniteSet(Evidence(cve, p))
           /\ \A m \in Evidence(cve, p) :
                /\ m = [identifier |-> m.identifier, count |-> m.count]
                /\ m.count \in Nat /\ m.identifier \in ToSet(IdentifierOrder)
           /\ \A m, n \in Evidence(cve, p) : m.identifier = n.identifier => m = n
<1> DEFINE E == Evidence(cve, p)
           I == ToSet(IdentifierOrder)
<1>1. IDs(IDsOf(cve)) \subseteq I
  <2>1. IDs(NoIdentifiers) = {}
    BY DEF IDs, NoIdentifiers, Values, NoWFNs
  <2>2. \A i \in DOMAIN ids : IDs(ids[i]) \subseteq I
    BY OrderAssumption DEF FoundInv
  <2>3. QED
    BY <2>1, <2>2 DEF IDsOf, Existing
<1>2. \A i : Cardinality(RowsFor(i, p)) \in Nat
  <2>1. table \in Seq(Row)
    BY MatchingAssumption DEF FoundInv
  <2>2. IsFiniteSet(DOMAIN table)
    BY <2>1, FS_Interval
  <2>3. \A i : RowsFor(i, p) \in SUBSET DOMAIN table
    BY DEF RowsFor
  <2>4. QED
    BY <2>2, <2>3, FS_Subset, FS_CardinalityType
<1>3. \A m \in E : /\ m = [identifier |-> m.identifier, count |-> m.count]
                  /\ m.count \in Nat /\ m.identifier \in I
                  /\ m.count = Cardinality(RowsFor(m.identifier, p))
  BY <1>1, <1>2 DEF Evidence
<1>4. \A m, n \in E : m.identifier = n.identifier => m = n
  BY <1>3
<1>5. IsFiniteSet(E)
  <2> DEFINE f == [m \in E |-> m.identifier]
  <2> HIDE DEF E, I
  <2>1. f \in Injection(E, I)
    BY <1>3, <1>4 DEF Injection, IsInjective
  <2>2. IsFiniteSet(I)
    BY OrderAssumption, OrderedIsFinite DEF I
  <2>3. QED
    BY <2>1, <2>2, FS_Injection
<1>6. QED
  BY <1>3, <1>4, <1>5

\* Any two matches of a package can be compared.
LEMMA MatchesHaveOrder ==
    ASSUME NEW E,
           \A m \in E : m.count \in Nat /\ m.identifier \in ToSet(IdentifierOrder),
           \A m, n \in E : m.identifier = n.identifier => m = n
    PROVE  IsOrder(ByCount(E), E)
<1> DEFINE at(m) == At(IdentifierOrder, m.identifier)
           R == ByCount(E)
<1>1. \A m \in E : m.count \in Nat /\ at(m) \in Nat
  BY OrderAssumption, OrdersTell
<1>2. \A m, n \in E : at(m) = at(n) => m = n
  BY OrderAssumption, OrdersTell
<1>3. \A m, n \in E : <<m, n>> \in R <=> m.count > n.count \/ (m.count = n.count /\ at(m) < at(n))
  BY DEF ByCount, MatchBefore
<1> HIDE DEF at, R
<1>4. QED
  BY <1>1, <1>2, <1>3 DEF IsOrder, R

\* The matches of a package are listed in that order.
LEMMA MatchesRanked ==
    ASSUME NEW E, IsFiniteSet(E),
           \A m \in E : m.count \in Nat /\ m.identifier \in ToSet(IdentifierOrder),
           \A m, n \in E : m.identifier = n.identifier => m = n
    PROVE  LET s == Ranked(E, ByCount(E))
           IN ToSet(s) = E /\ IsInjective(s) /\ \A j, k \in DOMAIN s : j < k => MatchBefore(s[j], s[k])
<1> DEFINE R == ByCount(E)
           s == Ranked(E, R)
<1>1. IsOrder(R, E)
  BY MatchesHaveOrder
<1>2. IsRanked(R, E, s)
  BY RankedIsRanked
<1>3. \A x, y : <<x, y>> \in R => MatchBefore(x, y)
  BY DEF ByCount
<1> HIDE DEF R, s
<1>4. ToSet(s) = E /\ IsInjective(s) /\ \A j, k \in DOMAIN s : j < k => <<s[j], s[k]>> \in R
  BY <1>1, <1>2, RankedInOrder
<1>5. QED
  BY <1>3, <1>4 DEF s, R

\* The packages are listed in theirs.
LEMMA PackagesRanked ==
    ASSUME NEW P, P \subseteq ToSet(PackageOrder), NEW total, \A q \in P : total[q] \in Nat
    PROVE  LET s == Ranked(P, ByTotal(P, total))
           IN /\ ToSet(s) = P /\ IsInjective(s)
              /\ \A j, k \in DOMAIN s : j < k => PackageBefore(total, s[j], s[k])
<1> DEFINE R == ByTotal(P, total)
           s == Ranked(P, R)
<1>1. IsFiniteSet(P)
  BY OrderAssumption, OrderedIsFinite, FS_Subset
<1>2. IsOrder(R, P)
  <2> DEFINE at(q) == At(PackageOrder, q)
  <2>1. \A q \in P : total[q] \in Nat /\ at(q) \in Nat
    BY OrderAssumption, OrdersTell
  <2>2. \A q, r \in P : at(q) = at(r) => q = r
    BY OrderAssumption, OrdersTell
  <2>3. \A q, r \in P : <<q, r>> \in R
                        <=> total[q] > total[r] \/ (total[q] = total[r] /\ at(q) < at(r))
    BY DEF ByTotal, PackageBefore
  <2> HIDE DEF at, R
  <2>4. QED
    BY <2>1, <2>2, <2>3 DEF IsOrder
<1>3. IsRanked(R, P, s)
  BY RankedIsRanked
<1>4. \A x, y : <<x, y>> \in R => PackageBefore(total, x, y)
  BY DEF ByTotal
<1> HIDE DEF R, s
<1>5. ToSet(s) = P /\ IsInjective(s) /\ \A j, k \in DOMAIN s : j < k => <<s[j], s[k]>> \in R
  BY <1>1, <1>2, <1>3, RankedInOrder
<1>6. QED
  BY <1>4, <1>5 DEF s, R

\* What Suggest makes of the counts for a CVE: the packages with evidence, in order, each
\* with its evidence, in order.
LEMMA SuggestionLists ==
    ASSUME MatchingInv, phase = "ready", NEW cve \in files
    PROVE  LET s == Suggestion(cve)
           IN /\ {s[n].package : n \in DOMAIN s} =
                   {p \in {Identity[q] : q \in DOMAIN Identity} : Evidence(cve, p) # {}}
              /\ \A n \in DOMAIN s :
                   LET m == s[n].matches
                   IN /\ ToSet(m) = Evidence(cve, s[n].package) /\ IsInjective(m)
                      /\ \A j, k \in DOMAIN m : j < k => MatchBefore(m[j], m[k])
              /\ \A j, k \in DOMAIN s : j < k =>
                   LET weight(n) == Total(Evidence(cve, s[n].package))
                   IN \/ weight(j) > weight(k)
                      \/ /\ weight(j) = weight(k)
                         /\ At(PackageOrder, s[j].package) < At(PackageOrder, s[k].package)
<1> DEFINE M(q)  == MatchesFor(counts, IDsOf(cve), q)
           C     == {q \in {pair[2] : pair \in DOMAIN counts} : M(q) # {}}
           sum   == [q \in C |-> Total(M(q))]
           list  == Ranked(C, ByTotal(C, sum))
           matches(q) == Ranked(M(q), ByCount(M(q)))
           P     == {p \in {Identity[q] : q \in DOMAIN Identity} : Evidence(cve, p) # {}}
           s     == Suggestion(cve)
<1>1. s = [i \in DOMAIN list |-> [package |-> list[i], matches |-> matches(list[i])]]
  BY DEF Suggestion, Suggest
<1>2. FoundInv /\ CountsInv
  BY DEF MatchingInv
<1>3. \A q : M(q) = Evidence(cve, q)
  BY CountsAreEvidence
<1>4. C = P
  <2>1. \A q \in C : q \in {Identity[p] : p \in DOMAIN Identity}
    BY <1>2, CountedPackages
  <2>2. ASSUME NEW p, M(p) # {}
        PROVE  p \in {pair[2] : pair \in DOMAIN counts}
    <3>1. PICK i : BagIn(<<i, p>>, counts)
      BY <2>2 DEF MatchesFor
    <3>2. <<i, p>> \in DOMAIN counts /\ <<i, p>>[2] = p
      BY <3>1 DEF BagIn, BagToSet
    <3>3. QED
      BY <3>2
  <2> HIDE DEF M
  <2>3. QED
    BY <1>3, <2>1, <2>2
<1>5. C \subseteq ToSet(PackageOrder)
  BY <1>4, OrderAssumption
<1>6. \A q : /\ IsFiniteSet(M(q))
             /\ \A m \in M(q) : m.count \in Nat /\ m.identifier \in ToSet(IdentifierOrder)
             /\ \A m, n \in M(q) : m.identifier = n.identifier => m = n
  BY <1>2, <1>3, EvidenceTypes
<1>7. \A q \in C : sum[q] = Total(M(q)) /\ sum[q] \in Nat
  BY <1>6, TotalIsNumber
<1>8. /\ ToSet(list) = C /\ IsInjective(list)
      /\ \A j, k \in DOMAIN list : j < k => PackageBefore(sum, list[j], list[k])
  <2> HIDE DEF C, sum
  <2>1. QED
    BY <1>5, <1>7, PackagesRanked
<1>9. \A q : /\ ToSet(matches(q)) = M(q) /\ IsInjective(matches(q))
             /\ \A j, k \in DOMAIN matches(q) : j < k => MatchBefore(matches(q)[j], matches(q)[k])
  <2> HIDE DEF M
  <2>1. QED
    BY <1>6, MatchesRanked
<1> HIDE DEF M, C, sum, list, matches, s
<1>10. /\ DOMAIN s = DOMAIN list
       /\ \A n \in DOMAIN s : s[n].package = list[n] /\ s[n].matches = matches(list[n])
  BY <1>1
<1>11. {s[n].package : n \in DOMAIN s} = P
  <2>1. {s[n].package : n \in DOMAIN s} = ToSet(list)
    BY <1>10 DEF ToSet
  <2>2. QED
    BY <1>4, <1>8, <2>1
<1>12. ASSUME NEW j \in DOMAIN s, NEW k \in DOMAIN s, j < k
       PROVE  LET weight(n) == Total(Evidence(cve, s[n].package))
              IN \/ weight(j) > weight(k)
                 \/ /\ weight(j) = weight(k)
                    /\ At(PackageOrder, s[j].package) < At(PackageOrder, s[k].package)
  <2>1. list[j] \in C /\ list[k] \in C
    BY <1>8, <1>10 DEF ToSet
  <2>2. PackageBefore(sum, list[j], list[k])
    BY <1>8, <1>10, <1>12
  <2>3. /\ sum[list[j]] = Total(Evidence(cve, s[j].package))
        /\ sum[list[k]] = Total(Evidence(cve, s[k].package))
    BY <1>3, <1>7, <1>10, <2>1
  <2>4. QED
    BY <1>10, <2>2, <2>3 DEF PackageBefore
<1>13. ASSUME NEW n \in DOMAIN s
       PROVE  LET m == s[n].matches
              IN /\ ToSet(m) = Evidence(cve, s[n].package) /\ IsInjective(m)
                 /\ \A j, k \in DOMAIN m : j < k => MatchBefore(m[j], m[k])
  BY <1>3, <1>9, <1>10
<1>14. QED
  BY <1>11, <1>12, <1>13 DEF s

\* Whatever order the rows came in, suggestions are the packages of Debian's history, with
\* the number of rows behind each identifier, and in the one order there is.
THEOREM SuggestionsAreRight == Spec => []SuggestionsMatchHistory
<1>1. ASSUME MatchingInv
      PROVE  SuggestionsMatchHistory
  BY <1>1, SuggestionLists DEF SuggestionsMatchHistory, Evidence, MatchBefore
<1>2. QED
  BY <1>1, MatchingInvariance, PTL
=============================================================================
