---------------------------- MODULE CVEIdentifiers ----------------------------
(***************************************************************************)
(* The identifiers of the software a CVE affects, as GetIDsForCVEs collects *)
(* them from the containers of a CVE file                                  *)
(* (internal/cvelistv5/cve_list_v5_service.go).                            *)
(*                                                                         *)
(* The slices of Identifiers hold no duplicates and are only ever searched, *)
(* so they are sets here.  The WFNs stay a map: of two that differ in case *)
(* it keeps one.                                                           *)
(***************************************************************************)
EXTENDS CPENames

CONSTANT
    Normalized   \* a vendor or product as the CVE spells it |-> lower case, trimmed

\* What a CVE file says, as far as it is read here.
AffectedEntry == [vendor : DOMAIN Normalized, product : DOMAIN Normalized, cpes : Seq(CPE),
                  collection : DOMAIN Lower, package : DOMAIN Lower, url : STRING]
CVE == [id : STRING, containers : Seq([affected : Seq(AffectedEntry), criteria : Seq(CPE)])]

ASSUME NormalizedAssumption == Normalized \in [DOMAIN Normalized -> DOMAIN Lower]

NotAvailable == "n/a"

NoIdentifiers == [pairs |-> {}, wfns |-> NoWFNs, packages |-> {}, urls |-> {}]

Merge(a, b) ==
    [pairs    |-> a.pairs \cup b.pairs,
     wfns     |-> Union(a.wfns, b.wfns),
     packages |-> a.packages \cup b.packages,
     urls     |-> a.urls \cup b.urls]

IsEmpty(ids) == ids = NoIdentifiers

VendorProducts(entry) ==
    LET vendor == Normalized[entry.vendor]
        product == Normalized[entry.product]
    IN IF vendor = Absent \/ product \in {Absent, NotAvailable}
       THEN {} ELSE {<<vendor, product>>}

AffectedIdentifiers(affected) ==
    LET entries == ToSet(affected)
    IN [pairs    |-> UNION {VendorProducts(e) : e \in entries},
        wfns     |-> NewUniqueWFNMapFrom(
                         ParsedWFNs([i \in 1..Len(affected) |-> affected[i].cpes])),
        packages |-> {<<e.collection, e.package>> :
                         e \in {a \in entries : a.collection # Absent /\ a.package # Absent}},
        urls     |-> {e.url : e \in entries} \ {Absent}]

\* A map of CVE IDs to identifiers; an ID without an entry is not in its domain.
Existing(map, id) == IF id \in DOMAIN map THEN map[id] ELSE NoIdentifiers

Put(map, id, ids) == [i \in DOMAIN map \cup {id} |-> IF i = id THEN ids ELSE map[i]]

\* Mutant: the identifiers of a later container replace those of an earlier one.
ReplaceAffectedEntries(map, id, affected) ==
    LET new == AffectedIdentifiers(affected)
    IN IF IsEmpty(new) THEN map ELSE Put(map, id, new)

ProcessAffectedEntries(map, id, affected) ==
    LET new == AffectedIdentifiers(affected)
    IN IF IsEmpty(new) THEN map ELSE Put(map, id, Merge(Existing(map, id), new))

ProcessApplicabilityStatements(map, id, criteria) ==
    LET new == ParsedWFNs(<<criteria>>)
    IN IF DOMAIN new = {} THEN map
       ELSE Put(map, id, [Existing(map, id) EXCEPT !.wfns = AddAll(@, new)])

ProcessContainer(map, id, container) ==
    ProcessApplicabilityStatements(
        ProcessAffectedEntries(map, id, container.affected), id, container.criteria)

\* The CNA container first, then each ADP container.
ProcessContainers(map, cve) ==
    LET after[n \in 0..Len(cve.containers)] ==
            IF n = 0 THEN map
            ELSE ProcessContainer(after[n - 1], cve.id, cve.containers[n])
    IN after

ProcessCVE(map, cve) == ProcessContainers(map, cve)[Len(cve.containers)]

-----------------------------------------------------------------------------
(* What a CVE names in any of its containers, said without a map.          *)

AffectedEntries(cve) == UNION {ToSet(cve.containers[i].affected) : i \in DOMAIN cve.containers}

\* Every name that is a CPE, as it is spelled.
NamedWFNs(cve) ==
    LET names == (UNION {ToSet(e.cpes) : e \in AffectedEntries(cve)})
                 \cup (UNION {ToSet(cve.containers[i].criteria) : i \in DOMAIN cve.containers})
    IN {Decoded(c) : c \in {n \in names : Parses(n)}}

\* The identifiers of a CVE are all it names; of the spellings of one CPE there is one.
HoldsAll(ids, cve) ==
    /\ ids.pairs = UNION {VendorProducts(e) : e \in AffectedEntries(cve)}
    /\ Values(ids.wfns) \subseteq NamedWFNs(cve)
    /\ \A w \in NamedWFNs(cve) :
         Cardinality({k \in DOMAIN ids.wfns : WFNKey(ids.wfns[k]) = WFNKey(w)}) = 1
    /\ ids.packages = {<<e.collection, e.package>> :
                          e \in {a \in AffectedEntries(cve) :
                                     Absent \notin {a.collection, a.package}}}
    /\ ids.urls = {e.url : e \in {a \in AffectedEntries(cve) : a.url # Absent}}

NamesNothing(cve) ==
    /\ NamedWFNs(cve) = {}
    /\ \A e \in AffectedEntries(cve) :
         VendorProducts(e) = {} /\ Absent \in {e.collection, e.package} /\ e.url = Absent
=============================================================================
