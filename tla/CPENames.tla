------------------------------- MODULE CPENames -------------------------------
(***************************************************************************)
(* CPE names (internal/cpe): parsing in both formats, the binding as a     *)
(* CPE 2.3 string, and the map of WFNs that are equal but for their case.  *)
(*                                                                         *)
(* A text is the value of one attribute.  Of the eleven attributes of a    *)
(* WFN three are kept when a CVE's names are collected (part, vendor and   *)
(* product); the others are ANY here from the start.                       *)
(***************************************************************************)
EXTENDS Naturals, FiniteSets, SequencesExt

CONSTANTS
    Lower,      \* a text |-> the text in lower case
    Bound,      \* a text |-> the text with every special character escaped
    IllFormed   \* texts with a wildcard inside, or a backslash at the end

Absent   == ""
AnyValue == "*"
NoValue  == "-"

Formats    == {"2.2", "2.3", "other"}
Attributes == {"part", "vendor", "product"}

\* A CPE string, by its fields.
CPE == [format : Formats, part : DOMAIN Lower, vendor : DOMAIN Lower, product : DOMAIN Lower]
WFN == [Attributes -> DOMAIN Lower]

ASSUME CPEAssumption ==
    /\ {Absent, AnyValue, NoValue, "a", "o", "h"} \subseteq DOMAIN Lower
    /\ Lower \in [DOMAIN Lower -> DOMAIN Lower] /\ Bound \in [DOMAIN Lower -> DOMAIN Lower]
    /\ \A t \in DOMAIN Lower : Lower[Lower[t]] = Lower[t] /\ Bound[Bound[t]] = Bound[t]
    /\ \A t \in {Absent, AnyValue, NoValue} : Lower[t] = t /\ Bound[t] = t
    /\ IllFormed \subseteq DOMAIN Lower

\* A 2.2 field keeps its case, and an empty one means ANY.
DecodeAV22(t) == IF t = Absent THEN AnyValue ELSE t

DecodeAV23(t) == Lower[t]

Decoded(c) ==
    [a \in Attributes |-> IF c.format = "2.2" THEN DecodeAV22(c[a]) ELSE DecodeAV23(c[a])]

Valid(w) ==
    /\ w.part \in {AnyValue, NoValue, "a", "o", "h"}
    /\ \A a \in Attributes : w[a] # Absent /\ w[a] \notin IllFormed

Parses(c) == c.format \in {"2.2", "2.3"} /\ Valid(Decoded(c))

HasVendorProduct(w) == {w.vendor, w.product} \cap {AnyValue, NoValue} = {}

FormatAsCPE23String(w) == [a \in Attributes |-> Bound[w[a]]]

-----------------------------------------------------------------------------
(* UniqueWFNMap.                                                           *)

WFNKey(w) == [a \in Attributes |-> Lower[Bound[w[a]]]]

NoWFNs == [k \in {} |-> k]

\* The WFNs of the names that parse, each at the place of its name: a list and a number.
ParsedWFNs(lists) ==
    [x \in {y \in UNION {{n} \X DOMAIN lists[n] : n \in DOMAIN lists} : Parses(lists[y[1]][y[2]])}
        |-> Decoded(lists[x[1]][x[2]])]

\* The order in which the code comes upon names.
Earlier(x, y) == x[1] < y[1] \/ (x[1] = y[1] /\ x[2] < y[2])

\* Add, one after the other, to an empty map: the first with a key stays.
NewUniqueWFNMapFrom(wfns) ==
    [k \in {WFNKey(wfns[x]) : x \in DOMAIN wfns} |->
        LET places == {x \in DOMAIN wfns : WFNKey(wfns[x]) = k}
        IN wfns[CHOOSE x \in places : \A y \in places : ~Earlier(y, x)]]

\* Of two with the same key, the second map's stays.
Union(map, other) ==
    [k \in DOMAIN map \cup DOMAIN other |-> IF k \in DOMAIN other THEN other[k] ELSE map[k]]

\* Add, one after the other: what is there stays.
AddAll(map, wfns) == Union(NewUniqueWFNMapFrom(wfns), map)

Values(map) == {map[k] : k \in DOMAIN map}
=============================================================================
