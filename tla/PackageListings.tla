--------------------------- MODULE PackageListings ---------------------------
(***************************************************************************)
(* What is read of a listing of packages (internal/gardenlinux/packages):  *)
(* the Packages.gz files of a pool and the SBOM of a flavor.               *)
(*                                                                         *)
(* Names and versions are what the later steps tell apart.  Version 0 is a *)
(* string that is not a Debian version; two of them are the same here.     *)
(***************************************************************************)
EXTENDS Naturals, FiniteSets, SequencesExt

CONSTANTS
    Names,            \* well-formed names of binary and source packages
    PackageVersions,
    Components,       \* what a package may carry a copy of
    Missing,          \* a field that is absent or empty
    Malformed         \* a name or a PURL that is not well-formed

ASSUME ListingAssumption ==
    /\ PackageVersions \subseteq Nat \ {0}
    /\ Names \cap Components = {} /\ {Missing, Malformed} \cap (Names \cup Components) = {}

Namespaces == {"debian", "gardenlinux", "other"}

VersionFields == PackageVersions \cup {0, Missing}

Package == [name : Names, source : Names, version : PackageVersions \cup {0},
            sourceVersion : PackageVersions \cup {0}, namespace : Namespaces]
Target  == [source : Names, namespace : Namespaces]
Rule    == [component : Names \cup Components \cup {Malformed}, target : Target]

Identity(p) == [source |-> p.source, namespace |-> p.namespace]

Given(field, default) == IF field = Missing THEN default ELSE field

-----------------------------------------------------------------------------
(* A pool: a list of paragraphs for each architecture.                     *)

\* Not readable: a line that is none, a field twice, no architecture.
Paragraph == [readable : BOOLEAN, name : Names \cup {Missing, Malformed},
              source : Names \cup {Missing, Malformed},
              version : VersionFields, sourceVersion : VersionFields]

Valid(p) ==
    /\ p.readable /\ p.name \in Names /\ p.version # Missing
    /\ p.source \in Names \cup {Missing}

ParsedPackage(p) ==
    [name          |-> p.name,
     source        |-> Given(p.source, p.name),
     version       |-> p.version,
     sourceVersion |-> Given(p.sourceVersion, p.version),
     namespace     |-> "gardenlinux"]

\* Of one list that cannot be parsed nothing is taken, and nothing of the others.
Parsable(lists) == \A i \in DOMAIN lists : \A p \in ToSet(lists[i]) : Valid(p)

\* Packages by their place: the list, and the place in it.
Places(lists) == UNION {{n} \X DOMAIN lists[n] : n \in DOMAIN lists}

Before(x, y) == x[1] < y[1] \/ (x[1] = y[1] /\ x[2] < y[2])

Parsed(lists) == [x \in Places(lists) |-> ParsedPackage(lists[x[1]][x[2]])]

\* What is no version is higher than nothing.
HigherDebVersion(v, w) == v > w

\* Mutant: the first version listed of a source is the one that counts.
FirstListed(packages) ==
    [x \in {y \in DOMAIN packages : \A z \in DOMAIN packages :
                Before(z, y) /\ packages[z].source = packages[y].source
                    => packages[z].sourceVersion = packages[y].sourceVersion} |-> packages[x]]

\* Of each source its highest version, and of the binaries of that version the
\* highest of each name, whichever source it comes from; the first of equals.
SelectInstalledVersions(packages) ==
    LET kept == {x \in DOMAIN packages : \A y \in DOMAIN packages :
                    packages[y].source = packages[x].source
                        => ~HigherDebVersion(packages[y].sourceVersion, packages[x].sourceVersion)}
        Beats(x, y) == \/ HigherDebVersion(packages[x].version, packages[y].version)
                       \/ packages[x].version = packages[y].version /\ Before(x, y)
    IN [x \in {y \in kept : \A z \in kept :
                  z # y /\ packages[z].name = packages[y].name => Beats(y, z)} |-> packages[x]]

-----------------------------------------------------------------------------
(* An SBOM: components, and which depends on which.                        *)

PURL == [type : {"deb", "other"}, namespace : Namespaces \cup {Missing},
         name : Names \cup Components \cup {Malformed}, version : VersionFields,
         upstream : Names \cup {Missing, Malformed}, upstreamVersion : VersionFields]

\* source is the property that syft adds.
BOMComponent == [ref : STRING, isPackage : BOOLEAN, name : Names \cup Components \cup {Malformed},
                 version : VersionFields, source : Names \cup {Missing, Malformed},
                 purl : PURL \cup {Missing, Malformed}]

BOM == [components : Seq(BOMComponent), edges : SUBSET (STRING \X STRING)]

NoRef == ""

Bucket(c) ==
    CASE c.purl = Missing   -> IF c.isPackage THEN "unknown" ELSE "ignored"
      [] c.purl = Malformed -> "unknown"
      [] OTHER              -> c.purl.type

\* The places of the components of a kind.
In(bom, bucket) == {i \in DOMAIN bom.components : Bucket(bom.components[i]) = bucket}

\* The qualifier before the property before the name of the binary.
SourceName(c) == Given(c.purl.upstream, Given(c.source, c.purl.name))

Namespace(c) == Given(c.purl.namespace, "debian")

Convertible(c) ==
    /\ c.purl.name = c.name /\ c.name \in Names
    /\ c.purl.version # Missing /\ c.purl.version = c.version
    /\ SourceName(c) \in Names

DebPackage(c) ==
    [name          |-> c.name,
     source        |-> SourceName(c),
     version       |-> c.version,
     sourceVersion |-> IF c.purl.upstream # Missing THEN Given(c.purl.upstreamVersion, c.version)
                                                    ELSE c.version,
     namespace     |-> Namespace(c)]

\* Nothing is passed over: a component that is none of the three kinds fails the SBOM.
Understood(bom) ==
    /\ bom.components # <<>> /\ In(bom, "unknown") = {}
    /\ \A i \in In(bom, "deb") : Convertible(bom.components[i])

\* An SBOM is one list.
PackageListFromSBOM(bom) ==
    [x \in {1} \X In(bom, "deb") |-> DebPackage(bom.components[x[2]])]

\* A component that an edge leads to; of several with one ref the last.
Referenced(bom, ref) ==
    LET at == {i \in In(bom, "other") : bom.components[i].ref = ref /\ ref # NoRef}
    IN {bom.components[i] : i \in {j \in at : \A k \in at : k <= j}}

\* The direct dependencies of the Debian packages that are no Debian packages.
VendoredFromSBOM(bom) ==
    UNION {{[component |-> child.purl.name, target |-> Identity(DebPackage(c))] :
              child \in UNION {Referenced(bom, edge[2]) : edge \in {e \in bom.edges : e[1] = c.ref}}} :
           c \in {bom.components[i] : i \in In(bom, "deb")}}
=============================================================================
