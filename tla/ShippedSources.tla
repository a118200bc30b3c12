---------------------------- MODULE ShippedSources ----------------------------
(***************************************************************************)
(* What Garden Linux ships (internal/gardenlinux: glrd, version, sbom.Feed *)
(* and its three consumers inventory, vendormap and shippedversions).      *)
(*                                                                         *)
(* Each maintained release is delivered, in the order of the release list, *)
(* either by the SBOMs of all its flavors or, if one of them has none, by  *)
(* the package pool of its suite.  An SBOM is fetched once for all three.  *)
(* The pool is downloaded by the inventory and again by the index, list by *)
(* list, while it may change.                                              *)
(***************************************************************************)
EXTENDS PackageListings, Integers

CONSTANTS
    Worlds,         \* a name |-> what is published under it
    Now,            \* when the run starts
    NoSBOM,         \* nothing is published for a flavor
    MinPURLs,       \* threshold of the inventory
    MinPerRelease,  \* threshold of each release
    FetchFailures   \* may a download fail?

Moments == {"before", "after"}

\* boms: the SBOM of each flavor.  eol 0: no end of life is announced.
Release == [version : Seq(Nat), eol : Nat, boms : Seq(BOM \cup {NoSBOM})]

\* The name of a suite, which is the key of a release too: a release before 2017
\* has no third number.
SemverMajorThreshold == 2017
ReleaseKey(release) ==
    SubSeq(release.version, 1, IF release.version[1] >= SemverMajorThreshold THEN 3 ELSE 2)

\* A pool is a list of paragraphs for each architecture, before and after a change.
World == [releases : Seq(Release), pools : [Moments -> Seq(Seq(Seq(Paragraph)))]]

ASSUME ShippedAssumption ==
    \A w \in DOMAIN Worlds :
        /\ Worlds[w] \in World
        /\ \A m \in Moments : Len(Worlds[w].pools[m]) = Len(Worlds[w].releases)

\* In an archive a binary of one name and version is one package.
ASSUME ArchiveAssumption ==
    \A w \in DOMAIN Worlds : \A i \in DOMAIN Worlds[w].releases :
        LET lists == UNION {ToSet(Worlds[w].pools[m][i]) : m \in Moments}
        IN \A p, q \in {x \in UNION {ToSet(packages) : packages \in lists} : Valid(x)} :
              LET binary == ParsedPackage(p) other == ParsedPackage(q)
              IN binary.name = other.name /\ binary.version = other.version => binary = other

Consumers == {"inventory", "index"}

NotKnown == -1

VARIABLES
    world,      \* its name
    moment,     \* of the pools
    left,       \* what is still to be delivered: releases with a flavor or with Pool
    consumer,   \* whose turn it is to download a pool,
    due,        \* how many lists its InRelease file names,
    read,       \* and when those downloaded so far were read
    seen,       \* the same, for each download that is complete
    inventory,  \* identities of all sources shipped
    rules,      \* from a vendored component to the source that carries it
    index,      \* per release delivered, its sources with their versions
    feed        \* "reading", "complete" or "failed"

projections  == <<inventory, rules, index>>
downloadVars == <<consumer, due, read, seen>>
shippedVars  == <<world, moment, left, downloadVars, projections, feed>>

IsMaintained(release) == release.eol = 0 \/ Now < release.eol

\* The maintained releases, by their place in the list.
Maintained ==
    {i \in DOMAIN Worlds[world].releases : IsMaintained(Worlds[world].releases[i])}

BOMs(i) == Worlds[world].releases[i].boms
Key(i)  == ReleaseKey(Worlds[world].releases[i])

\* Mutant: the SBOMs that there are count as the set.
CompleteIfAny(boms) == \E f \in DOMAIN boms : boms[f] # NoSBOM

Complete(boms) == boms # <<>> /\ \A f \in DOMAIN boms : boms[f] # NoSBOM

Pool == 0

\* What is to be delivered for a release.
DueFrom(i) ==
    IF Complete(BOMs(i))
    THEN {f \in DOMAIN BOMs(i) : BOMs(i)[f] # NoSBOM}
    ELSE {Pool}

NoneSeen == [c \in Consumers |-> <<>>]

ShippedInit ==
    /\ world \in DOMAIN Worlds /\ moment = "before"
    /\ left = UNION {{i} \X DueFrom(i) : i \in Maintained}
    /\ consumer = "inventory" /\ due = NotKnown /\ read = <<>> /\ seen = NoneSeen
    /\ inventory = {} /\ rules = {} /\ index = <<>>
    /\ feed = "reading"

-----------------------------------------------------------------------------

\* A PURL of Debian is looked up under Garden Linux, too, and the other way round.
Variants(namespace) ==
    IF namespace \in {"debian", "gardenlinux"} THEN {"debian", "gardenlinux"} ELSE {namespace}

\* Mutant: a PURL is looked up as it is.
GetExact(S, t) == {p \in S : p.source = t.source /\ p.namespace = t.namespace}

Get(S, t) == {p \in S : p.source = t.source /\ p.namespace \in Variants(t.namespace)}

ShippedSource == [source : Names, namespace : Namespaces, version : PackageVersions \cup {0}]

SourceOf(p) == [source |-> p.source, namespace |-> p.namespace, version |-> p.sourceVersion]

\* The first package of a source is the one that is kept.
Added(sources, packages) ==
    LET Known(x) == sources \cup {SourceOf(packages[y]) : y \in {z \in DOMAIN packages : Before(z, x)}}
    IN sources \cup {SourceOf(packages[x]) :
                        x \in {y \in DOMAIN packages : Get(Known(y), Identity(packages[y])) = {}}}

\* ErrMultipleVersions.
Conflict(sources, packages) ==
    \E p \in Range(packages) :
        \E q \in Get(Added(sources, packages), Identity(p)) : q.version # p.sourceVersion

SourcesOf(k) == IF k \in DOMAIN index THEN index[k] ELSE {}

\* Each consumer adds the packages of a release to what it has.
ToInventory(packages) == inventory' = inventory \cup {Identity(p) : p \in Range(packages)}

ToIndex(k, packages) ==
    /\ ~Conflict(SourcesOf(k), packages)
    /\ index' = [j \in DOMAIN index \cup {k} |->
                   IF j = k THEN Added(SourcesOf(k), packages) ELSE index[j]]

\* Release by release, and flavor by flavor.
Delivering(i, f) ==
    /\ feed = "reading" /\ <<i, f>> \in left
    /\ \A d \in left : ~Before(d, <<i, f>>)

\* One SBOM, for every consumer.
AddSBOM(i, f) ==
    /\ f # Pool /\ Delivering(i, f) /\ Understood(BOMs(i)[f])
    /\ ToInventory(PackageListFromSBOM(BOMs(i)[f]))
    /\ rules' = rules \cup VendoredFromSBOM(BOMs(i)[f])
    /\ ToIndex(Key(i), PackageListFromSBOM(BOMs(i)[f]))
    /\ left' = left \ {<<i, f>>}
    /\ UNCHANGED <<world, moment, downloadVars, feed>>

\* The lists that stand in the pool of a release.
ListsAt(i, m) == Worlds[world].pools[m][i]

GetInReleaseFile(i) ==
    /\ Delivering(i, Pool) /\ due = NotKnown
    /\ due' = Len(ListsAt(i, moment))
    /\ UNCHANGED <<world, moment, left, consumer, read, seen, projections, feed>>

\* The paths are those of every release of the pool, and the checksums of the
\* InRelease file are not compared: whatever stands there is taken.
GetPackageList(i) ==
    /\ Delivering(i, Pool) /\ due # NotKnown /\ Len(read) < due
    /\ Len(read) < Len(ListsAt(i, moment))
    /\ read' = Append(read, moment)
    /\ UNCHANGED <<world, moment, left, consumer, due, seen, projections, feed>>

Downloaded(i, moments) == [n \in DOMAIN moments |-> ListsAt(i, moments[n])[n]]

PackageListsFromInRelease(i, moments) == SelectInstalledVersions(Parsed(Downloaded(i, moments)))

\* The consumer whose turn it is has all lists.
MissingSBOMSet(i) ==
    /\ Delivering(i, Pool) /\ Len(read) = due /\ Parsable(Downloaded(i, read))
    /\ \/ /\ consumer = "inventory"
          /\ ToInventory(PackageListsFromInRelease(i, read))
          /\ consumer' = "index"
          /\ UNCHANGED <<left, index>>
       \/ /\ consumer = "index"
          /\ ToIndex(Key(i), PackageListsFromInRelease(i, read))
          /\ consumer' = "inventory" /\ left' = left \ {<<i, Pool>>}
          /\ UNCHANGED inventory
    /\ due' = NotKnown /\ read' = <<>>
    /\ seen' = [seen EXCEPT ![consumer] = [j \in DOMAIN @ \cup {i} |-> IF j = i THEN read ELSE @[j]]]
    /\ UNCHANGED <<world, moment, rules, feed>>

AboveThresholds ==
    /\ Cardinality(inventory) >= MinPURLs
    /\ \A k \in DOMAIN index : Cardinality(index[k]) >= MinPerRelease

Result ==
    /\ feed = "reading" /\ left = {} /\ AboveThresholds
    /\ feed' = "complete"
    /\ UNCHANGED <<world, moment, left, downloadVars, projections>>

\* What is due cannot be delivered.
Undeliverable(i, f) ==
    \/ f # Pool /\ \/ ~Understood(BOMs(i)[f])
                   \/ Conflict(SourcesOf(Key(i)), PackageListFromSBOM(BOMs(i)[f]))
    \/ f = Pool /\ due # NotKnown
         /\ \/ Len(read) < due /\ Len(read) >= Len(ListsAt(i, moment))
            \/ ~Parsable(Downloaded(i, read))
            \/ /\ Len(read) = due /\ consumer = "index"
               /\ Conflict(SourcesOf(Key(i)), PackageListsFromInRelease(i, read))

FeedFails ==
    /\ feed = "reading"
    /\ \/ FetchFailures
       \/ \E d \in left : Delivering(d[1], d[2]) /\ Undeliverable(d[1], d[2])
       \/ left = {} /\ ~AboveThresholds
    /\ feed' = "failed"
    /\ UNCHANGED <<world, moment, left, downloadVars, projections>>

Feed ==
    \/ \E d \in left :
          LET i == d[1] f == d[2]
          IN AddSBOM(i, f) \/ GetInReleaseFile(i) \/ GetPackageList(i) \/ MissingSBOMSet(i)
    \/ Result \/ FeedFails

\* Somebody publishes new packages.
PoolsChange ==
    /\ feed = "reading" /\ moment = "before"
    /\ Worlds[world].pools["before"] # Worlds[world].pools["after"]
    /\ moment' = "after"
    /\ UNCHANGED <<world, left, downloadVars, projections, feed>>

ShippedSpec == ShippedInit /\ [][Feed \/ PoolsChange]_shippedVars

-----------------------------------------------------------------------------
(* What the releases ship, read from what is published.                    *)

MaintainedReleases ==
    {i \in DOMAIN Worlds[world].releases :
        LET eol == Worlds[world].releases[i].eol IN eol = 0 \/ eol > Now}

Releases == {Key(i) : i \in MaintainedReleases}

HasAllSBOMs(i) == BOMs(i) # <<>> /\ NoSBOM \notin ToSet(BOMs(i))

\* Of a pool apt installs the binaries of the newest version of each source, unless
\* another source has a higher one of that name.
AptInstalls(lists) ==
    LET all == {ParsedPackage(p) : p \in UNION {ToSet(lists[n]) : n \in DOMAIN lists}}
        newest == {p \in all : \A q \in all : q.source = p.source => q.sourceVersion <= p.sourceVersion}
    IN {p \in newest : \A q \in newest : q.name = p.name => q.version <= p.version}

\* The packages of a release, as a consumer came to know them.
PublishedFor(i, c) ==
    IF HasAllSBOMs(i)
    THEN {DebPackage(x) : x \in {y \in UNION {ToSet(BOMs(i)[f].components) : f \in DOMAIN BOMs(i)} :
                                   y.purl # Missing /\ y.purl.type = "deb"}}
    ELSE AptInstalls(IF i \in DOMAIN seen[c] THEN Downloaded(i, seen[c][i]) ELSE <<>>)

PublishedAs(k, c) == UNION {PublishedFor(i, c) : i \in {j \in MaintainedReleases : Key(j) = k}}

\* What Debian and Garden Linux call by the same name is the same source.
SameAs(namespace) ==
    {namespace} \cup {n \in {"debian", "gardenlinux"} : namespace \in {"debian", "gardenlinux"}}

ShippedVersions(k, t, c) ==
    {p.sourceVersion : p \in {q \in PublishedAs(k, c) :
        q.source = t.source /\ q.namespace \in SameAs(t.namespace)}}

\* A run goes on only with complete projections: every maintained release is in the
\* index; each source it ships is there in the one version it is shipped in, whichever
\* of its namespaces it is asked for by, and nothing else is; and the inventory that
\* gates CVEs is the union of the releases, each as it was downloaded.  A release of
\* which one flavor has no SBOM is known by its pool, not by the flavors that have one.
ProjectionsMatchReleases ==
    feed = "complete" =>
        /\ DOMAIN index = Releases
        /\ \A k \in Releases :
             LET shipped == {SourceOf(p) : p \in PublishedAs(k, "index")}
             IN /\ index[k] \subseteq shipped
                /\ \A p \in shipped :
                     {q.version : q \in {e \in index[k] : e.source = p.source
                                           /\ e.namespace \in SameAs(p.namespace)}} = {p.version}
        /\ inventory = UNION {{Identity(p) : p \in PublishedFor(i, "inventory")} :
                                i \in MaintainedReleases}

\* What a list held in this run.
ListsInRun(i) == UNION {ToSet(ListsAt(i, m)) : m \in {"before", moment}}

\* The newest version of a source for an architecture, at some moment of the run.
WasNewest(i, source, version) ==
    \E packages \in ListsInRun(i) :
        LET of == {p \in {ParsedPackage(x) : x \in ToSet(packages)} : p.source = source}
        IN \E p \in of : p.sourceVersion = version /\ \A q \in of : q.sourceVersion <= version

\* Whatever is published while the lists are downloaded one by one, and twice: a
\* version in the index is one that the release did ship for an architecture at some
\* moment of the run, never one that a newer version had replaced by then.
IndexedVersionWasShipped ==
    feed = "complete" =>
        \A k \in DOMAIN index : \A p \in index[k] :
            \E i \in MaintainedReleases :
                /\ Key(i) = k
                /\ \/ HasAllSBOMs(i)
                   \/ WasNewest(i, p.source, p.version)
=============================================================================
