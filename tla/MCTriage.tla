------------------------------- MODULE MCTriage -------------------------------
(***************************************************************************)
(* Two CVEs and a temporary id, two sources, three releases of which one   *)
(* has reached its end of life.                                            *)
(***************************************************************************)
EXTENDS Triage

CONSTANTS c1, c2, xxxx, a, b, comp

Unset(kind, id) == [kind |-> kind, id |-> id, source |-> a,
                    sid |-> [token |-> "other", version |-> 0]]
Pkg(id, s, t, v) == [kind |-> "package", id |-> id, source |-> s,
                     sid |-> [token |-> t, version |-> v]]

MCBody == {Pkg(c1, a, "version", 2), Pkg(c1, a, "unfixed", 0), Pkg(c1, a, "not-affected", 0),
           Pkg(c1, a, "undetermined", 0), Pkg(c1, b, "version", 1)}
          \cup {Unset(k, c1) : k \in {"not-for-us", "release", "check", "rejected",
                                     "advisory or note", "malformed"}}

Header(id) == Unset("header", id)
MCTails == {<<>>, <<Header(c2), Pkg(c2, b, "version", 2)>>,
            <<Header(xxxx), Pkg(xxxx, a, "unfixed", 0)>>, <<Header(c2), Unset("reserved", c2)>>}

\* Two lines in an entry, one of them a package, or one with another entry after it.
MCPairs == {<<x, y>> \in MCBody \X MCBody :
               /\ "package" \in {x.kind, y.kind}
               /\ {x.kind, y.kind} \cap {"advisory or note", "malformed"} = {}}

MCLists ==
    [lines : {<<Header(c1)>> \o pair : pair \in MCPairs}
             \cup {<<Header(c1)>> \o tail : tail \in MCTails}
             \cup {<<Header(c1), x>> : x \in MCBody}
             \cup {<<Header(c1), x, Header(c2), Pkg(c2, b, "version", 2)>> : x \in MCBody},
     terminated : {TRUE}]
    \cup [lines : {<<>>, <<Pkg(c1, a, "unfixed", 0)>>, <<Header(c1), Header(c1)>>,
                   <<Header(c1), Unset("rejected", c1), Header(c1), Pkg(c1, a, "unfixed", 0)>>},
          terminated : BOOLEAN]

T(s, n) == [source |-> s, namespace |-> n]

-----------------------------------------------------------------------------

Purl(type, name, namespace, v) ==
    [type |-> type, namespace |-> namespace, name |-> name, version |-> v,
     upstream |-> Missing, upstreamVersion |-> Missing]

Component(ref, name, v, purl) ==
    [ref |-> ref, isPackage |-> TRUE, name |-> name, version |-> v, source |-> Missing, purl |-> purl]

Deb(name, namespace, v) == Component("deb", name, v, Purl("deb", name, namespace, v))
Copy(ref) == Component(ref, comp, 1, Purl("other", comp, Missing, 1))
System    == [Component("os", comp, 1, Missing) EXCEPT !.isPackage = FALSE]

\* Binary b of source a in another version than its own.
BinaryOfA == [Deb(b, Missing, 1) EXCEPT !.purl.upstream = a, !.purl.upstreamVersion = 2]
Property(name, s) == [Deb(name, "gardenlinux", 1) EXCEPT !.source = s]

Bom(components)           == [components |-> components, edges |-> {}]
BomWith(components, edges) == [components |-> components, edges |-> edges]

JustA     == Bom(<<Deb(a, "debian", 1), System>>)
AAndB     == Bom(<<Deb(a, "debian", 1), Deb(b, "gardenlinux", 1), Copy("x")>>)
GardenA   == Bom(<<Deb(a, "gardenlinux", 2), BinaryOfA>>)
Vendoring == BomWith(<<Deb(a, "other", 1), Copy("deb"), [Deb(b, "gardenlinux", 0) EXCEPT !.ref = "b"],
                       Copy("x")>>, {<<"b", "x">>, <<"b", "deb">>, <<"x", "b">>, <<"deb", "y">>})
Renamed   == Bom(<<Property(a, b), Deb(a, "other", 1)>>)

\* Each of these cannot be understood.
Unclassified == Bom(<<Deb(a, "debian", 1), Component("u", b, 1, Missing)>>)
BadPurl      == Bom(<<Deb(a, "debian", 1), Component("u", b, 1, Malformed)>>)
OtherVersion == Bom(<<[Deb(a, "debian", 1) EXCEPT !.version = 2]>>)
BadSource    == Bom(<<Property(a, Malformed)>>)
NoComponents == Bom(<<>>)

Par(name, source, v, sv) ==
    [readable |-> TRUE, name |-> name, source |-> source, version |-> v, sourceVersion |-> sv]
Own(name, v) == Par(name, Missing, v, Missing)

\* Pools, a list for each of two architectures.
NoPool    == <<>>
OldA      == <<<<Own(a, 1), Own(b, 1)>>, <<Own(a, 1)>>>>
TwoOfA    == <<<<Own(a, 1), Own(a, 2)>>, <<Own(a, 2)>>>>
AAndBPool == <<<<Own(a, 2), Own(b, 1)>>, <<Own(a, 2)>>>>
NoVersion == <<<<Own(a, 0)>>, <<Own(a, 1), Par(b, a, 2, 1)>>>>
NewB      == <<<<Own(b, 2)>>, <<Own(b, 2)>>>>
OldB      == <<<<Own(b, 1)>>, <<Own(b, 1)>>>>
WithA     == <<<<Own(a, 2)>>, <<Own(b, 2), Own(a, 2)>>>>
TakenOver == <<<<Own(a, 1), Par(a, b, 2, 1)>>, <<Own(b, 1)>>>>
OneList   == <<<<Own(b, 1)>>>>
Unread    == <<<<Own(a, 1)>>, <<[Own(b, 1) EXCEPT !.readable = FALSE]>>>>

Old(eol, boms) == [version |-> <<1877, 3, 0>>, eol |-> eol, boms |-> boms]
New(eol, boms) == [version |-> <<2017, 3, 1>>, eol |-> eol, boms |-> boms]
Ended          == [version |-> <<2017, 3, 0>>, eol |-> Now, boms |-> <<NoComponents>>]

Constant(pools) == [before |-> pools, after |-> pools]
Changing(x, y)  == [before |-> x, after |-> y]
World2(boms1, boms2, pools) ==
    [releases |-> <<Old(0, boms1), Ended, New(Now + 1, boms2)>>, pools |-> pools]

MCWorlds == <<
    World2(<<JustA, AAndB>>, <<JustA>>, Constant(<<NoPool, NoPool, NoPool>>)),
    World2(<<NoSBOM>>, <<>>, Constant(<<OldA, NoPool, TwoOfA>>)),
    World2(<<JustA, NoSBOM>>, <<GardenA, Renamed>>, Constant(<<AAndBPool, NoPool, NoPool>>)),
    World2(<<GardenA, Bom(<<Deb(a, "debian", 2)>>)>>, <<NoSBOM>>,
           Constant(<<NoPool, NoPool, NoVersion>>)),
    World2(<<GardenA, JustA>>, <<JustA>>, Constant(<<NoPool, NoPool, NoPool>>)),
    World2(<<Vendoring>>, <<>>, Constant(<<NoPool, NoPool, NewB>>)),
    World2(<<JustA>>, <<>>, Constant(<<NoPool, NoPool, <<>>>>)),
    World2(<<Renamed>>, <<>>, Changing(<<NoPool, NoPool, OldB>>, <<NoPool, NoPool, WithA>>)),
    World2(<<>>, <<GardenA>>, Changing(<<TakenOver, NoPool, NoPool>>, <<OneList, NoPool, NoPool>>)),
    World2(<<Unclassified>>, <<>>, Constant(<<NoPool, NoPool, NewB>>)),
    World2(<<JustA, BadPurl>>, <<JustA>>, Constant(<<NoPool, NoPool, NoPool>>)),
    World2(<<OtherVersion>>, <<BadSource>>, Constant(<<NoPool, NoPool, NoPool>>)),
    World2(<<JustA>>, <<>>, Constant(<<NoPool, NoPool, Unread>>)) >>

-----------------------------------------------------------------------------

Built(p, fixed) == [provenance |-> p, fixed |-> fixed]
Always(x) == [sv \in Names \X (PackageVersions \cup {0}) |-> x]
FromTesting == Always(Built("taken-from-testing", {}))
Mixed == [sv \in Names \X (PackageVersions \cup {0}) |->
            IF sv[2] = 1 THEN Built("built-from-upstream", {}) ELSE Built("patched-from-debian", {c2})]
MCBuilds == {FromTesting, Mixed, Always(Built("unknown", {})),
             Always(Built("patched-from-debian", {c1}))}

Plain == [cve |-> c1, rejected |-> FALSE, curated |-> {}, named |-> {}, manual |-> "",
          overrides |-> <<>>, builds |-> <<>>]

\* Builds are told apart where they decide.
MCJudgements ==
    LET curated == [Plain EXCEPT !.curated = {T(a, "gardenlinux"), T(b, "debian")}]
        others  == {[Plain EXCEPT !.rejected = TRUE], [Plain EXCEPT !.named = {comp}],
                    [Plain EXCEPT !.manual = "not-relevant"], [Plain EXCEPT !.manual = "relevant"]}
        humans  == {[Plain EXCEPT !.overrides = [t \in {T(a, "debian")} |-> s]] : s \in OverrideStatuses}
    IN {[x EXCEPT !.builds = bs] : x \in {Plain, curated}, bs \in MCBuilds}
       \cup {[x EXCEPT !.builds = FromTesting] : x \in others \cup humans}
       \cup {[Plain EXCEPT !.cve = c2, !.builds = bs] : bs \in {FromTesting, Mixed}}
===============================================================================
