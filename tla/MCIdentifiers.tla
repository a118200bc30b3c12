----------------------------- MODULE MCIdentifiers -----------------------------
(***************************************************************************)
(* IdentifierMatching on four CVEs.  CVE-1 names all kinds of identifiers  *)
(* in two containers, CVE-2 a CPE in two cases and one in two spellings,   *)
(* CVE-3 the package of another vendor at Red Hat, CVE-4 nothing.          *)
(***************************************************************************)
EXTENDS IdentifierMatching

MCTexts == {"", "*", "-", "a", "o", "h", "n/a", "acme", "web", "g++", "g\\+\\+", "we*b",
            "repo", "redhat", "libweb", "suse", "gpp", "no/name"}
MCLower == ("Acme" :> "acme") @@ ("ACME" :> "acme") @@ ("Web" :> "web") @@ ("A" :> "a")
           @@ [t \in MCTexts |-> t]
MCBound == ("g++" :> "g\\+\\+") @@ [t \in DOMAIN MCLower |-> t]
MCNormalized == (" Acme " :> "acme") @@ ("N/A" :> "n/a") @@ MCLower

MCCanonical == ("pkg:deb/gardenlinux/web@1" :> "pkg:deb/gardenlinux/web")
               @@ ("pkg:deb/gardenlinux/web" :> "pkg:deb/gardenlinux/web")
               @@ ("pkg:deb/gardenlinux/gpp" :> "pkg:deb/gardenlinux/gpp")
               @@ ("pkg:generic/web" :> "pkg:generic/web")
               @@ ("pkg:Generic/web@2" :> "pkg:generic/web")

MCIdentity == ("web" :> "pkg:deb/debian/web") @@ ("gpp" :> "pkg:deb/debian/gpp")

MCOccurrences == {<<"web", "libweb", "suffix">>, <<"lib", "libweb", "prefix">>,
                  <<"g", "g++", "prefix">>}

Name(format, part, vendor, product) ==
    [format |-> format, part |-> part, vendor |-> vendor, product |-> product]

Entry(vendor, product, cpes, collection, package, url) ==
    [vendor |-> vendor, product |-> product, cpes |-> cpes,
     collection |-> collection, package |-> package, url |-> url]

File(id, containers) == [id |-> id, containers |-> containers]
Container(affected, criteria) == [affected |-> affected, criteria |-> criteria]

F1 == File("CVE-1", <<
        Container(<<Entry(" Acme ", "Web", <<Name("2.3", "A", "Acme", "Web")>>, "repo", "Web", "")>>,
                  <<>>),
        Container(<<Entry("", "web", <<Name("2.2", "A", "acme", "web")>>, "", "", "pkg:Generic/web@2")>>,
                  <<Name("other", "a", "acme", "web"), Name("2.3", "a", "*", "web")>>)>>)
F2 == File("CVE-2", <<
        Container(<<Entry("suse", "N/A", <<Name("2.2", "a", "Acme", "Web"),
                                           Name("2.2", "a", "acme", "web")>>, "", "", "not a purl")>>,
                  <<Name("2.2", "a", "suse", "g++"), Name("2.3", "a", "suse", "g\\+\\+"),
                    Name("2.3", "a", "suse", "we*b")>>)>>)
F3 == File("CVE-3", <<
        Container(<<Entry("suse", "g++", <<>>, "redhat", "libweb", "")>>, <<>>),
        Container(<<Entry("acme", "web", <<>>, "redhat", "suse", "")>>, <<>>)>>)
F4 == File("CVE-4", <<Container(<<Entry("acme", "", <<>>, "repo", "", "")>>, <<>>)>>)

MCFiles == {{F1, F2, F3, F4}, {F1, F3}}

Debian(cve, package) == [cve |-> cve, package |-> package]
MCTables == {<<Debian("CVE-1", "web"), Debian("CVE-3", "gpp"), Debian("CVE-1", "gpp")>>,
             <<Debian("CVE-3", "web"), Debian("CVE-3", "web"), Debian("CVE-2", "gpp"),
               Debian("CVE-4", "web")>>,
             <<Debian("CVE-3", "web"), Debian("CVE-1", "gpp"), Debian("CVE-1", "no/name"),
               Debian("CVE-2", "web")>>,
             <<>>}

Quiet == [groups |-> {}, discardAll |-> FALSE, prefixes |-> {}, suffixes |-> {},
          contained |-> {}, equals |-> {}]
NoFilters == [k \in {"pairs", "cpes", "packages"} |-> {}]
MCFilters == {NoFilters,
    [pairs    |-> {[Quiet EXCEPT !.groups = {"suse"}, !.discardAll = TRUE]},
     cpes     |-> {[Quiet EXCEPT !.groups = {"*"}, !.equals = {"web"}],
                   [Quiet EXCEPT !.groups = {"suse"}, !.prefixes = {"g"}]},
     packages |-> {[Quiet EXCEPT !.groups = {"redhat", "repo"}, !.suffixes = {"web"}]}],
    [pairs    |-> {[Quiet EXCEPT !.groups = {"acme", "suse"}, !.contained = {"web"}]},
     cpes     |-> {},
     packages |-> {[Quiet EXCEPT !.groups = {"*"}, !.contained = {"lib"}]}]}

None == [target |-> "", purls |-> {}, cpes |-> {}, pairs |-> {}, packages |-> {}]
WebPair  == [None EXCEPT !.target = "pkg:deb/gardenlinux/web@1", !.pairs = {<<"Acme", "web">>}]
WebCPE   == [None EXCEPT !.target = "pkg:deb/gardenlinux/web", !.cpes = {<<"acme", "web">>},
                         !.purls = {"pkg:generic/web"}]
GppAll   == [None EXCEPT !.target = "pkg:deb/gardenlinux/gpp", !.cpes = {<<"suse", "g\\+\\+">>},
                         !.pairs = {<<"acme", "web">>}, !.packages = {<<"repo", "web">>}]

MCConfigs == {<<>>, <<WebPair, WebCPE>>, <<WebPair, GppAll>>, <<GppAll, WebCPE, WebPair>>,
              <<WebCPE, [WebPair EXCEPT !.target = ""]>>,
              <<GppAll, [None EXCEPT !.target = "pkg:generic/web"]>>,
              <<WebPair, [WebCPE EXCEPT !.purls = {"not a purl"}]>>}

Child(p, cpes) == [purl |-> p, cpes |-> cpes]
WebSource == [target |-> "pkg:deb/gardenlinux/web",
              children |-> <<Child("pkg:generic/web", {}), Child("not a purl", {})>>]
GppSource == [target |-> "pkg:deb/gardenlinux/gpp",
              children |-> <<Child("", {Name("2.2", "a", "suse", "g++")}),
                             Child("pkg:generic/web", {Name("2.3", "a", "ACME", "we*b")})>>]
BadSource == [target |-> "pkg:deb/gardenlinux/gpp",
              children |-> <<Child("not a purl", {Name("2.3", "a", "*", "web")})>>]

NoSource  == [WebSource EXCEPT !.target = "pkg:deb/gardenlinux/"]

MCShipments == {<<>>, <<<<WebSource, BadSource>>, <<GppSource>>>>, <<<<GppSource>>, <<GppSource>>>>,
                <<<<GppSource>>, <<WebSource, NoSource>>, <<>>>>}

MCPackageOrder == <<"pkg:deb/debian/gpp", "pkg:deb/debian/web">>
MCIdentifierOrder ==
    <<<<"vp", "acme", "web">>, <<"pid", "redhat", "libweb">>, <<"pid", "redhat", "suse">>,
      <<"pid", "repo", "Web">>, <<"vp", "suse", "g++">>,
      <<"cpe", "a", "*", "web">>, <<"cpe", "a", "Acme", "Web">>, <<"cpe", "a", "acme", "web">>,
      <<"cpe", "a", "suse", "g\\+\\+">>, <<"purl", "not a purl">>, <<"purl", "pkg:Generic/web@2">>>>
=============================================================================
