----------------------------- MODULE MCCVEStream -----------------------------
(***************************************************************************)
(* CVEStream on a small directory: five entries, four of them CVE files.   *)
(* Two workers and a place in the queue hold fewer paths than the walker   *)
(* sends, so that it blocks, and both channels fill up.  The files differ  *)
(* in which identifiers they have: all kinds in two containers, an invalid *)
(* CPE and a product "n/a", a product without a vendor, a plain pair.      *)
(***************************************************************************)
EXTENDS CVEStream

CONSTANTS w1, w2

SmallWalk  == <<"CVE-1", "delta.json", "CVE-2", "CVE-3", "CVE-4">>
SmallFiles == {"CVE-1", "CVE-2", "CVE-3", "CVE-4"}

SmallNormalized == (" Acme " :> "acme") @@ ("acme" :> "acme") @@ ("N/A" :> "n/a")
                   @@ ("web" :> "web") @@ ("" :> "")

SmallTexts == {"", "*", "-", "a", "o", "h", "n/a", "repo", "acme", "web", "we*b"}
SmallLower == ("Acme" :> "acme") @@ [t \in SmallTexts |-> t]
SmallBound == [t \in DOMAIN SmallLower |-> t]

Name(format, vendor, product) ==
    [format |-> format, part |-> "a", vendor |-> vendor, product |-> product]

Entry(vendor, product, cpes, collection, package, url) ==
    [vendor |-> vendor, product |-> product, cpes |-> cpes,
     collection |-> collection, package |-> package, url |-> url]

Broken == Name("2.3", "", "web")

SmallContent ==
    ("CVE-1" :> [id |-> "CVE-1", containers |->
        <<[affected |-> <<Entry(" Acme ", "web", <<Name("2.2", "Acme", "web")>>, "repo", "web", "")>>,
           criteria |-> <<>>],
          [affected |-> <<Entry("acme", "web", <<>>, "repo", "", "pkg:web")>>,
           criteria |-> <<Name("2.3", "Acme", "web")>>]>>])
    @@ ("CVE-2" :> [id |-> "CVE-2", containers |->
        <<[affected |-> <<Entry("acme", "N/A", <<Broken, Name("2.2", "acme", "we*b")>>, "", "", "")>>,
           criteria |-> <<Broken>>],
          [affected |-> <<>>, criteria |-> <<Name("2.2", "acme", "")>>]>>])
    @@ ("CVE-3" :> [id |-> "CVE-3", containers |->
        <<[affected |-> <<Entry("", "web", <<>>, "", "", "")>>, criteria |-> <<>>]>>])
    @@ ("CVE-4" :> [id |-> "CVE-4", containers |->
        <<[affected |-> <<Entry("acme", "web", <<>>, "", "", "")>>, criteria |-> <<>>]>>])
=============================================================================
