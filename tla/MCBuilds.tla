------------------------------- MODULE MCBuilds -------------------------------
(***************************************************************************)
(* One package in a version, in the same version with an epoch, which has  *)
(* the same tag, and in a backport; a commit patched from Debian, one      *)
(* built from upstream and one without a recipe.                           *)
(***************************************************************************)
EXTENDS Builds, TLC

CONSTANTS curl, plain, epoch, backport, tag, bpTag, debian, upstream, bare, d1, d2, dots, cve1, cve2

MCTagOf == plain :> tag @@ epoch :> tag @@ backport :> bpTag

MCContents ==
    debian :> [recipe |-> [apt |-> TRUE, salsa |-> FALSE, upstream |-> TRUE,
                           upstreamVersion |-> FALSE, dirs |-> <<d1, dots>>],
               series |-> d1 :> {cve1} @@ d2 :> NoSeries @@ dots :> {cve2}]
    @@ upstream :> [recipe |-> [apt |-> FALSE, salsa |-> FALSE, upstream |-> TRUE,
                                upstreamVersion |-> TRUE, dirs |-> <<d1, d2>>],
                    series |-> d1 :> NoSeries @@ d2 :> {cve2} @@ dots :> NoSeries]
    @@ bare :> [recipe |-> NoRecipe, series |-> [d \in Dirs |-> NoSeries]]
===============================================================================
