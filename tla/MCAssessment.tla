----------------------------- MODULE MCAssessment -----------------------------
(***************************************************************************)
(* Assessment on two CVEs and two releases.  The results of a run differ in  *)
(* every way the record tells apart: awaiting Debian, relevant in one      *)
(* release or the other, not relevant.                                     *)
(***************************************************************************)
EXTENDS Assessment, TLC

CONSTANTS CVE1, CVE2

MCResults ==
    {[upstream |-> "u1", reason |-> "awaiting-debian", autos |-> "r1" :> "fixed"],
     [upstream |-> "u1", reason |-> "affects-debian-package",
      autos |-> "r1" :> "vulnerable" @@ "r2" :> Nothing],
     [upstream |-> "u2", reason |-> "affects-debian-package", autos |-> "r2" :> "vulnerable"],
     [upstream |-> "u1", reason |-> "debian-not-for-us", autos |-> <<>>]}

CVESymmetry == Permutations(CVEs)
=============================================================================
