------------------------------ MODULE MCPublish ------------------------------
(***************************************************************************)
(* Publish on two small repositories.  Groups: one submodule and one       *)
(* directory with one file, so that a run makes two commits.  Files: one   *)
(* directory with two files, so that HEAD, the index and the disk may hold *)
(* different parts of it.  Both have one path that is not the pipeline's.  *)
(***************************************************************************)
EXTENDS Publish

CONSTANTS v1, v2

GroupsFiles   == {"gitlink", "a", "other"}
GroupsOrder   == <<"submodule", "assessments">>
GroupsGroupOf == [gitlink |-> "submodule", a |-> "assessments", other |-> "foreign"]

FilesFiles    == {"a", "b", "other"}
FilesOrder    == <<"pkgbuild">>
FilesGroupOf  == [a |-> "pkgbuild", b |-> "pkgbuild", other |-> "foreign"]

\* The directory has been committed before (seeded), or never has been (first).
GroupsSeeded == {[gitlink |-> v1, a |-> v1, other |-> v1]}
GroupsFirst  == {[gitlink |-> v1, a |-> NoFile, other |-> v1]}
FilesSeeded  == {[a |-> v1, b |-> NoFile, other |-> v1]}
FilesFirst   == {[a |-> NoFile, b |-> NoFile, other |-> v1]}
GroupsEither == GroupsSeeded \cup GroupsFirst
=============================================================================
