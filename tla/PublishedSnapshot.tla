-------------------------- MODULE PublishedSnapshot --------------------------
(***************************************************************************)
(* What publishing promises to whoever reads the remote branch: the branch *)
(* only grows, and when the pipeline adds to it, the owned paths go from   *)
(* what they were to the complete draft in one step.  The commits in       *)
(* between, local or rolled back, are never the head of the branch.        *)
(***************************************************************************)
EXTENDS Naturals, Sequences, SequencesExt

CONSTANTS Files, Contents, NoFile, GroupOrder, Foreign, GroupOf, InitialTrees

VARIABLES main,   \* the history of the published branch
          draft   \* the files as the pipeline has them on disk

Groups == {GroupOrder[i] : i \in 1..Len(GroupOrder)}
Owned  == {f \in Files : GroupOf[f] \in Groups}

Init == \E t \in InitialTrees : main = <<[group |-> Foreign, tree |-> t]>> /\ draft = t

\* Somebody else adds one commit.
Contribute ==
    /\ main' = Append(main, Last(main'))
    /\ Last(main').group = Foreign
    /\ UNCHANGED draft

\* The pipeline publishes its draft: the new head holds all of it, and each new
\* commit belongs to one group and changes nothing outside it.
PublishDraft ==
    /\ IsStrictPrefix(main, main')
    /\ \A f \in Owned : Last(main').tree[f] = draft[f]
    /\ \A i \in (Len(main) + 1)..Len(main') :
          /\ main'[i].group \in Groups
          /\ \A f \in Files : main'[i].tree[f] # main'[i - 1].tree[f]
                                => GroupOf[f] = main'[i].group
    /\ UNCHANGED draft

\* The draft is worked on, reset or thrown away.
Work == UNCHANGED main /\ draft' \in [Files -> Contents \cup {NoFile}]

Next == Contribute \/ PublishDraft \/ Work

Spec == Init /\ [][Next]_<<main, draft>>
=============================================================================
