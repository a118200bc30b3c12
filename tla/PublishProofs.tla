---------------------------- MODULE PublishProofs ----------------------------
(***************************************************************************)
(* The safety properties of Publish, for every set of groups, paths and    *)
(* contents, any number of runs and histories of any length.               *)
(***************************************************************************)
EXTENDS Publish, SequenceTheorems, TLAPS

(***************************************************************************)
(* Histories.                                                              *)
(***************************************************************************)

\* A history is a prefix of itself.
LEMMA PrefixReflexive ==
    ASSUME NEW S, NEW s \in Seq(S)
    PROVE  IsPrefix(s, s)
BY DEF IsPrefix

\* A history is a prefix of what one more commit makes of it.
LEMMA PrefixAppend ==
    ASSUME NEW S, NEW s \in Seq(S), NEW t \in Seq(S), NEW e \in S, IsPrefix(s, t)
    PROVE  IsPrefix(s, Append(t, e))
<1>1. Len(s) <= Len(t) /\ SubSeq(s, 1, Len(s)) = SubSeq(t, 1, Len(s))
  BY DEF IsPrefix
<1>2. Len(Append(t, e)) = Len(t) + 1
  OBVIOUS
<1>3. SubSeq(Append(t, e), 1, Len(s)) = SubSeq(t, 1, Len(s))
  BY <1>1, <1>2
<1>4. QED
  BY <1>1, <1>2, <1>3 DEF IsPrefix

\* Appending a commit that stays in its group keeps a history that does.
LEMMA AppendStays ==
    ASSUME NEW h \in Seq(Commit) \ {<<>>}, NEW c \in Commit, StaysInGroup(h),
           c.group \in Groups =>
               \A f \in Files : c.tree[f] # Last(h).tree[f] => GroupOf[f] = c.group
    PROVE  StaysInGroup(Append(h, c))
<1> DEFINE g == Append(h, c)
<1>1. Len(g) = Len(h) + 1 /\ Len(h) \in Nat \ {0}
  OBVIOUS
<1>2. g[Len(g)] = c /\ g[Len(h)] = Last(h) /\ \A i \in 1..Len(h) : g[i] = h[i]
  BY <1>1 DEF Last
<1>3. SUFFICES ASSUME NEW i \in 2..Len(g), g[i].group \in Groups,
                      NEW f \in Files, g[i].tree[f] # g[i - 1].tree[f]
               PROVE  GroupOf[f] = g[i].group
  BY DEF StaysInGroup
<1>4. CASE i = Len(g)
  BY <1>1, <1>2, <1>3, <1>4
<1>5. CASE i # Len(g)
  <2>1. i \in 2..Len(h) /\ i - 1 \in 1..Len(h) /\ i \in 1..Len(h)
    BY <1>1, <1>5
  <2>2. g[i] = h[i] /\ g[i - 1] = h[i - 1]
    BY <2>1, <1>2
  <2>3. QED
    BY <2>1, <2>2, <1>3 DEF StaysInGroup
<1>6. QED
  BY <1>4, <1>5

\* The last commit of a nonempty history is a commit, and its tree is a tree.
LEMMA LastIsCommit ==
    ASSUME NEW h \in Seq(Commit) \ {<<>>}
    PROVE  Last(h) \in Commit /\ Last(h).tree \in Tree
<1>1. Len(h) \in 1..Len(h)
  OBVIOUS
<1>2. Last(h) \in Commit
  BY <1>1 DEF Last
<1>3. QED
  BY <1>2 DEF Commit

(***************************************************************************)
(* The inductive invariant.                                                *)
(***************************************************************************)

BeforeCommits == {"idle", "verifyBranch", "restore", "clean", "verifyIndex", "update",
                  "process", "capture"}
InCommits     == {"add", "check", "commit", "resolve", "push", "rollback"}

\* What the position in the code says of the level, of HEAD and of startSHA.
ControlInv ==
    /\ pc \in BeforeCommits => start = <<>> /\ gi = 1
    /\ pc \in BeforeCommits \ {"idle", "verifyBranch"} /\ level # "none" => head = Target
    /\ pc = "capture" => level # "none"
    /\ pc \in InCommits => level # "none" /\ head = Target /\ start # <<>>
    /\ pc \in {"check", "commit"} => gi \in 1..Len(GroupOrder)
    /\ pc \in {"resolve", "push"} => gi = Len(GroupOrder) + 1 /\ level = "push"

\* Every history a branch may come to have keeps its commits in their groups.
HistoryInv == CommitsStayInGroup /\ StaysInGroup(start)

\* The groups that have been dealt with are committed as they are on disk, and
\* the one at hand is staged as it is on disk.
LoopInv ==
    /\ pc \in {"add", "check", "commit", "resolve", "push"} =>
          \A j \in 1..(gi - 1) : \A f \in Files :
              GroupOf[f] = GroupOrder[j] => worktree[f] = HeadTree[f]
    /\ pc \in {"check", "commit"} => \A f \in Files : InGroup(f) => index[f] = worktree[f]

\* How far the owned paths have been reconciled.
ReconcileInv ==
    /\ pc \in {"clean", "verifyIndex"} =>
          \A f \in Owned : GroupOf[f] \in TrackedAtHEAD => index[f] = HeadTree[f]
    /\ pc = "clean" =>
          \A f \in Owned \ Gitlinks :
              HeadTree[f] # NoFile => worktree[f] = HeadTree[f] /\ index[f] = HeadTree[f]
    /\ pc = "verifyIndex" =>
          \A f \in Owned \ Gitlinks :
              /\ HeadTree[f] # NoFile => worktree[f] = HeadTree[f]
              /\ index[f] = NoFile => worktree[f] = NoFile

\* The files that a run may commit only if it has written them.
Reconciled(f, tree) == level = "push" \/ GroupOf[f] \in TrackedIn(tree)

\* What of these a run has not written is on disk, and in HEAD, as it was in the HEAD
\* that the run started from.
OwnWorkInv ==
    /\ pc \in {"update", "process", "capture"} =>
          \A f \in Owned \ Gitlinks :
              Reconciled(f, HeadTree) /\ f \notin written => worktree[f] = HeadTree[f]
    /\ start # <<>> =>
          \A f \in Owned \ Gitlinks :
              Reconciled(f, Last(start).tree) /\ f \notin written =>
                  worktree[f] = Last(start).tree[f] /\ HeadTree[f] = Last(start).tree[f]

IInv ==
    /\ TypeOK /\ ControlInv /\ HistoryInv /\ LoopInv /\ ReconcileInv /\ OwnWorkInv
    /\ FailedRunLeavesHead /\ DonePublishesEverything /\ CleanSlateForPush

(***************************************************************************)
(* Every step keeps the invariant, one lemma per part of it.               *)
(***************************************************************************)

\* The values the actions read are of the types they should be.
LEMMA HeadTypes ==
    ASSUME TypeOK
    PROVE  /\ HeadLog \in Seq(Commit) \ {<<>>} /\ HeadTree \in Tree
           /\ Last(remote) \in Commit /\ Last(remote).tree \in Tree
           /\ \A b \in Branches : Last(log[b]).tree \in Tree
           /\ gi <= Len(GroupOrder) => Group \in Groups /\ PartialTree \in Tree
<1>1. HeadLog \in Seq(Commit) \ {<<>>} /\ \A b \in Branches : log[b] \in Seq(Commit) \ {<<>>}
  BY DEF TypeOK, HeadLog
<1>2. HeadTree \in Tree /\ \A b \in Branches : Last(log[b]).tree \in Tree
  BY <1>1, LastIsCommit DEF HeadTree
<1>3. Last(remote) \in Commit /\ Last(remote).tree \in Tree
  BY LastIsCommit DEF TypeOK
<1>4. gi <= Len(GroupOrder) => Group \in Groups
  BY PublishAssumption DEF TypeOK, Group, Groups
<1>5. PartialTree \in Tree
  BY <1>2 DEF PartialTree, TypeOK, Tree
<1>6. QED
  BY <1>1, <1>2, <1>3, <1>4, <1>5

\* Every step keeps the types.
LEMMA TypeStep ==
    ASSUME TypeOK, ControlInv, [Next]_vars
    PROVE  TypeOK'
<1> USE PublishAssumption DEF TypeOK, Goto, Fail, repo, run, Exit, NextGroup, Steps, Ended,
     Levels
<1>1. ASSUME NEW l \in Levels, StartRun(l) PROVE TypeOK'
  BY <1>1, HeadTypes DEF StartRun
<1>2. CASE VerifyBranch
  BY <1>2, HeadTypes DEF VerifyBranch
<1>3. CASE RestorePaths
  BY <1>3, HeadTypes DEF RestorePaths, Tree
<1>4. CASE CleanPaths
  BY <1>4, HeadTypes DEF CleanPaths, Tree
<1>5. CASE VerifyCleanIndexForPush
  BY <1>5, HeadTypes DEF VerifyCleanIndexForPush
<1>6. ASSUME NEW v \in Contents, NEW f \in Gitlinks, UpdateSubmodule(f, v) PROVE TypeOK'
  BY <1>6, HeadTypes DEF UpdateSubmodule, Tree, Owned
<1>7. ASSUME NEW v \in Contents, NEW f \in Owned \ Gitlinks, WriteArtifact(f, v) PROVE TypeOK'
  BY <1>7, HeadTypes DEF WriteArtifact, Tree, Owned
<1>8. CASE SubmodulesUpdated
  BY <1>8, HeadTypes DEF SubmodulesUpdated
<1>9. CASE ArtifactsWritten
  BY <1>9, HeadTypes DEF ArtifactsWritten
<1>10. CASE CaptureStart
  <2>1. start' \in Seq(Commit)
    BY <1>10, HeadTypes DEF CaptureStart
  <2>2. QED
    BY <1>10, <2>1 DEF CaptureStart, TypeOK, repo, Steps
<1>11. CASE AddPaths
  BY <1>11, HeadTypes DEF AddPaths, Tree
<1>12. CASE HasStagedChanges
  <2>1. gi' \in 1..(Len(GroupOrder) + 1)
    BY <1>12 DEF HasStagedChanges, ControlInv, Goto, NextGroup, TypeOK
  <2>2. QED
    BY <1>12, <2>1 DEF HasStagedChanges, Goto, NextGroup, TypeOK, repo, Steps
<1>13. CASE CommitGroup
  <2> DEFINE c == [group |-> Group, tree |-> PartialTree]
  <2>1. gi <= Len(GroupOrder)
    BY <1>13 DEF CommitGroup, ControlInv
  <2>2. c \in Commit /\ HeadLog \in Seq(Commit)
    BY <2>1, HeadTypes DEF Commit
  <2>3. Append(HeadLog, c) \in Seq(Commit) \ {<<>>}
    <3> HIDE DEF c, TypeOK
    <3>1. QED
      BY <2>2
  <2>4. log' \in [Branches -> Seq(Commit) \ {<<>>}]
    BY <1>13, <2>3 DEF CommitGroup, TypeOK, HeadLog
  <2>5. gi' \in 1..(Len(GroupOrder) + 1)
    BY <1>13, <2>1 DEF CommitGroup, NextGroup, TypeOK
  <2>6. QED
    BY <1>13, <2>4, <2>5 DEF CommitGroup, NextGroup, TypeOK, Steps
<1>14. CASE GroupsCommitted
  BY <1>14, HeadTypes DEF GroupsCommitted
<1>15. CASE PushIfAdvanced
  BY <1>15, HeadTypes DEF PushIfAdvanced
<1>16. CASE PushFastForward
  BY <1>16, HeadTypes DEF PushFastForward
<1>17. CASE PushRejected
  BY <1>17, HeadTypes DEF PushRejected
<1>18. CASE PushUnacknowledged
  BY <1>18, HeadTypes DEF PushUnacknowledged
<1>19. CASE Rollback
  <2>1. start \in Seq(Commit) \ {<<>>}
    BY <1>19 DEF Rollback, ControlInv, InCommits, TypeOK
  <2>2. QED
    BY <1>19, <2>1 DEF Rollback, TypeOK, Goto, Ended
<1>20. CASE RollbackFails
  BY <1>20, HeadTypes DEF RollbackFails
<1>21. CASE FailBeforeCommits
  BY <1>21, HeadTypes DEF FailBeforeCommits
<1>22. CASE FailInRun
  BY <1>22, HeadTypes DEF FailInRun
<1>23. CASE Interrupt
  BY <1>23, HeadTypes DEF Interrupt
<1>24. CASE Crash
  <2>1. gi' \in 1..(Len(GroupOrder) + 1)
    BY <1>24, PublishAssumption DEF Crash, Exit
  <2>2. <<>> \in Seq(Commit)
    OBVIOUS
  <2>3. QED
    BY <1>24, <2>1, <2>2 DEF Crash, Exit, TypeOK, repo, Levels
<1>25. CASE EndRun
  <2>1. gi' \in 1..(Len(GroupOrder) + 1)
    BY <1>25, PublishAssumption DEF EndRun, Exit
  <2>2. <<>> \in Seq(Commit)
    OBVIOUS
  <2>3. QED
    BY <1>25, <2>1, <2>2 DEF EndRun, Exit, TypeOK, repo, Levels
<1>26. ASSUME NEW f \in Files, NEW v \in Contents, OthersPush(f, v) PROVE TypeOK'
  <2> DEFINE c == [group |-> Foreign, tree |-> [Last(remote).tree EXCEPT ![f] = v]]
  <2>1. c \in Commit
    <3>1. Last(remote).tree \in Tree
      BY HeadTypes
    <3>2. [Last(remote).tree EXCEPT ![f] = v] \in Tree
      BY <3>1 DEF Tree
    <3>3. QED
      BY <3>2 DEF Commit
  <2>2. remote' = Append(remote, c)
    BY <1>26 DEF OthersPush
  <2>3. remote' \in Seq(Commit) \ {<<>>}
    <3> HIDE DEF c
    <3>1. remote \in Seq(Commit)
      BY DEF TypeOK
    <3>2. QED
      BY <2>1, <2>2, <3>1
  <2>4. QED
    BY <1>26, <2>3 DEF OthersPush, TypeOK, repo, run
<1>27. ASSUME NEW f \in Files \ Owned, NEW v \in Contents, StageForeign(f, v) PROVE TypeOK'
  BY <1>27, HeadTypes DEF StageForeign, Tree, Owned
<1>28. ASSUME NEW b \in Branches, Checkout(b) PROVE TypeOK'
  BY <1>28, HeadTypes DEF Checkout
<1>29. CASE FreshCheckout
  BY <1>29, HeadTypes DEF FreshCheckout
<1>30. CASE Pull
  BY <1>30, HeadTypes DEF Pull
<1>31. CASE UNCHANGED vars
  BY <1>31, HeadTypes DEF vars
<1>32. QED
  BY <1>1, <1>2, <1>3, <1>4, <1>5, <1>6, <1>7, <1>8, <1>9, <1>10, <1>11, <1>12, <1>13, <1>14,
     <1>15, <1>16, <1>17, <1>18, <1>19, <1>20, <1>21, <1>22, <1>23, <1>24, <1>25, <1>26,
          <1>27, <1>28, <1>29, <1>30, <1>31
  DEF Next, Reconcile, Generate, PublishRun, Environment

\* Every step keeps the control invariant.
LEMMA ControlStep ==
    ASSUME TypeOK, ControlInv, [Next]_vars
    PROVE  ControlInv'
<1> USE PublishAssumption DEF TypeOK, ControlInv, BeforeCommits, InCommits, Goto, Fail, repo,
     run, Exit, NextGroup, Steps, Ended, Levels
<1>1. ASSUME NEW l \in Levels, StartRun(l) PROVE ControlInv'
  BY <1>1 DEF StartRun
<1>2. CASE VerifyBranch
  BY <1>2 DEF VerifyBranch
<1>3. CASE RestorePaths
  BY <1>3 DEF RestorePaths
<1>4. CASE CleanPaths
  BY <1>4 DEF CleanPaths
<1>5. CASE VerifyCleanIndexForPush
  BY <1>5 DEF VerifyCleanIndexForPush
<1>6. ASSUME NEW v \in Contents, NEW f \in Gitlinks, UpdateSubmodule(f, v) PROVE ControlInv'
  BY <1>6 DEF UpdateSubmodule
<1>7. ASSUME NEW v \in Contents, NEW f \in Owned \ Gitlinks, WriteArtifact(f, v)
      PROVE  ControlInv'
  BY <1>7 DEF WriteArtifact
<1>8. CASE SubmodulesUpdated
  BY <1>8 DEF SubmodulesUpdated
<1>9. CASE ArtifactsWritten
  BY <1>9 DEF ArtifactsWritten
<1>10. CASE CaptureStart
  BY <1>10 DEF CaptureStart, HeadLog
<1>11. CASE AddPaths
  BY <1>11 DEF AddPaths, HasGroup
<1>12. CASE HasStagedChanges
  BY <1>12 DEF HasStagedChanges, HasGroup
<1>13. CASE CommitGroup
  BY <1>13 DEF CommitGroup, HeadLog
<1>14. CASE GroupsCommitted
  BY <1>14 DEF GroupsCommitted
<1>15. CASE PushIfAdvanced
  BY <1>15 DEF PushIfAdvanced
<1>16. CASE PushFastForward
  BY <1>16 DEF PushFastForward
<1>17. CASE PushRejected
  BY <1>17 DEF PushRejected
<1>18. CASE PushUnacknowledged
  BY <1>18 DEF PushUnacknowledged
<1>19. CASE Rollback
  BY <1>19 DEF Rollback
<1>20. CASE RollbackFails
  BY <1>20 DEF RollbackFails
<1>21. CASE FailBeforeCommits
  BY <1>21 DEF FailBeforeCommits
<1>22. CASE FailInRun
  BY <1>22 DEF FailInRun, HasGroup
<1>23. CASE Interrupt
  BY <1>23 DEF Interrupt
<1>24. CASE Crash
  BY <1>24 DEF Crash
<1>25. CASE EndRun
  BY <1>25 DEF EndRun
<1>26. ASSUME NEW f \in Files, NEW v \in Contents, OthersPush(f, v) PROVE ControlInv'
  BY <1>26 DEF OthersPush
<1>27. ASSUME NEW f \in Files \ Owned, NEW v \in Contents, StageForeign(f, v) PROVE ControlInv'
  BY <1>27 DEF StageForeign
<1>28. ASSUME NEW b \in Branches, Checkout(b) PROVE ControlInv'
  BY <1>28 DEF Checkout
<1>29. CASE FreshCheckout
  BY <1>29 DEF FreshCheckout
<1>30. CASE Pull
  BY <1>30 DEF Pull
<1>31. CASE UNCHANGED vars
  BY <1>31 DEF vars
<1>32. QED
  BY <1>1, <1>2, <1>3, <1>4, <1>5, <1>6, <1>7, <1>8, <1>9, <1>10, <1>11, <1>12, <1>13, <1>14,
     <1>15, <1>16, <1>17, <1>18, <1>19, <1>20, <1>21, <1>22, <1>23, <1>24, <1>25, <1>26,
          <1>27, <1>28, <1>29, <1>30, <1>31
  DEF Next, Reconcile, Generate, PublishRun, Environment

\* Only these actions touch a history, the remote or startSHA.
LEMMA WhoMovesHistories ==
    ASSUME [Next]_vars
    PROVE  \/ CaptureStart \/ CommitGroup \/ PushFastForward \/ PushUnacknowledged \/ Rollback
           \/ Crash \/ EndRun \/ FreshCheckout \/ Pull
           \/ \E f \in Files, v \in Contents : OthersPush(f, v)
           \/ UNCHANGED <<log, remote, start>>
BY DEF Next, vars, repo, run, Goto, Fail, NextGroup, Reconcile, Generate, PublishRun,
   Environment,
       StartRun, VerifyBranch, RestorePaths, CleanPaths, VerifyCleanIndexForPush,
          UpdateSubmodule,
       WriteArtifact, SubmodulesUpdated, ArtifactsWritten, AddPaths, HasStagedChanges,
       GroupsCommitted, PushIfAdvanced, PushRejected, RollbackFails, FailBeforeCommits,
          FailInRun,
       Interrupt, StageForeign, Checkout

\* Every step keeps each history's commits in their groups.
LEMMA HistoryStep ==
    ASSUME TypeOK, ControlInv, HistoryInv, [Next]_vars
    PROVE  HistoryInv'
<1> USE PublishAssumption DEF HistoryInv, CommitsStayInGroup
<1>1. CASE CaptureStart
  <2>1. start' = log[head] /\ head \in Branches /\ UNCHANGED <<log, remote>>
    BY <1>1 DEF CaptureStart, HeadLog, TypeOK, repo
  <2>2. QED
    BY <2>1
<1>2. CASE CommitGroup
  <2> DEFINE c == [group |-> Group, tree |-> PartialTree]
  <2>1. gi <= Len(GroupOrder)
    BY <1>2 DEF CommitGroup, ControlInv
  <2>2. c \in Commit /\ HeadLog \in Seq(Commit) \ {<<>>} /\ StaysInGroup(HeadLog)
    BY <2>1, HeadTypes DEF Commit, TypeOK, HeadLog
  <2>3. \A f \in Files : c.tree[f] # Last(HeadLog).tree[f] => GroupOf[f] = c.group
    BY DEF PartialTree, HeadTree, InGroup
  <2>4. StaysInGroup(Append(HeadLog, c))
    <3> HIDE DEF c
    <3>1. QED
      BY <2>2, <2>3, AppendStays
  <2>5. /\ log' = [log EXCEPT ![head] = Append(HeadLog, c)]
        /\ UNCHANGED <<remote, start>>
    BY <1>2 DEF CommitGroup, NextGroup, HeadLog
  <2>6. QED
    BY <2>4, <2>5 DEF TypeOK
<1>3. CASE PushFastForward \/ PushUnacknowledged
  <2>1. remote' = log[Target] /\ UNCHANGED <<log, start>>
    BY <1>3 DEF PushFastForward, PushUnacknowledged, Goto, repo
  <2>2. QED
    BY <2>1
<1>4. CASE Rollback
  <2>1. log' = [log EXCEPT ![head] = start] /\ UNCHANGED <<remote, start>>
    BY <1>4 DEF Rollback, Goto
  <2>2. QED
    BY <2>1 DEF TypeOK
<1>5. CASE Crash \/ EndRun
  <2>1. start' = <<>> /\ UNCHANGED <<log, remote>>
    BY <1>5 DEF Crash, EndRun, Exit, repo
  <2>2. StaysInGroup(<<>>)
    BY DEF StaysInGroup
  <2>3. QED
    BY <2>1, <2>2
<1>6. CASE FreshCheckout \/ Pull
  <2>1. log' = [log EXCEPT ![Target] = remote] /\ UNCHANGED <<remote, start>>
    BY <1>6 DEF FreshCheckout, Pull, run
  <2>2. QED
    BY <2>1 DEF TypeOK
<1>7. ASSUME NEW f \in Files, NEW v \in Contents, OthersPush(f, v) PROVE HistoryInv'
  <2> DEFINE c == [group |-> Foreign, tree |-> [Last(remote).tree EXCEPT ![f] = v]]
  <2>1. c \in Commit
    <3>1. [Last(remote).tree EXCEPT ![f] = v] \in Tree
      BY HeadTypes DEF Tree
    <3>2. QED
      BY <3>1 DEF Commit
  <2>2. c.group \notin Groups
    OBVIOUS
  <2>3. StaysInGroup(Append(remote, c))
    <3> HIDE DEF c
    <3>1. QED
      BY <2>1, <2>2, AppendStays DEF TypeOK
  <2>4. remote' = Append(remote, c) /\ UNCHANGED <<log, start>>
    BY <1>7 DEF OthersPush, repo, run
  <2>5. QED
    BY <2>3, <2>4
<1>8. CASE UNCHANGED <<log, remote, start>>
  BY <1>8
<1>9. QED
  BY <1>1, <1>2, <1>3, <1>4, <1>5, <1>6, <1>7, <1>8, WhoMovesHistories

\* Every step keeps the loop invariant.
LEMMA LoopStep ==
    ASSUME TypeOK, ControlInv, LoopInv, [Next]_vars
    PROVE  LoopInv'
<1> USE DEF LoopInv, HeadLog, HeadTree, InGroup, Group, Goto, Fail, repo, run, Exit,
     NextGroup, Steps, Ended
<1>1. ASSUME NEW l \in Levels, StartRun(l) PROVE LoopInv'
  BY <1>1 DEF StartRun
<1>2. CASE VerifyBranch
  BY <1>2 DEF VerifyBranch
<1>3. CASE RestorePaths
  BY <1>3 DEF RestorePaths
<1>4. CASE CleanPaths
  BY <1>4 DEF CleanPaths
<1>5. CASE VerifyCleanIndexForPush
  BY <1>5 DEF VerifyCleanIndexForPush
<1>6. ASSUME NEW v \in Contents, NEW f \in Gitlinks, UpdateSubmodule(f, v) PROVE LoopInv'
  BY <1>6 DEF UpdateSubmodule
<1>7. ASSUME NEW v \in Contents, NEW f \in Owned \ Gitlinks, WriteArtifact(f, v) PROVE LoopInv'
  BY <1>7 DEF WriteArtifact
<1>8. CASE SubmodulesUpdated
  BY <1>8 DEF SubmodulesUpdated
<1>9. CASE ArtifactsWritten
  BY <1>9 DEF ArtifactsWritten
<1>10. CASE CaptureStart
  BY <1>10 DEF CaptureStart, ControlInv, BeforeCommits, LoopInv, TypeOK, repo
<1>11. CASE AddPaths
  <2>1. CASE /\ index' = [f \in Files |-> IF InGroup(f) THEN worktree[f] ELSE index[f]]
             /\ Goto("check")
    <3>1. \A f \in Files : InGroup(f) => index'[f] = worktree[f]
      BY <2>1
    <3>2. QED
      BY <1>11, <2>1, <3>1 DEF AddPaths, HasGroup, LoopInv, HeadTree, HeadLog, InGroup, Group,
         Goto
  <2>2. CASE Fail("rollback", "empty")
    BY <1>11, <2>2 DEF AddPaths, Fail, LoopInv
  <2>3. QED
    BY <1>11, <2>1, <2>2 DEF AddPaths
<1>12. CASE HasStagedChanges
  <2>1. CASE \E f \in Files : InGroup(f) /\ index[f] # HeadTree[f]
    BY <1>12, <2>1 DEF HasStagedChanges, Goto, repo, LoopInv, HeadTree, HeadLog, InGroup, Group
  <2>2. CASE ~\E f \in Files : InGroup(f) /\ index[f] # HeadTree[f]
    <3>1. \A f \in Files : InGroup(f) => worktree[f] = HeadTree[f]
      BY <1>12, <2>2 DEF HasStagedChanges, LoopInv
    <3>2. \A j \in 1..gi : \A f \in Files : GroupOf[f] = GroupOrder[j] => worktree[f] = HeadTree[f]
      BY <1>12, <3>1 DEF HasStagedChanges, LoopInv, TypeOK, InGroup, Group
    <3>3. gi' - 1 = gi /\ pc' = "add" /\ UNCHANGED repo
      BY <1>12, <2>2 DEF HasStagedChanges, NextGroup, TypeOK
    <3>4. QED
      BY <3>2, <3>3 DEF LoopInv, repo, HeadTree, HeadLog
  <2>3. QED
    BY <2>1, <2>2
<1>13. CASE CommitGroup
  <2> DEFINE c == [group |-> Group, tree |-> PartialTree]
  <2>1. HeadTree' = PartialTree
    <3>1. log'[head] = Append(HeadLog, c) /\ head' = head
      BY <1>13 DEF CommitGroup, TypeOK, HeadLog
    <3>2. Last(Append(HeadLog, c)) = c
      BY HeadTypes DEF Last
    <3>3. HeadLog' = Append(HeadLog, c)
      BY <3>1 DEF HeadLog
    <3>4. HeadTree' = c.tree
      BY <3>2, <3>3 DEF HeadTree
    <3>5. QED
      BY <3>4
  <2>2. \A f \in Files : InGroup(f) => worktree[f] = PartialTree[f]
    BY <1>13 DEF CommitGroup, LoopInv, PartialTree
  <2>3. \A j \in 1..(gi - 1) : \A f \in Files :
            GroupOf[f] = GroupOrder[j] => worktree[f] = PartialTree[f]
    BY <1>13, <2>2 DEF CommitGroup, LoopInv, PartialTree
  <2>4. gi' - 1 = gi /\ pc' = "add" /\ worktree' = worktree
    BY <1>13 DEF CommitGroup, NextGroup, TypeOK
  <2>5. \A j \in 1..gi : \A f \in Files :
            GroupOf[f] = GroupOrder[j] => worktree[f] = PartialTree[f]
    BY <2>2, <2>3 DEF TypeOK, InGroup, Group
  <2>6. QED
    BY <2>1, <2>4, <2>5 DEF LoopInv
<1>14. CASE GroupsCommitted
  BY <1>14 DEF GroupsCommitted
<1>15. CASE PushIfAdvanced
  BY <1>15 DEF PushIfAdvanced
<1>16. CASE PushFastForward
  BY <1>16 DEF PushFastForward
<1>17. CASE PushRejected
  BY <1>17 DEF PushRejected
<1>18. CASE PushUnacknowledged
  BY <1>18 DEF PushUnacknowledged
<1>19. CASE Rollback
  BY <1>19 DEF Rollback
<1>20. CASE RollbackFails
  BY <1>20 DEF RollbackFails
<1>21. CASE FailBeforeCommits
  BY <1>21 DEF FailBeforeCommits
<1>22. CASE FailInRun
  BY <1>22 DEF FailInRun
<1>23. CASE Interrupt
  BY <1>23 DEF Interrupt
<1>24. CASE Crash
  BY <1>24 DEF Crash
<1>25. CASE EndRun
  BY <1>25 DEF EndRun
<1>26. ASSUME NEW f \in Files, NEW v \in Contents, OthersPush(f, v) PROVE LoopInv'
  BY <1>26 DEF OthersPush
<1>27. ASSUME NEW f \in Files \ Owned, NEW v \in Contents, StageForeign(f, v) PROVE LoopInv'
  BY <1>27 DEF StageForeign
<1>28. ASSUME NEW b \in Branches, Checkout(b) PROVE LoopInv'
  BY <1>28 DEF Checkout
<1>29. CASE FreshCheckout
  BY <1>29 DEF FreshCheckout
<1>30. CASE Pull
  BY <1>30 DEF Pull
<1>31. CASE UNCHANGED vars
  BY <1>31 DEF vars
<1>32. QED
  BY <1>1, <1>2, <1>3, <1>4, <1>5, <1>6, <1>7, <1>8, <1>9, <1>10, <1>11, <1>12, <1>13, <1>14,
     <1>15, <1>16, <1>17, <1>18, <1>19, <1>20, <1>21, <1>22, <1>23, <1>24, <1>25, <1>26,
          <1>27, <1>28, <1>29, <1>30, <1>31
  DEF Next, Reconcile, Generate, PublishRun, Environment

\* Every step keeps what is known of the reconciled paths.
LEMMA ReconcileStep ==
    ASSUME TypeOK, ReconcileInv, [Next]_vars
    PROVE  ReconcileInv'
<1> USE DEF ReconcileInv, HeadLog, HeadTree, Goto, Fail, repo, run, Exit, NextGroup, Steps,
     Ended
<1>1. ASSUME NEW l \in Levels, StartRun(l) PROVE ReconcileInv'
  BY <1>1 DEF StartRun
<1>2. CASE VerifyBranch
  BY <1>2 DEF VerifyBranch
<1>3. CASE RestorePaths
  <2>1. \A f \in Owned : HeadTree[f] # NoFile => GroupOf[f] \in TrackedAtHEAD
    BY DEF TrackedAtHEAD, TrackedIn
  <2>2. \A f \in Owned \ Gitlinks :
            HeadTree[f] # NoFile => worktree'[f] = HeadTree[f] /\ index'[f] = HeadTree[f]
    BY <1>3, <2>1 DEF RestorePaths, Owned
  <2>3. pc' = "clean" /\ UNCHANGED <<log, head>> /\ TrackedAtHEAD' = TrackedAtHEAD
    BY <1>3 DEF RestorePaths, Goto, TrackedAtHEAD, TrackedIn
  <2>4. \A f \in Owned : GroupOf[f] \in TrackedAtHEAD => index'[f] = HeadTree[f]
    BY <1>3 DEF RestorePaths, Owned
  <2>5. QED
    BY <2>2, <2>3, <2>4 DEF ReconcileInv, HeadTree, HeadLog
<1>4. CASE CleanPaths
  <2>1. \A f \in Owned \ Gitlinks : HeadTree[f] # NoFile => worktree'[f] = HeadTree[f]
    BY <1>4 DEF CleanPaths, ReconcileInv, Owned
  <2>2. \A f \in Owned \ Gitlinks : index[f] = NoFile => worktree'[f] = NoFile
    BY <1>4 DEF CleanPaths, Owned
  <2>3. /\ pc = "clean" /\ pc' = "verifyIndex" /\ UNCHANGED <<log, head, index>>
        /\ TrackedAtHEAD' = TrackedAtHEAD
    BY <1>4 DEF CleanPaths, Goto, TrackedAtHEAD, TrackedIn
  <2>4. QED
    BY <2>1, <2>2, <2>3 DEF ReconcileInv, HeadTree, HeadLog
<1>5. CASE VerifyCleanIndexForPush
  BY <1>5 DEF VerifyCleanIndexForPush
<1>6. ASSUME NEW v \in Contents, NEW f \in Gitlinks, UpdateSubmodule(f, v) PROVE ReconcileInv'
  BY <1>6 DEF UpdateSubmodule
<1>7. ASSUME NEW v \in Contents, NEW f \in Owned \ Gitlinks, WriteArtifact(f, v)
      PROVE  ReconcileInv'
  BY <1>7 DEF WriteArtifact
<1>8. CASE SubmodulesUpdated
  BY <1>8 DEF SubmodulesUpdated
<1>9. CASE ArtifactsWritten
  BY <1>9 DEF ArtifactsWritten
<1>10. CASE CaptureStart
  BY <1>10 DEF CaptureStart
<1>11. CASE AddPaths
  BY <1>11 DEF AddPaths
<1>12. CASE HasStagedChanges
  BY <1>12 DEF HasStagedChanges
<1>13. CASE CommitGroup
  BY <1>13 DEF CommitGroup
<1>14. CASE GroupsCommitted
  BY <1>14 DEF GroupsCommitted
<1>15. CASE PushIfAdvanced
  BY <1>15 DEF PushIfAdvanced
<1>16. CASE PushFastForward
  BY <1>16 DEF PushFastForward
<1>17. CASE PushRejected
  BY <1>17 DEF PushRejected
<1>18. CASE PushUnacknowledged
  BY <1>18 DEF PushUnacknowledged
<1>19. CASE Rollback
  BY <1>19 DEF Rollback
<1>20. CASE RollbackFails
  BY <1>20 DEF RollbackFails
<1>21. CASE FailBeforeCommits
  BY <1>21 DEF FailBeforeCommits
<1>22. CASE FailInRun
  BY <1>22 DEF FailInRun
<1>23. CASE Interrupt
  BY <1>23 DEF Interrupt, TrackedAtHEAD, TrackedIn
<1>24. CASE Crash
  BY <1>24 DEF Crash
<1>25. CASE EndRun
  BY <1>25 DEF EndRun
<1>26. ASSUME NEW f \in Files, NEW v \in Contents, OthersPush(f, v) PROVE ReconcileInv'
  BY <1>26 DEF OthersPush, TrackedAtHEAD, TrackedIn
<1>27. ASSUME NEW f \in Files \ Owned, NEW v \in Contents, StageForeign(f, v)
      PROVE  ReconcileInv'
  BY <1>27 DEF StageForeign
<1>28. ASSUME NEW b \in Branches, Checkout(b) PROVE ReconcileInv'
  BY <1>28 DEF Checkout
<1>29. CASE FreshCheckout
  BY <1>29 DEF FreshCheckout
<1>30. CASE Pull
  BY <1>30 DEF Pull
<1>31. CASE UNCHANGED vars
  BY <1>31 DEF vars, TrackedAtHEAD, TrackedIn
<1>32. QED
  BY <1>1, <1>2, <1>3, <1>4, <1>5, <1>6, <1>7, <1>8, <1>9, <1>10, <1>11, <1>12, <1>13, <1>14,
     <1>15, <1>16, <1>17, <1>18, <1>19, <1>20, <1>21, <1>22, <1>23, <1>24, <1>25, <1>26,
          <1>27, <1>28, <1>29, <1>30, <1>31
  DEF Next, Reconcile, Generate, PublishRun, Environment

\* Every step keeps CleanSlateForPush.
LEMMA CleanSlateStep ==
    ASSUME TypeOK, ReconcileInv, CleanSlateForPush, [Next]_vars
    PROVE  CleanSlateForPush'
<1> USE DEF CleanSlateForPush, ReconcileInv, IsIndexClean, HeadLog, HeadTree, Goto, Fail,
     repo, run, Exit, NextGroup, Steps, Ended
<1>1. ASSUME NEW l \in Levels, StartRun(l) PROVE CleanSlateForPush'
  BY <1>1 DEF StartRun
<1>2. CASE VerifyBranch
  BY <1>2 DEF VerifyBranch
<1>3. CASE RestorePaths
  BY <1>3 DEF RestorePaths
<1>4. CASE CleanPaths
  BY <1>4 DEF CleanPaths
<1>5. CASE VerifyCleanIndexForPush
  BY <1>5 DEF VerifyCleanIndexForPush, Owned
<1>6. ASSUME NEW v \in Contents, NEW f \in Gitlinks, UpdateSubmodule(f, v)
      PROVE  CleanSlateForPush'
  BY <1>6 DEF UpdateSubmodule
<1>7. ASSUME NEW v \in Contents, NEW f \in Owned \ Gitlinks, WriteArtifact(f, v)
      PROVE  CleanSlateForPush'
  BY <1>7 DEF WriteArtifact
<1>8. CASE SubmodulesUpdated
  BY <1>8 DEF SubmodulesUpdated
<1>9. CASE ArtifactsWritten
  BY <1>9 DEF ArtifactsWritten
<1>10. CASE CaptureStart
  BY <1>10 DEF CaptureStart
<1>11. CASE AddPaths
  BY <1>11 DEF AddPaths
<1>12. CASE HasStagedChanges
  BY <1>12 DEF HasStagedChanges
<1>13. CASE CommitGroup
  BY <1>13 DEF CommitGroup
<1>14. CASE GroupsCommitted
  BY <1>14 DEF GroupsCommitted
<1>15. CASE PushIfAdvanced
  BY <1>15 DEF PushIfAdvanced
<1>16. CASE PushFastForward
  BY <1>16 DEF PushFastForward
<1>17. CASE PushRejected
  BY <1>17 DEF PushRejected
<1>18. CASE PushUnacknowledged
  BY <1>18 DEF PushUnacknowledged
<1>19. CASE Rollback
  BY <1>19 DEF Rollback
<1>20. CASE RollbackFails
  BY <1>20 DEF RollbackFails
<1>21. CASE FailBeforeCommits
  BY <1>21 DEF FailBeforeCommits
<1>22. CASE FailInRun
  BY <1>22 DEF FailInRun
<1>23. CASE Interrupt
  BY <1>23 DEF Interrupt
<1>24. CASE Crash
  BY <1>24 DEF Crash
<1>25. CASE EndRun
  BY <1>25 DEF EndRun
<1>26. ASSUME NEW f \in Files, NEW v \in Contents, OthersPush(f, v) PROVE CleanSlateForPush'
  BY <1>26 DEF OthersPush
<1>27. ASSUME NEW f \in Files \ Owned, NEW v \in Contents, StageForeign(f, v)
      PROVE  CleanSlateForPush'
  BY <1>27 DEF StageForeign
<1>28. ASSUME NEW b \in Branches, Checkout(b) PROVE CleanSlateForPush'
  BY <1>28 DEF Checkout
<1>29. CASE FreshCheckout
  BY <1>29 DEF FreshCheckout
<1>30. CASE Pull
  BY <1>30 DEF Pull
<1>31. CASE UNCHANGED vars
  BY <1>31 DEF vars
<1>32. QED
  BY <1>1, <1>2, <1>3, <1>4, <1>5, <1>6, <1>7, <1>8, <1>9, <1>10, <1>11, <1>12, <1>13, <1>14,
     <1>15, <1>16, <1>17, <1>18, <1>19, <1>20, <1>21, <1>22, <1>23, <1>24, <1>25, <1>26,
          <1>27, <1>28, <1>29, <1>30, <1>31
  DEF Next, Reconcile, Generate, PublishRun, Environment

\* Every step keeps FailedRunLeavesHead.
LEMMA FailedRunStep ==
    ASSUME TypeOK, ControlInv, FailedRunLeavesHead, [Next]_vars
    PROVE  FailedRunLeavesHead'
<1> USE DEF FailedRunLeavesHead, ControlInv, BeforeCommits, HeadLog, TypeOK, Goto, Fail, repo,
     run, Exit, NextGroup, Steps, Ended
<1>1. ASSUME NEW l \in Levels, StartRun(l) PROVE FailedRunLeavesHead'
  BY <1>1 DEF StartRun
<1>2. CASE VerifyBranch
  BY <1>2 DEF VerifyBranch
<1>3. CASE RestorePaths
  BY <1>3 DEF RestorePaths
<1>4. CASE CleanPaths
  BY <1>4 DEF CleanPaths
<1>5. CASE VerifyCleanIndexForPush
  BY <1>5 DEF VerifyCleanIndexForPush
<1>6. ASSUME NEW v \in Contents, NEW f \in Gitlinks, UpdateSubmodule(f, v)
      PROVE  FailedRunLeavesHead'
  BY <1>6 DEF UpdateSubmodule
<1>7. ASSUME NEW v \in Contents, NEW f \in Owned \ Gitlinks, WriteArtifact(f, v)
      PROVE  FailedRunLeavesHead'
  BY <1>7 DEF WriteArtifact
<1>8. CASE SubmodulesUpdated
  BY <1>8 DEF SubmodulesUpdated
<1>9. CASE ArtifactsWritten
  BY <1>9 DEF ArtifactsWritten
<1>10. CASE CaptureStart
  BY <1>10 DEF CaptureStart
<1>11. CASE AddPaths
  BY <1>11 DEF AddPaths
<1>12. CASE HasStagedChanges
  BY <1>12 DEF HasStagedChanges
<1>13. CASE CommitGroup
  BY <1>13 DEF CommitGroup
<1>14. CASE GroupsCommitted
  BY <1>14 DEF GroupsCommitted
<1>15. CASE PushIfAdvanced
  BY <1>15 DEF PushIfAdvanced
<1>16. CASE PushFastForward
  BY <1>16 DEF PushFastForward
<1>17. CASE PushRejected
  BY <1>17 DEF PushRejected
<1>18. CASE PushUnacknowledged
  BY <1>18 DEF PushUnacknowledged
<1>19. CASE Rollback
  BY <1>19 DEF Rollback
<1>20. CASE RollbackFails
  BY <1>20 DEF RollbackFails
<1>21. CASE FailBeforeCommits
  BY <1>21 DEF FailBeforeCommits
<1>22. CASE FailInRun
  BY <1>22 DEF FailInRun
<1>23. CASE Interrupt
  BY <1>23 DEF Interrupt
<1>24. CASE Crash
  BY <1>24 DEF Crash
<1>25. CASE EndRun
  BY <1>25 DEF EndRun
<1>26. ASSUME NEW f \in Files, NEW v \in Contents, OthersPush(f, v) PROVE FailedRunLeavesHead'
  BY <1>26 DEF OthersPush
<1>27. ASSUME NEW f \in Files \ Owned, NEW v \in Contents, StageForeign(f, v)
      PROVE  FailedRunLeavesHead'
  BY <1>27 DEF StageForeign
<1>28. ASSUME NEW b \in Branches, Checkout(b) PROVE FailedRunLeavesHead'
  BY <1>28 DEF Checkout
<1>29. CASE FreshCheckout
  BY <1>29 DEF FreshCheckout
<1>30. CASE Pull
  BY <1>30 DEF Pull
<1>31. CASE UNCHANGED vars
  BY <1>31 DEF vars
<1>32. QED
  BY <1>1, <1>2, <1>3, <1>4, <1>5, <1>6, <1>7, <1>8, <1>9, <1>10, <1>11, <1>12, <1>13, <1>14,
     <1>15, <1>16, <1>17, <1>18, <1>19, <1>20, <1>21, <1>22, <1>23, <1>24, <1>25, <1>26,
          <1>27, <1>28, <1>29, <1>30, <1>31
  DEF Next, Reconcile, Generate, PublishRun, Environment

\* Once every group has been dealt with, HEAD holds all there is on disk.
LEMMA AllCommitted ==
    ASSUME TypeOK, LoopInv, pc \in {"add", "resolve", "push"}, gi = Len(GroupOrder) + 1
    PROVE  \A f \in Owned : worktree[f] = HeadTree[f]
<1>1. \A f \in Owned : \E j \in 1..(gi - 1) : GroupOf[f] = GroupOrder[j]
  BY PublishAssumption DEF Owned, Groups
<1>2. QED
  BY <1>1 DEF LoopInv, Owned

\* Every step keeps DonePublishesEverything.
LEMMA DoneStep ==
    ASSUME TypeOK, ControlInv, LoopInv, DonePublishesEverything, [Next]_vars
    PROVE  DonePublishesEverything'
<1> USE DEF DonePublishesEverything, HeadLog, HeadTree, Goto, Fail, repo, run, Exit,
     NextGroup, Steps, Ended
<1>1. ASSUME NEW l \in Levels, StartRun(l) PROVE DonePublishesEverything'
  BY <1>1 DEF StartRun
<1>2. CASE VerifyBranch
  BY <1>2 DEF VerifyBranch
<1>3. CASE RestorePaths
  BY <1>3 DEF RestorePaths
<1>4. CASE CleanPaths
  BY <1>4 DEF CleanPaths
<1>5. CASE VerifyCleanIndexForPush
  BY <1>5 DEF VerifyCleanIndexForPush
<1>6. ASSUME NEW v \in Contents, NEW f \in Gitlinks, UpdateSubmodule(f, v)
      PROVE  DonePublishesEverything'
  BY <1>6 DEF UpdateSubmodule
<1>7. ASSUME NEW v \in Contents, NEW f \in Owned \ Gitlinks, WriteArtifact(f, v)
      PROVE  DonePublishesEverything'
  BY <1>7 DEF WriteArtifact
<1>8. CASE SubmodulesUpdated
  BY <1>8 DEF SubmodulesUpdated
<1>9. CASE ArtifactsWritten
  BY <1>9 DEF ArtifactsWritten
<1>10. CASE CaptureStart
  BY <1>10 DEF CaptureStart
<1>11. CASE AddPaths
  BY <1>11 DEF AddPaths
<1>12. CASE HasStagedChanges
  BY <1>12 DEF HasStagedChanges
<1>13. CASE CommitGroup
  BY <1>13 DEF CommitGroup
<1>14. CASE GroupsCommitted
  <2>1. \A f \in Owned : worktree[f] = HeadTree[f]
    <3>1. gi = Len(GroupOrder) + 1
      BY PublishAssumption, <1>14 DEF GroupsCommitted, ControlInv, TypeOK
    <3>2. QED
      BY <3>1, AllCommitted, <1>14 DEF GroupsCommitted
  <2>2. QED
    BY <1>14, <2>1 DEF GroupsCommitted, DonePublishesEverything, HeadLog, HeadTree, Goto, repo
<1>15. CASE PushIfAdvanced
  <2>1. \A f \in Owned : worktree[f] = HeadTree[f]
    <3>1. gi = Len(GroupOrder) + 1
      BY PublishAssumption, <1>15 DEF PushIfAdvanced, ControlInv, TypeOK
    <3>2. QED
      BY <3>1, AllCommitted, <1>15 DEF PushIfAdvanced
  <2>2. QED
    BY <1>15, <2>1 DEF PushIfAdvanced, DonePublishesEverything, HeadLog, HeadTree, Goto, repo
<1>16. CASE PushFastForward
  <2>1. \A f \in Owned : worktree[f] = HeadTree[f]
    <3>1. gi = Len(GroupOrder) + 1
      BY PublishAssumption, <1>16 DEF PushFastForward, ControlInv, TypeOK
    <3>2. QED
      BY <3>1, AllCommitted, <1>16 DEF PushFastForward
  <2>2. remote' = HeadLog /\ HeadLog \in Seq(Commit) \ {<<>>}
    BY <1>16, HeadTypes DEF PushFastForward, ControlInv, InCommits, HeadLog
  <2>3. IsPrefix(HeadLog, remote')
    BY <2>2, PrefixReflexive
  <2>4. QED
    BY <1>16, <2>1, <2>3 DEF PushFastForward, DonePublishesEverything, HeadLog, HeadTree,
       Goto, repo
<1>17. CASE PushRejected
  BY <1>17 DEF PushRejected
<1>18. CASE PushUnacknowledged
  BY <1>18 DEF PushUnacknowledged
<1>19. CASE Rollback
  BY <1>19 DEF Rollback
<1>20. CASE RollbackFails
  BY <1>20 DEF RollbackFails
<1>21. CASE FailBeforeCommits
  BY <1>21 DEF FailBeforeCommits
<1>22. CASE FailInRun
  BY <1>22 DEF FailInRun
<1>23. CASE Interrupt
  BY <1>23 DEF Interrupt
<1>24. CASE Crash
  BY <1>24 DEF Crash
<1>25. CASE EndRun
  BY <1>25 DEF EndRun
<1>26. ASSUME NEW f \in Files, NEW v \in Contents, OthersPush(f, v)
      PROVE  DonePublishesEverything'
  <2> DEFINE c == [group |-> Foreign, tree |-> [Last(remote).tree EXCEPT ![f] = v]]
  <2>1. c \in Commit
    <3>1. [Last(remote).tree EXCEPT ![f] = v] \in Tree
      BY HeadTypes DEF Tree
    <3>2. QED
      BY <3>1 DEF Commit
  <2>2. remote' = Append(remote, c) /\ UNCHANGED <<repo, run>>
    BY <1>26 DEF OthersPush
  <2>3. IsPrefix(HeadLog, remote) => IsPrefix(HeadLog, Append(remote, c))
    <3> HIDE DEF c
    <3>1. QED
      BY <2>1, HeadTypes, PrefixAppend DEF TypeOK
  <2>4. QED
    BY <2>2, <2>3 DEF DonePublishesEverything, HeadLog, HeadTree, repo, run
<1>27. ASSUME NEW f \in Files \ Owned, NEW v \in Contents, StageForeign(f, v)
      PROVE  DonePublishesEverything'
  BY <1>27 DEF StageForeign
<1>28. ASSUME NEW b \in Branches, Checkout(b) PROVE DonePublishesEverything'
  BY <1>28 DEF Checkout
<1>29. CASE FreshCheckout
  BY <1>29 DEF FreshCheckout
<1>30. CASE Pull
  BY <1>30 DEF Pull
<1>31. CASE UNCHANGED vars
  BY <1>31 DEF vars
<1>32. QED
  BY <1>1, <1>2, <1>3, <1>4, <1>5, <1>6, <1>7, <1>8, <1>9, <1>10, <1>11, <1>12, <1>13, <1>14,
     <1>15, <1>16, <1>17, <1>18, <1>19, <1>20, <1>21, <1>22, <1>23, <1>24, <1>25, <1>26,
          <1>27, <1>28, <1>29, <1>30, <1>31
  DEF Next, Reconcile, Generate, PublishRun, Environment

\* Every step keeps the run to its own work.
LEMMA OwnWorkStep ==
    ASSUME TypeOK, ControlInv, LoopInv, ReconcileInv, CleanSlateForPush, CleanSlateForPush',
           OwnWorkInv, [Next]_vars
    PROVE  OwnWorkInv'
<1> USE DEF OwnWorkInv, Reconciled, Goto, Fail, repo, run, Exit, NextGroup, Steps, Ended
<1>1. CASE \/ \E l \in Levels : StartRun(l)
           \/ VerifyBranch \/ RestorePaths \/ CleanPaths
  <2>1. start' = <<>> /\ pc' \notin {"update", "process", "capture"}
    BY <1>1 DEF StartRun, VerifyBranch, RestorePaths, CleanPaths, ControlInv, BeforeCommits
  <2>2. QED
    BY <2>1
<1>2. CASE VerifyCleanIndexForPush
  <2>1. /\ pc = "verifyIndex" /\ start' = <<>> /\ pc' \in {"update", "failed"}
        /\ UNCHANGED <<repo, level>> /\ HeadTree' = HeadTree
    BY <1>2 DEF VerifyCleanIndexForPush, ControlInv, BeforeCommits, HeadTree, HeadLog
  <2>2. ASSUME NEW f \in Owned \ Gitlinks, GroupOf[f] \in TrackedIn(HeadTree)
        PROVE  worktree[f] = HeadTree[f]
    BY <2>1, <2>2 DEF ReconcileInv, TrackedAtHEAD
  <2>3. pc' = "update" /\ level = "push" =>
          \A f \in Owned \ Gitlinks : worktree[f] = HeadTree[f]
    BY <2>1 DEF CleanSlateForPush
  <2>4. QED
    BY <2>1, <2>2, <2>3
<1>3. CASE \/ \E v \in Contents : \/ \E f \in Gitlinks : UpdateSubmodule(f, v)
                                  \/ \E f \in Owned \ Gitlinks : WriteArtifact(f, v)
           \/ SubmodulesUpdated \/ ArtifactsWritten
  <2>1. /\ start' = <<>> /\ pc \in {"update", "process"} /\ level' = level
        /\ HeadTree' = HeadTree /\ written \subseteq written'
    BY <1>3 DEF UpdateSubmodule, WriteArtifact, SubmodulesUpdated, ArtifactsWritten, ControlInv,
       BeforeCommits, HeadTree, HeadLog
  <2>2. \A f \in Owned \ Gitlinks : f \notin written' => worktree'[f] = worktree[f]
    BY <1>3 DEF UpdateSubmodule, WriteArtifact, SubmodulesUpdated, ArtifactsWritten, TypeOK, Tree,
       Owned
  <2>3. QED
    BY <2>1, <2>2
<1>4. CASE CaptureStart
  <2>1. /\ pc = "capture" /\ pc' = "add" /\ start' = HeadLog
        /\ UNCHANGED <<worktree, level, written>> /\ HeadTree' = HeadTree
    BY <1>4 DEF CaptureStart, HeadTree, HeadLog
  <2>2. Last(start').tree = HeadTree
    BY <2>1 DEF HeadTree
  <2>3. QED
    BY <2>1, <2>2
<1>5. CASE CommitGroup
  <2> DEFINE c == [group |-> Group, tree |-> PartialTree]
  <2>1. HeadTree' = PartialTree
    <3>1. log'[head] = Append(HeadLog, c) /\ head' = head
      BY <1>5 DEF CommitGroup, TypeOK, HeadLog
    <3>2. Last(Append(HeadLog, c)) = c
      BY HeadTypes DEF Last
    <3>3. HeadTree' = c.tree
      BY <3>1, <3>2 DEF HeadTree, HeadLog
    <3>4. QED
      BY <3>3
  <2>2. \A f \in Files : PartialTree[f] = IF InGroup(f) THEN worktree[f] ELSE HeadTree[f]
    BY <1>5 DEF CommitGroup, LoopInv, PartialTree
  <2>3. pc' = "add" /\ UNCHANGED <<worktree, level, start, written>>
    BY <1>5 DEF CommitGroup
  <2>4. QED
    BY <2>1, <2>2, <2>3 DEF Owned
<1>6. CASE Rollback
  <2>1. HeadTree' = Last(start).tree
    BY <1>6 DEF Rollback, TypeOK, HeadTree, HeadLog
  <2>2. pc' = "failed" /\ UNCHANGED <<worktree, level, start, written>>
    BY <1>6 DEF Rollback
  <2>3. QED
    BY <2>1, <2>2
<1>7. CASE Crash \/ EndRun
  BY <1>7 DEF Crash, EndRun
<1>8. CASE FailBeforeCommits \/ Interrupt
  BY <1>8 DEF FailBeforeCommits, Interrupt, HeadTree, HeadLog
<1>9. CASE \/ AddPaths \/ HasStagedChanges \/ GroupsCommitted \/ PushIfAdvanced
           \/ PushFastForward \/ PushRejected \/ PushUnacknowledged
           \/ RollbackFails \/ FailInRun
  <2>1. /\ pc' \notin {"update", "process", "capture"}
        /\ UNCHANGED <<log, head, worktree, level, start, written>>
    BY <1>9 DEF AddPaths, HasStagedChanges, GroupsCommitted, PushIfAdvanced, PushFastForward,
       PushRejected, PushUnacknowledged, RollbackFails, FailInRun
  <2>2. QED
    BY <2>1 DEF HeadTree, HeadLog
<1>10. CASE Environment
  <2>1. CASE \E f \in Files, v \in Contents : OthersPush(f, v)
    BY <2>1 DEF OthersPush, HeadTree, HeadLog
  <2>2. CASE ~\E f \in Files, v \in Contents : OthersPush(f, v)
    BY <1>10, <2>2 DEF Environment, StageForeign, Checkout, FreshCheckout, Pull, ControlInv,
       BeforeCommits
  <2>3. QED
    BY <2>1, <2>2
<1>11. CASE UNCHANGED vars
  BY <1>11 DEF vars, HeadTree, HeadLog
<1>12. QED
  BY <1>1, <1>2, <1>3, <1>4, <1>5, <1>6, <1>7, <1>8, <1>9, <1>10, <1>11
  DEF Next, Reconcile, Generate, PublishRun

(***************************************************************************)
(* The theorems.                                                           *)
(***************************************************************************)

\* The invariant holds at the start.
LEMMA InitIInv == Init => IInv
<1> SUFFICES ASSUME Init PROVE IInv
  OBVIOUS
<1> USE PublishAssumption
<1>1. PICK t \in InitialTrees :
          LET first == <<[group |-> Foreign, tree |-> t]>>
          IN log = [b \in Branches |-> first] /\ remote = first /\ index = t /\ worktree = t
  BY DEF Init
<1> DEFINE c == [group |-> Foreign, tree |-> t]
<1>2. t \in Tree /\ c \in Commit
  BY DEF Commit
<1>3. <<c>> \in Seq(Commit) /\ <<c>> # <<>> /\ <<>> \in Seq(Commit)
  BY <1>2
<1>4. TypeOK
  <2>1. log \in [Branches -> Seq(Commit) \ {<<>>}] /\ remote \in Seq(Commit) \ {<<>>}
    BY <1>1, <1>3
  <2>2. gi \in 1..(Len(GroupOrder) + 1)
    BY DEF Init, NoRun
  <2>3. QED
    BY <1>1, <1>2, <1>3, <2>1, <2>2 DEF Init, NoRun, TypeOK, Levels
<1>5. StaysInGroup(<<c>>) /\ StaysInGroup(<<>>)
  BY DEF StaysInGroup
<1>6. HistoryInv
  BY <1>1, <1>5 DEF HistoryInv, CommitsStayInGroup, Init, NoRun
<1>7. pc = "idle" /\ start = <<>> /\ gi = 1
  BY DEF Init, NoRun
<1>8. ControlInv /\ LoopInv /\ ReconcileInv /\ OwnWorkInv
  BY <1>7 DEF ControlInv, LoopInv, ReconcileInv, OwnWorkInv, BeforeCommits, InCommits
<1>9. FailedRunLeavesHead /\ DonePublishesEverything /\ CleanSlateForPush
  BY <1>7 DEF FailedRunLeavesHead, DonePublishesEverything, CleanSlateForPush
<1>10. QED
  BY <1>4, <1>6, <1>8, <1>9 DEF IInv

\* Everything the other theorems need holds in every reachable state.
THEOREM Invariance == Spec => []IInv
<1>1. IInv /\ [Next]_vars => IInv'
  BY TypeStep, ControlStep, HistoryStep, LoopStep, ReconcileStep, CleanSlateStep,
     FailedRunStep, DoneStep, OwnWorkStep DEF IInv
<1>2. QED
  BY InitIInv, <1>1, PTL DEF Spec

\* The state is always of its types.
THEOREM TypeCorrect == Spec => []TypeOK
<1>1. IInv => TypeOK
  BY DEF IInv
<1>2. QED
  BY <1>1, Invariance, PTL

\* No commit of a group ever holds a change to a path outside that group.
THEOREM GroupIsolation == Spec => []CommitsStayInGroup
<1>1. IInv => CommitsStayInGroup
  BY DEF IInv, HistoryInv
<1>2. QED
  BY <1>1, Invariance, PTL

\* A failed run whose reset succeeded leaves HEAD where it was.
THEOREM RollbackRestoresHead == Spec => []FailedRunLeavesHead
<1>1. IInv => FailedRunLeavesHead
  BY DEF IInv
<1>2. QED
  BY <1>1, Invariance, PTL

\* A run that ends well has committed, and at level push published, all of it.
THEOREM SuccessIsComplete == Spec => []DonePublishesEverything
<1>1. IInv => DonePublishesEverything
  BY DEF IInv
<1>2. QED
  BY <1>1, Invariance, PTL

\* A push-level run never works on leftovers of an earlier one.
THEOREM PushStartsClean == Spec => []CleanSlateForPush
<1>1. IInv => CleanSlateForPush
  BY DEF IInv
<1>2. QED
  BY <1>1, Invariance, PTL

\* What a run commits is its own work, whatever earlier runs have left.
THEOREM LeftoversAreNotCommitted == Spec => []OnlyOwnWorkIsCommitted
<1>1. IInv => OnlyOwnWorkIsCommitted
  BY DEF IInv, OwnWorkInv, OnlyOwnWorkIsCommitted, Reconciled
<1>2. QED
  BY <1>1, Invariance, PTL

\* No run moves a branch other than the configured one.
THEOREM OnlyTheTargetMoves == Spec => OnlyTargetMoves
<1>1. IInv /\ [Next]_vars => [\A b \in Branches \ {Target} : log'[b] = log[b]]_log
  <2> SUFFICES ASSUME IInv, [Next]_vars, log' # log, NEW b \in Branches \ {Target}
               PROVE  log'[b] = log[b]
    OBVIOUS
  <2>1. TypeOK /\ ControlInv
    BY DEF IInv
  <2>2. CASE CommitGroup \/ Rollback
    BY <2>1, <2>2 DEF CommitGroup, Rollback, ControlInv, InCommits, TypeOK
  <2>3. CASE FreshCheckout \/ Pull
    BY <2>1, <2>3 DEF FreshCheckout, Pull, TypeOK
  <2>4. QED
    BY <2>2, <2>3, WhoMovesHistories
    DEF CaptureStart, PushFastForward, PushUnacknowledged, OthersPush, Crash, EndRun, Exit, repo
<1>2. QED
  BY <1>1, Invariance, PTL DEF Spec, OnlyTargetMoves

(***************************************************************************)
(* Refinement: the remote branch is a PublishedSnapshot.                   *)
(***************************************************************************)

\* What a history has beyond the length of the remote the pipeline committed.
Unpublished(h) == \A i \in (Len(remote) + 1)..Len(h) : h[i].group \in Groups
UnpublishedInv == Unpublished(start) /\ \A b \in Branches : Unpublished(log[b])

\* The remote does not get shorter.
LEMMA RemoteLength ==
    ASSUME TypeOK, [Next]_vars
    PROVE  Len(remote') >= Len(remote)
<1>1. CASE PushFastForward \/ PushUnacknowledged
  BY <1>1 DEF PushFastForward, PushUnacknowledged, IsFastForward, IsPrefix
<1>2. ASSUME NEW f \in Files, NEW v \in Contents, OthersPush(f, v)
      PROVE  Len(remote') >= Len(remote)
  <2> DEFINE c == [group |-> Foreign, tree |-> [Last(remote).tree EXCEPT ![f] = v]]
  <2>1. remote' = Append(remote, c)
    BY <1>2 DEF OthersPush
  <2> HIDE DEF c
  <2>2. QED
    BY <2>1 DEF TypeOK
<1>3. CASE UNCHANGED remote
  BY <1>3 DEF TypeOK
<1>4. QED
  BY <1>1, <1>2, <1>3, WhoMovesHistories
  DEF CaptureStart, CommitGroup, Rollback, Crash, EndRun, Exit, FreshCheckout, Pull

\* Every step keeps UnpublishedInv.
LEMMA UnpublishedStep ==
    ASSUME TypeOK, ControlInv, UnpublishedInv, [Next]_vars
    PROVE  UnpublishedInv'
<1>1. /\ Len(remote') >= Len(remote) /\ Len(remote) \in Nat /\ Len(remote') \in Nat
      /\ head \in Branches /\ Target \in Branches
  <2>1. Len(remote') >= Len(remote)
    BY RemoteLength
  <2>2. remote' \in Seq(Commit)
    BY TypeStep DEF TypeOK
  <2>3. QED
    BY <2>1, <2>2, PublishAssumption DEF TypeOK
<1>2. ASSUME NEW h \in Seq(Commit), Unpublished(h)
      PROVE  \A i \in (Len(remote') + 1)..Len(h) : h[i].group \in Groups
  <2>1. Len(h) \in Nat
    OBVIOUS
  <2>2. QED
    BY <1>1, <1>2, <2>1 DEF Unpublished
<1>3. /\ \A i \in (Len(remote') + 1)..Len(start) : start[i].group \in Groups
      /\ \A b \in Branches : \A i \in (Len(remote') + 1)..Len(log[b]) : log[b][i].group \in Groups
  BY <1>2 DEF UnpublishedInv, TypeOK
<1>4. CASE CaptureStart
  <2>1. start' = log[head] /\ UNCHANGED log
    BY <1>4 DEF CaptureStart, HeadLog, repo
  <2>2. QED
    BY <1>1, <1>3, <2>1 DEF UnpublishedInv, Unpublished
<1>5. CASE CommitGroup
  <2> DEFINE c == [group |-> Group, tree |-> PartialTree]
             g == Append(log[head], c)
  <2>1. log[head] \in Seq(Commit) /\ c \in Commit /\ c.group \in Groups
    <3>1. gi <= Len(GroupOrder)
      BY <1>5 DEF CommitGroup, ControlInv
    <3>2. QED
      BY <3>1, HeadTypes DEF Commit, TypeOK
  <2>2. log' = [log EXCEPT ![head] = g] /\ UNCHANGED start
    BY <1>5 DEF CommitGroup, NextGroup
  <2>3. \A i \in (Len(remote') + 1)..Len(g) : g[i].group \in Groups
    <3> HIDE DEF c
    <3>1. Len(g) = Len(log[head]) + 1 /\ g[Len(g)] = c /\ \A i \in 1..Len(log[head]) : g[i] = log[head][i]
      BY <2>1
    <3>2. ASSUME NEW i \in (Len(remote') + 1)..Len(g) PROVE g[i].group \in Groups
      <4>1. CASE i = Len(g)
        BY <2>1, <3>1, <4>1
      <4>2. CASE i # Len(g)
        <5>1. i \in (Len(remote') + 1)..Len(log[head]) /\ i \in 1..Len(log[head])
          BY <1>1, <2>1, <3>1, <4>2
        <5>2. QED
          BY <1>1, <1>3, <3>1, <5>1
      <4>3. QED
        BY <4>1, <4>2
    <3>3. QED
      BY <3>2
  <2> HIDE DEF g
  <2>4. QED
    BY <1>1, <1>3, <2>2, <2>3 DEF UnpublishedInv, Unpublished, TypeOK
<1>6. CASE Rollback
  <2>1. log' = [log EXCEPT ![head] = start] /\ UNCHANGED start
    BY <1>6 DEF Rollback, Goto
  <2>2. QED
    BY <1>1, <1>3, <2>1 DEF UnpublishedInv, Unpublished, TypeOK
<1>7. CASE Crash \/ EndRun
  <2>1. start' = <<>> /\ UNCHANGED log
    BY <1>7 DEF Crash, EndRun, Exit, repo
  <2>2. QED
    BY <1>1, <1>3, <2>1 DEF UnpublishedInv, Unpublished
<1>8. CASE FreshCheckout \/ Pull
  <2>1. log' = [log EXCEPT ![Target] = remote] /\ UNCHANGED <<remote, start>>
    BY <1>8 DEF FreshCheckout, Pull, run
  <2>2. \A i \in (Len(remote') + 1)..Len(remote) : remote[i].group \in Groups
    BY <1>1, <2>1
  <2>3. QED
    BY <1>1, <1>3, <2>1, <2>2 DEF UnpublishedInv, Unpublished, TypeOK
<1>9. CASE UNCHANGED <<log, start>>
  BY <1>3, <1>9 DEF UnpublishedInv, Unpublished
<1>10. QED
  BY <1>4, <1>5, <1>6, <1>7, <1>8, <1>9, WhoMovesHistories
  DEF PushFastForward, PushUnacknowledged, OthersPush, Goto, repo, run

\* A push publishes the whole draft, or changes nothing.
LEMMA PushPublishes ==
    ASSUME IInv, UnpublishedInv, PushFastForward \/ PushUnacknowledged
    PROVE  Published!PublishDraft \/ UNCHANGED <<remote, worktree>>
<1>1. TypeOK /\ ControlInv /\ LoopInv /\ HistoryInv
  BY DEF IInv
<1>2. /\ remote' = log[Target] /\ worktree' = worktree /\ IsPrefix(remote, log[Target])
      /\ pc = "push" /\ head = Target /\ gi = Len(GroupOrder) + 1
  BY <1>1 DEF PushFastForward, PushUnacknowledged, IsFastForward, Goto, repo, ControlInv,
     InCommits
<1>3. \A f \in Owned : Last(log[Target]).tree[f] = worktree[f]
  BY <1>1, <1>2, AllCommitted DEF HeadTree, HeadLog
<1>4. \A i \in (Len(remote) + 1)..Len(log[Target]) :
          /\ log[Target][i].group \in Groups
          /\ \A f \in Files : log[Target][i].tree[f] # log[Target][i - 1].tree[f]
                                => GroupOf[f] = log[Target][i].group
  <2>1. Target \in Branches /\ Len(remote) \in Nat \ {0} /\ Len(log[Target]) \in Nat
    BY <1>1, PublishAssumption DEF TypeOK
  <2>2. \A i \in (Len(remote) + 1)..Len(log[Target]) : i \in 2..Len(log[Target])
    BY <2>1
  <2>3. QED
    BY <1>1, <2>1, <2>2 DEF UnpublishedInv, Unpublished, HistoryInv, CommitsStayInGroup,
       StaysInGroup
<1>5. CASE remote' = remote
  BY <1>2, <1>5
<1>6. CASE remote' # remote
  BY <1>2, <1>3, <1>4, <1>6
  DEF Published!PublishDraft, Published!Owned, Published!Groups, Owned, Groups,
      Published!IsStrictPrefix, Published!IsPrefix, IsPrefix, Published!Last, Last
<1>7. QED
  BY <1>5, <1>6

\* Every run publishes atomically, whatever its failures and interruptions: the
\* remote branch behaves as PublishedSnapshot says.
THEOREM PublishesAtomically == Spec => PublishedAtomically
<1>1. Init => Published!Init /\ UnpublishedInv
  <2> SUFFICES ASSUME Init PROVE Published!Init /\ UnpublishedInv
    OBVIOUS
  <2>1. PICK t \in InitialTrees :
            LET first == <<[group |-> Foreign, tree |-> t]>>
            IN log = [b \in Branches |-> first] /\ remote = first /\ index = t /\ worktree = t
    BY DEF Init
  <2>2. Published!Init
    BY <2>1 DEF Published!Init
  <2>3. start = <<>>
    BY DEF Init, NoRun
  <2>4. UnpublishedInv
    BY <2>1, <2>3 DEF UnpublishedInv, Unpublished
  <2>5. QED
    BY <2>2, <2>4
<1>2. IInv /\ UnpublishedInv /\ [Next]_vars => UnpublishedInv'
  BY UnpublishedStep DEF IInv
<1>3. IInv /\ IInv' /\ UnpublishedInv /\ [Next]_vars => [Published!Next]_<<remote, worktree>>
  <2> SUFFICES ASSUME IInv, IInv', UnpublishedInv, [Next]_vars
               PROVE  Published!Next \/ UNCHANGED <<remote, worktree>>
    BY DEF Published!Next
  <2>1. CASE PushFastForward \/ PushUnacknowledged
    BY <2>1, PushPublishes DEF Published!Next
  <2>2. ASSUME NEW f \in Files, NEW v \in Contents, OthersPush(f, v)
        PROVE  Published!Next
    <3> DEFINE c == [group |-> Foreign, tree |-> [Last(remote).tree EXCEPT ![f] = v]]
    <3>1. remote' = Append(remote, c) /\ worktree' = worktree
      BY <2>2 DEF OthersPush, repo
    <3>2. c \in Commit
      <4>1. [Last(remote).tree EXCEPT ![f] = v] \in Tree
        BY HeadTypes DEF IInv, Tree
      <4>2. QED
        BY <4>1 DEF Commit
    <3>3. c.group = Foreign
      OBVIOUS
    <3> HIDE DEF c
    <3>4. Last(Append(remote, c)) = c
      BY <3>2 DEF Last, IInv, TypeOK
    <3>5. QED
      BY <3>1, <3>3, <3>4 DEF Published!Next, Published!Contribute, Published!Last, Last
  <2>3. CASE UNCHANGED remote
    <3>1. worktree' \in [Files -> Contents \cup {NoFile}]
      BY DEF IInv, TypeOK, Tree
    <3>2. QED
      BY <2>3, <3>1 DEF Published!Next, Published!Work
  <2>4. QED
    BY <2>1, <2>2, <2>3, WhoMovesHistories
    DEF CaptureStart, CommitGroup, Rollback, Crash, EndRun, Exit, FreshCheckout, Pull
<1>4. QED
  BY <1>1, <1>2, <1>3, Invariance, PTL DEF Spec, PublishedAtomically, Published!Spec

(***************************************************************************)
(* Who refuses a run: the clean-index check, once every group is tracked.  *)
(***************************************************************************)

\* The repository has files of every group to start with.  (Without this the property
\* is false: see MCPublishFirstRun.cfg.)
GroupsTracked ==
    \A g \in Groups : \E f \in Files : GroupOf[f] = g /\ \A t \in InitialTrees : t[f] # NoFile

\* A path that exists in every tree that can become HEAD, the index or the disk.
Everywhere(f) ==
    /\ \A b \in Branches : Last(log[b]).tree[f] # NoFile
    /\ Last(remote).tree[f] # NoFile
    /\ index[f] # NoFile /\ worktree[f] # NoFile
    /\ start # <<>> => Last(start).tree[f] # NoFile

StayTrackedInv == \A g \in Groups : \E f \in Files : GroupOf[f] = g /\ Everywhere(f)

\* What is staged of the owned paths after the reconciliation, and who refuses a run.
RefusalInv ==
    /\ pc \in {"clean", "verifyIndex"} => \A f \in Owned : index[f] = HeadTree[f]
    /\ cause = "refused" => pc = "failed"
    /\ RefusedOnlyForForeignContent

\* Nobody deletes a path: the pipeline writes contents, others push contents, and git
\* clean removes only what the index does not know.
LEMMA EverywhereStep ==
    ASSUME TypeOK, ControlInv, [Next]_vars, NEW f \in Files, Everywhere(f)
    PROVE  Everywhere(f)'
<1> USE DEF Everywhere, Goto, Fail, repo, run, Exit, NextGroup, TypeOK
<1>1. HeadTree[f] # NoFile /\ \A v \in Contents : v # NoFile
  BY PublishAssumption DEF HeadTree, HeadLog
<1>2. CASE RestorePaths
  BY <1>1, <1>2 DEF RestorePaths
<1>3. CASE CleanPaths
  BY <1>3 DEF CleanPaths
<1>4. ASSUME NEW v \in Contents, NEW g \in Gitlinks, UpdateSubmodule(g, v)
      PROVE  Everywhere(f)'
  BY <1>1, <1>4 DEF UpdateSubmodule, Tree
<1>5. ASSUME NEW v \in Contents, NEW g \in Owned \ Gitlinks, WriteArtifact(g, v)
      PROVE  Everywhere(f)'
  BY <1>1, <1>5 DEF WriteArtifact, Tree
<1>6. CASE CaptureStart
  BY <1>1, <1>6 DEF CaptureStart, HeadTree
<1>7. CASE AddPaths
  BY <1>7 DEF AddPaths
<1>8. CASE CommitGroup
  <2> DEFINE c == [group |-> Group, tree |-> PartialTree]
  <2>1. c \in Commit /\ c.tree[f] # NoFile
    <3>1. gi <= Len(GroupOrder)
      BY <1>8, PublishAssumption DEF CommitGroup, ControlInv
    <3>2. Group \in Groups /\ PartialTree \in Tree
      BY <3>1, HeadTypes
    <3>3. PartialTree[f] # NoFile
      BY <1>1 DEF PartialTree
    <3>4. QED
      BY <3>2, <3>3 DEF Commit
  <2>2. log' = [log EXCEPT ![head] = Append(@, c)] /\ UNCHANGED <<remote, index, worktree, start>>
    BY <1>8 DEF CommitGroup
  <2> HIDE DEF c
  <2>3. \A h \in Seq(Commit) : Last(Append(h, c)) = c
    BY <2>1 DEF Last
  <2>4. \A b \in Branches : Last(log'[b]).tree[f] # NoFile
    BY <2>1, <2>2, <2>3
  <2>5. QED
    BY <2>2, <2>4
<1>9. CASE PushFastForward \/ PushUnacknowledged
  BY <1>9, PublishAssumption DEF PushFastForward, PushUnacknowledged
<1>10. CASE Rollback
  BY <1>10 DEF Rollback, ControlInv, InCommits
<1>11. CASE Crash \/ EndRun
  BY <1>11 DEF Crash, EndRun
<1>12. ASSUME NEW g \in Files, NEW v \in Contents, OthersPush(g, v)
       PROVE  Everywhere(f)'
  <2> DEFINE c == [group |-> Foreign, tree |-> [Last(remote).tree EXCEPT ![g] = v]]
  <2>1. c \in Commit /\ c.tree[f] # NoFile
    BY <1>1, HeadTypes DEF Tree, Commit
  <2>2. remote' = Append(remote, c) /\ UNCHANGED <<log, index, worktree, start>>
    BY <1>12 DEF OthersPush
  <2> HIDE DEF c
  <2>3. Last(remote') = c
    BY <2>1, <2>2 DEF Last
  <2>4. QED
    BY <2>1, <2>2, <2>3
<1>13. ASSUME NEW g \in Files \ Owned, NEW v \in Contents, StageForeign(g, v)
       PROVE  Everywhere(f)'
  BY <1>1, <1>13 DEF StageForeign, Tree
<1>14. ASSUME NEW b \in Branches, Checkout(b) PROVE Everywhere(f)'
  BY <1>14 DEF Checkout
<1>15. CASE FreshCheckout \/ Pull
  BY <1>15, PublishAssumption DEF FreshCheckout, Pull
<1>16. CASE UNCHANGED <<log, remote, start, index, worktree>>
  BY <1>16
<1>17. QED
  BY <1>2, <1>3, <1>4, <1>5, <1>6, <1>7, <1>8, <1>9, <1>10, <1>11, <1>12, <1>13, <1>14, <1>15,
     <1>16
  DEF Next, vars, Reconcile, Generate, PublishRun, Environment, StartRun, VerifyBranch,
      VerifyCleanIndexForPush, SubmodulesUpdated, ArtifactsWritten, HasStagedChanges,
      GroupsCommitted, PushIfAdvanced, PushRejected, RollbackFails, FailBeforeCommits,
      FailInRun, Interrupt

\* With every group tracked at HEAD, nothing of the owned paths stays staged, so that
\* the check can only find what is not the pipeline's.
LEMMA RefusalStep ==
    ASSUME TypeOK, ControlInv, StayTrackedInv, RefusalInv, [Next]_vars
    PROVE  RefusalInv'
<1> USE DEF RefusalInv, RefusedOnlyForForeignContent, HeadTree, HeadLog, Goto, Fail, repo, run,
            Exit, NextGroup, Steps, Ended
<1>1. ASSUME NEW l \in Levels, StartRun(l) PROVE RefusalInv'
  BY <1>1 DEF StartRun
<1>2. CASE VerifyBranch
  BY <1>2 DEF VerifyBranch
<1>3. CASE RestorePaths
  <2>1. \A f \in Owned : GroupOf[f] \in TrackedAtHEAD
    <3> SUFFICES ASSUME NEW f \in Owned
                 PROVE  GroupOf[f] \in TrackedAtHEAD
      OBVIOUS
    <3>1. GroupOf[f] \in Groups
      BY DEF Owned
    <3>2. PICK h \in Files : GroupOf[h] = GroupOf[f] /\ Everywhere(h)
      BY <3>1 DEF StayTrackedInv
    <3>3. h \in Owned /\ HeadTree[h] # NoFile
      BY <3>1, <3>2 DEF Owned, Everywhere, TypeOK
    <3>4. QED
      BY <3>2, <3>3 DEF TrackedAtHEAD, TrackedIn
  <2>2. \A f \in Owned : index'[f] = HeadTree[f]
    BY <1>3, <2>1 DEF RestorePaths, Owned
  <2>3. pc' = "clean" /\ pc = "restore" /\ UNCHANGED <<log, head, cause>>
    BY <1>3 DEF RestorePaths
  <2>4. QED
    BY <2>2, <2>3
<1>4. CASE CleanPaths
  BY <1>4 DEF CleanPaths
<1>5. CASE VerifyCleanIndexForPush
  <2>1. ASSUME ~IsIndexClean, pc = "verifyIndex"
        PROVE  \E f \in Files \ Owned : index[f] # HeadTree[f]
    <3>1. index \in Tree /\ HeadTree \in Tree /\ index # HeadTree
      BY <2>1, HeadTypes DEF IsIndexClean, TypeOK
    <3> HIDE DEF HeadTree
    <3>2. PICK f \in Files : index[f] # HeadTree[f]
      BY <3>1 DEF Tree
    <3>3. QED
      BY <2>1, <3>2
  <2>2. QED
    BY <1>5, <2>1 DEF VerifyCleanIndexForPush
<1>6. ASSUME NEW v \in Contents, NEW f \in Gitlinks, UpdateSubmodule(f, v) PROVE RefusalInv'
  BY <1>6 DEF UpdateSubmodule
<1>7. ASSUME NEW v \in Contents, NEW f \in Owned \ Gitlinks, WriteArtifact(f, v)
      PROVE  RefusalInv'
  BY <1>7 DEF WriteArtifact
<1>8. CASE SubmodulesUpdated \/ ArtifactsWritten
  BY <1>8 DEF SubmodulesUpdated, ArtifactsWritten
<1>9. CASE CaptureStart \/ AddPaths \/ HasStagedChanges \/ CommitGroup \/ GroupsCommitted
  BY <1>9 DEF CaptureStart, AddPaths, HasGroup, HasStagedChanges, CommitGroup, GroupsCommitted
<1>10. CASE PushIfAdvanced \/ PushFastForward \/ PushRejected \/ PushUnacknowledged
  BY <1>10 DEF PushIfAdvanced, PushFastForward, PushRejected, PushUnacknowledged
<1>11. CASE Rollback \/ RollbackFails
  BY <1>11 DEF Rollback, RollbackFails
<1>12. CASE FailBeforeCommits \/ FailInRun
  BY <1>12 DEF FailBeforeCommits, FailInRun, HasGroup
<1>13. CASE Interrupt \/ Crash \/ EndRun
  BY <1>13 DEF Interrupt, Crash, EndRun
<1>14. CASE Environment
  BY <1>14 DEF Environment, OthersPush, StageForeign, Checkout, FreshCheckout, Pull
<1>15. CASE UNCHANGED vars
  BY <1>15 DEF vars
<1>16. QED
  BY <1>1, <1>2, <1>3, <1>4, <1>5, <1>6, <1>7, <1>8, <1>9, <1>10, <1>11, <1>12, <1>13, <1>14,
     <1>15
  DEF Next, Reconcile, Generate, PublishRun

\* In a repository that has files of every group, the check refuses a run only because
\* of content that is not the pipeline's own.
THEOREM OnlyForeignContentIsRefused ==
    ASSUME GroupsTracked
    PROVE  Spec => []RefusedOnlyForForeignContent
<1>1. Init => StayTrackedInv /\ RefusalInv
  <2> SUFFICES ASSUME Init PROVE StayTrackedInv /\ RefusalInv
    OBVIOUS
  <2>1. PICK t \in InitialTrees :
            LET first == <<[group |-> Foreign, tree |-> t]>>
            IN log = [b \in Branches |-> first] /\ remote = first /\ index = t /\ worktree = t
    BY DEF Init
  <2>2. pc = "idle" /\ start = <<>> /\ cause = "none"
    BY DEF Init, NoRun
  <2>3. ASSUME NEW f \in Files, t[f] # NoFile PROVE Everywhere(f)
    BY <2>1, <2>2, <2>3 DEF Everywhere, Last
  <2>4. StayTrackedInv
    BY <2>3, GroupsTracked DEF GroupsTracked, StayTrackedInv
  <2>5. RefusalInv
    BY <2>2 DEF RefusalInv, RefusedOnlyForForeignContent
  <2>6. QED
    BY <2>4, <2>5
<1>2. IInv /\ StayTrackedInv /\ RefusalInv /\ [Next]_vars => StayTrackedInv' /\ RefusalInv'
  <2> SUFFICES ASSUME IInv, StayTrackedInv, RefusalInv, [Next]_vars
               PROVE  StayTrackedInv' /\ RefusalInv'
    OBVIOUS
  <2>1. StayTrackedInv'
    BY EverywhereStep DEF StayTrackedInv, IInv
  <2>2. QED
    BY <2>1, RefusalStep DEF IInv
<1>3. RefusalInv => RefusedOnlyForForeignContent
  BY DEF RefusalInv
<1>4. QED
  BY <1>1, <1>2, <1>3, Invariance, PTL DEF Spec
=============================================================================
