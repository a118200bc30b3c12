------------------------------- MODULE Publish -------------------------------
(***************************************************************************)
(* The pipeline run as its git checkout and the remote see it              *)
(* (internal/publish, internal/git/writer.go, cmd/glvd2/pipeline.go).      *)
(*                                                                         *)
(* A run reconciles the owned paths to HEAD, updates the submodules,       *)
(* rewrites artifacts, commits one commit per group and pushes.  One       *)
(* action is one git command.  A history is the sequence of its commits,   *)
(* and a commit SHA names the whole history that ends in it.  The content  *)
(* of a file is a member of Contents; a group is the set of its files.     *)
(***************************************************************************)
EXTENDS Naturals, Sequences, SequencesExt

CONSTANTS
    Files,         \* every path of the repository the model tells apart
    Contents,      \* what a path may hold: a version of a file, a submodule commit
    NoFile,        \* the content of a path that does not exist
    GroupOrder,    \* the commit groups, in the order they are committed
    Foreign,       \* the owner of the paths no commit group owns
    GroupOf,       \* the owner of each path
    Gitlinks,      \* the owned paths that are submodules
    Branches,      \* local branches, a detached HEAD counting as one
    Target,        \* the configured branch (push.branch)
    InitialTrees,  \* the trees the repository may start with
    Faults,        \* may a git command fail for a reason of its own?
    Interrupts,    \* may a signal cancel the run, or kill it?
    MaxHistory     \* bound on the length of a history

Groups   == {GroupOrder[i] : i \in 1..Len(GroupOrder)}
Owned    == {f \in Files : GroupOf[f] \in Groups}
Tree     == [Files -> Contents \cup {NoFile}]
Commit   == [group : Groups \cup {Foreign}, tree : Tree]
Levels   == {"none", "commit", "push"}

ASSUME PublishAssumption ==
    /\ NoFile \notin Contents
    /\ GroupOrder \in Seq(Groups) /\ Len(GroupOrder) > 0
    /\ Foreign \notin Groups
    /\ GroupOf \in [Files -> Groups \cup {Foreign}]
    /\ Gitlinks \subseteq Owned
    /\ Target \in Branches
    /\ InitialTrees \subseteq Tree
    /\ Faults \in BOOLEAN /\ Interrupts \in BOOLEAN
    /\ MaxHistory \in Nat

VARIABLES
    log,        \* the history of each local branch
    head,       \* the branch HEAD points to
    index,      \* the staging area
    worktree,   \* the files on disk
    remote,     \* the history of Target on the remote
    pc,         \* the next git command of the run, or how it ended
    level,      \* the publish level the run was started with
    start,      \* startSHA of Service.Run; <<>> before it is captured
    gi,         \* position in GroupOrder of the group being committed
    cancelled,  \* is the context of the run cancelled?
    cause,      \* why the run fails
    written     \* history: the artifacts this run has written

repo == <<log, head, index, worktree>>
run  == <<pc, level, start, gi, cancelled, cause, written>>
vars == <<repo, remote, run>>

HeadLog  == log[head]
HeadTree == Last(HeadLog).tree

Steps == {"verifyBranch", "restore", "clean", "verifyIndex", "update", "process",
          "capture", "add", "check", "commit", "resolve", "push", "rollback"}
Ended == {"done", "failed", "rollbackFailed"}

\* What run variables hold when no run is in progress.
NoRun ==
    /\ pc = "idle" /\ level = "none" /\ start = <<>> /\ gi = 1
    /\ cancelled = FALSE /\ cause = "none" /\ written = {}

Init ==
    /\ \E t \in InitialTrees :
          LET first == <<[group |-> Foreign, tree |-> t]>>
          IN /\ log = [b \in Branches |-> first]
             /\ remote = first
             /\ index = t /\ worktree = t
    /\ head = Target
    /\ NoRun

-----------------------------------------------------------------------------
(* The run: start, interruption, end.                                      *)

\* Every git command runs under the context of the run: it may fail by itself,
\* and it does fail once that context is cancelled.
GitFails == cancelled \/ Faults

Goto(next) == pc' = next /\ UNCHANGED <<level, start, gi, cancelled, cause, written>>

Fail(next, why) ==
    pc' = next /\ cause' = why /\ UNCHANGED <<level, start, gi, cancelled, written>>

StartRun(l) ==
    /\ pc = "idle"
    /\ Len(HeadLog) + Len(GroupOrder) <= MaxHistory
    /\ pc' = "verifyBranch" /\ level' = l
    /\ UNCHANGED <<repo, remote, start, gi, cancelled, cause, written>>

\* The process exits: its variables are gone, the repository stays as it is.
Exit ==
    /\ pc' = "idle" /\ level' = "none" /\ start' = <<>> /\ gi' = 1
    /\ cancelled' = FALSE /\ cause' = "none" /\ written' = {}
    /\ UNCHANGED <<repo, remote>>

EndRun == pc \in Ended /\ Exit

\* The process is killed between two steps: by os.Exit in the goroutine that waits for
\* a signal on hardExit once the context is cancelled, or from outside.  hardExit is
\* registered before any signal can come, and holds the first one too, so that the
\* goroutine need not wait for a second.
Crash == Interrupts /\ pc \in Steps /\ Exit

\* The first SIGINT or SIGTERM cancels the context of the run; how far the run comes
\* before hardExit ends the process is open (Crash).
Interrupt ==
    /\ Interrupts /\ pc \in Steps /\ ~cancelled
    /\ cancelled' = TRUE
    /\ UNCHANGED <<repo, remote, pc, level, start, gi, cause, written>>

-----------------------------------------------------------------------------
(* Before the artifacts are generated.                                     *)

\* Mutant: only a push needs the branch.
VerifyBranchForPushOnly ==
    /\ pc = "verifyBranch"
    /\ \/ level # "push" /\ Goto("restore")
       \/ level = "push" /\ ~cancelled /\ head = Target /\ Goto("restore")
       \/ level = "push" /\ ~cancelled /\ head # Target /\ Fail("failed", "refused")
    /\ UNCHANGED <<repo, remote>>

VerifyBranch ==
    /\ pc = "verifyBranch"
    /\ \/ level = "none" /\ Goto("restore")
       \/ level # "none" /\ ~cancelled /\ head = Target /\ Goto("restore")
       \/ level # "none" /\ ~cancelled /\ head # Target /\ Fail("failed", "refused")
    /\ UNCHANGED <<repo, remote>>

TrackedIn(tree) == {GroupOf[f] : f \in {h \in Owned : tree[h] # NoFile}}

TrackedAtHEAD == TrackedIn(HeadTree)

\* Mutant: git restore without --staged.
RestoreWorktreeOnly ==
    /\ pc = "restore" /\ ~cancelled
    /\ worktree' = [f \in Files |->
          IF GroupOf[f] \in TrackedAtHEAD /\ f \notin Gitlinks /\ HeadTree[f] # NoFile
          THEN HeadTree[f] ELSE worktree[f]]
    /\ Goto("clean")
    /\ UNCHANGED <<log, head, index, remote>>

\* git restore --source=HEAD --staged --worktree on the tracked groups: known
\* files go back to HEAD, untracked ones stay, and a submodule keeps its checkout.
RestorePaths ==
    /\ pc = "restore" /\ ~cancelled
    /\ index' = [f \in Files |-> IF GroupOf[f] \in TrackedAtHEAD THEN HeadTree[f] ELSE index[f]]
    /\ worktree' = [f \in Files |->
          IF /\ GroupOf[f] \in TrackedAtHEAD /\ f \notin Gitlinks
             /\ HeadTree[f] # NoFile \/ index[f] # NoFile
          THEN HeadTree[f] ELSE worktree[f]]
    /\ Goto("clean")
    /\ UNCHANGED <<log, head, remote>>

\* Mutant: git clean gets the tracked groups only, as git restore does.
CleanTrackedPaths ==
    /\ pc = "clean" /\ ~cancelled
    /\ worktree' = [f \in Files |->
          IF /\ f \in Owned \ Gitlinks /\ index[f] = NoFile
             /\ GroupOf[f] \in TrackedAtHEAD
          THEN NoFile ELSE worktree[f]]
    /\ Goto("verifyIndex")
    /\ UNCHANGED <<log, head, index, remote>>

\* git clean -fd on every group: files the index does not know are removed.
CleanPaths ==
    /\ pc = "clean" /\ ~cancelled
    /\ worktree' = [f \in Files |->
          IF f \in Owned \ Gitlinks /\ index[f] = NoFile THEN NoFile ELSE worktree[f]]
    /\ Goto("verifyIndex")
    /\ UNCHANGED <<log, head, index, remote>>

IsIndexClean == index = HeadTree

VerifyCleanIndexForPush ==
    /\ pc = "verifyIndex"
    /\ \/ level # "push" /\ Goto("update")
       \/ level = "push" /\ ~cancelled /\ IsIndexClean /\ Goto("update")
       \/ level = "push" /\ ~cancelled /\ ~IsIndexClean /\ Fail("failed", "refused")
    /\ UNCHANGED <<repo, remote>>

-----------------------------------------------------------------------------
(* Generating the artifacts.                                               *)

\* git submodule update --remote moves each checkout to the newest commit;
\* with the skip flag, or when nothing is new, it does not move.
UpdateSubmodule(f, v) ==
    /\ pc = "update" /\ ~cancelled
    /\ worktree' = [worktree EXCEPT ![f] = v]
    /\ UNCHANGED <<log, head, index, remote, run>>

SubmodulesUpdated ==
    /\ pc = "update"
    /\ Goto("process")
    /\ UNCHANGED <<repo, remote>>

\* An assessment, a package analysis or an audit file is written.
WriteArtifact(f, v) ==
    /\ pc = "process"
    /\ worktree' = [worktree EXCEPT ![f] = v]
    /\ written' = written \cup {f}
    /\ UNCHANGED <<log, head, index, remote, pc, level, start, gi, cancelled, cause>>

ArtifactsWritten ==
    /\ pc = "process"
    /\ IF level = "none" THEN Goto("done") ELSE Goto("capture")
    /\ UNCHANGED <<repo, remote>>

\* Mutant: the rollback also answers failures before startSHA is captured.
RollbackBeforeCapture ==
    /\ GitFails
    /\ pc \in {"restore", "clean", "update", "process", "capture"}
    /\ Fail("rollback", "fault")
    /\ UNCHANGED <<repo, remote>>

\* Any command or computation before the first commit fails: no rollback.
FailBeforeCommits ==
    /\ GitFails
    /\ \/ pc \in {"restore", "clean", "update", "process", "capture"}
       \/ pc = "verifyBranch" /\ level # "none"
       \/ pc = "verifyIndex" /\ level = "push"
    /\ Fail("failed", "fault")
    /\ UNCHANGED <<repo, remote>>

-----------------------------------------------------------------------------
(* Service.Run: one commit per group, then the push.                       *)

CaptureStart ==
    /\ pc = "capture" /\ ~cancelled
    /\ pc' = "add" /\ start' = HeadLog
    /\ UNCHANGED <<repo, remote, level, gi, cancelled, cause, written>>

Group    == GroupOrder[gi]
InGroup(f) == GroupOf[f] = Group
HasGroup == pc = "add" /\ gi <= Len(GroupOrder)

\* A file of the group is on disk or in the index.
PathspecMatches == \E f \in Files : InGroup(f) /\ (worktree[f] # NoFile \/ index[f] # NoFile)

\* Mutant: git add -u, which knows tracked files only.
AddTrackedPaths ==
    /\ HasGroup /\ ~cancelled
    /\ index' = [f \in Files |->
          IF InGroup(f) /\ index[f] # NoFile THEN worktree[f] ELSE index[f]]
    /\ Goto("check")
    /\ UNCHANGED <<log, head, worktree, remote>>

\* git add -- paths.  Of a group without a file the directory may exist, and then there
\* is nothing to stage, or be missing, and then the pathspec matches nothing.
AddPaths ==
    /\ HasGroup /\ ~cancelled
    /\ \/ /\ index' = [f \in Files |-> IF InGroup(f) THEN worktree[f] ELSE index[f]]
          /\ Goto("check")
       \/ /\ ~PathspecMatches
          /\ Fail("rollback", "empty")
          /\ UNCHANGED index
    /\ UNCHANGED <<log, head, worktree, remote>>

NextGroup ==
    /\ pc' = "add" /\ gi' = gi + 1
    /\ UNCHANGED <<level, start, cancelled, cause, written>>

\* Mutant: the empty group is tried again.
EmptyGroupRetried ==
    /\ pc = "check" /\ ~cancelled
    /\ IF \E f \in Files : InGroup(f) /\ index[f] # HeadTree[f]
       THEN Goto("commit") ELSE Goto("add")
    /\ UNCHANGED <<repo, remote>>

HasStagedChanges ==
    /\ pc = "check" /\ ~cancelled
    /\ IF \E f \in Files : InGroup(f) /\ index[f] # HeadTree[f]
       THEN Goto("commit") ELSE NextGroup
    /\ UNCHANGED <<repo, remote>>

\* Mutant: git commit without paths commits the whole index.
WholeIndex == index

\* git commit -- paths: a partial commit.  What else is staged stays staged.
PartialTree == [f \in Files |-> IF InGroup(f) THEN index[f] ELSE HeadTree[f]]

CommitGroup ==
    /\ pc = "commit" /\ ~cancelled
    /\ log' = [log EXCEPT ![head] = Append(@, [group |-> Group, tree |-> PartialTree])]
    /\ NextGroup
    /\ UNCHANGED <<head, index, worktree, remote>>

\* Mutant: the loop ends one group early.
LastGroupSkipped ==
    /\ pc = "add" /\ gi >= Len(GroupOrder)
    /\ IF level = "push" THEN Goto("resolve") ELSE Goto("done")
    /\ UNCHANGED <<repo, remote>>

GroupsCommitted ==
    /\ pc = "add" /\ gi > Len(GroupOrder)
    /\ IF level = "push" THEN Goto("resolve") ELSE Goto("done")
    /\ UNCHANGED <<repo, remote>>

\* Push only when HEAD moved past startSHA.
PushIfAdvanced ==
    /\ pc = "resolve" /\ ~cancelled
    /\ IF HeadLog = start THEN Goto("done") ELSE Goto("push")
    /\ UNCHANGED <<repo, remote>>

IsFastForward == IsPrefix(remote, log[Target])

PushFastForward ==
    /\ pc = "push" /\ ~cancelled /\ IsFastForward
    /\ remote' = log[Target]
    /\ Goto("done")
    /\ UNCHANGED repo

\* Mutant: a rejected push is reported and not rolled back.
RejectedWithoutRollback ==
    /\ pc = "push" /\ ~cancelled /\ ~IsFastForward
    /\ Fail("failed", "rejected")
    /\ UNCHANGED <<repo, remote>>

PushRejected ==
    /\ pc = "push" /\ ~cancelled /\ ~IsFastForward
    /\ Fail("rollback", "rejected")
    /\ UNCHANGED <<repo, remote>>

\* The remote took the push, and the command is killed or loses the connection
\* before it learns of it.
PushUnacknowledged ==
    /\ pc = "push" /\ ~cancelled /\ IsFastForward
    /\ \/ Faults /\ UNCHANGED cancelled
       \/ Interrupts /\ cancelled' = TRUE
    /\ remote' = log[Target]
    /\ pc' = "rollback" /\ cause' = "fault"
    /\ UNCHANGED <<repo, level, start, gi, written>>

FailInRun ==
    /\ GitFails
    /\ HasGroup \/ pc \in {"check", "commit", "resolve", "push"}
    /\ Fail("rollback", "fault")
    /\ UNCHANGED <<repo, remote>>

\* git reset --soft startSHA: index and files stay.  It runs under the same
\* context as the command whose failure it answers.
Rollback ==
    /\ pc = "rollback" /\ ~cancelled
    /\ log' = [log EXCEPT ![head] = start]
    /\ Goto("failed")
    /\ UNCHANGED <<head, index, worktree, remote>>

RollbackFails ==
    /\ pc = "rollback" /\ GitFails
    /\ Goto("rollbackFailed")
    /\ UNCHANGED <<repo, remote>>

-----------------------------------------------------------------------------
(* Everybody else: reviewers push to the remote at any time; the operator  *)
(* touches the checkout only while no run is in progress.                  *)

OthersPush(f, v) ==
    /\ Len(remote) < MaxHistory
    /\ v # Last(remote).tree[f]
    /\ remote' = Append(remote,
          [group |-> Foreign, tree |-> [Last(remote).tree EXCEPT ![f] = v]])
    /\ UNCHANGED <<repo, run>>

StageForeign(f, v) ==
    /\ pc = "idle"
    /\ index' = [index EXCEPT ![f] = v]
    /\ worktree' = [worktree EXCEPT ![f] = v]
    /\ UNCHANGED <<log, head, remote, run>>

\* A new clone of the remote, as each scheduled workflow job makes.
FreshCheckout ==
    /\ pc = "idle"
    /\ log' = [log EXCEPT ![Target] = remote]
    /\ head' = Target
    /\ index' = Last(remote).tree /\ worktree' = Last(remote).tree
    /\ UNCHANGED <<remote, run>>

\* git switch, on a clean checkout.
Checkout(b) ==
    /\ pc = "idle" /\ index = HeadTree /\ worktree = HeadTree
    /\ head' = b
    /\ index' = Last(log[b]).tree /\ worktree' = Last(log[b]).tree
    /\ UNCHANGED <<log, remote, run>>

\* git pull --ff-only, on a clean checkout of Target.
Pull ==
    /\ pc = "idle" /\ head = Target /\ index = HeadTree /\ worktree = HeadTree
    /\ IsPrefix(HeadLog, remote)
    /\ log' = [log EXCEPT ![Target] = remote]
    /\ index' = Last(remote).tree /\ worktree' = Last(remote).tree
    /\ UNCHANGED <<head, remote, run>>

-----------------------------------------------------------------------------
Reconcile == VerifyBranch \/ RestorePaths \/ CleanPaths \/ VerifyCleanIndexForPush

Generate ==
    \/ \E v \in Contents : \/ \E f \in Gitlinks : UpdateSubmodule(f, v)
                           \/ \E f \in Owned \ Gitlinks : WriteArtifact(f, v)
    \/ SubmodulesUpdated \/ ArtifactsWritten

PublishRun ==
    \/ CaptureStart \/ AddPaths \/ HasStagedChanges \/ CommitGroup \/ GroupsCommitted
    \/ PushIfAdvanced \/ PushFastForward \/ PushRejected \/ PushUnacknowledged
    \/ Rollback \/ RollbackFails

Environment ==
    \/ \E f \in Files, v \in Contents : OthersPush(f, v)
    \/ \E f \in Files \ Owned, v \in Contents : StageForeign(f, v)
    \/ \E b \in Branches : Checkout(b)
    \/ FreshCheckout \/ Pull

Next ==
    \/ \E l \in Levels : StartRun(l)
    \/ Reconcile \/ Generate \/ PublishRun
    \/ FailBeforeCommits \/ FailInRun
    \/ Interrupt \/ Crash \/ EndRun
    \/ Environment

Spec == Init /\ [][Next]_vars

\* A run that is under way goes on: no step of it waits for anybody, and each loop
\* over submodules, records and groups is finite.  Which way a step goes is free.
Progress ==
    \/ Reconcile \/ SubmodulesUpdated \/ ArtifactsWritten \/ PublishRun
    \/ FailBeforeCommits \/ FailInRun \/ EndRun

Fairness == WF_vars(Progress)

FairSpec == Spec /\ Fairness
-----------------------------------------------------------------------------
(* Properties.                                                             *)

TypeOK ==
    /\ log \in [Branches -> Seq(Commit) \ {<<>>}]
    /\ head \in Branches
    /\ index \in Tree /\ worktree \in Tree
    /\ remote \in Seq(Commit) \ {<<>>}
    /\ pc \in {"idle"} \cup Steps \cup Ended
    /\ level \in Levels
    /\ start \in Seq(Commit)
    /\ gi \in 1..(Len(GroupOrder) + 1)
    /\ cancelled \in BOOLEAN
    /\ cause \in {"none", "fault", "refused", "empty", "rejected"}
    /\ written \subseteq Owned \ Gitlinks

\* A commit of a group changes only paths of that group: what somebody else has
\* staged (Foreign paths), or another group's files, never slips into it
\* (Writer.Commit's partial commit, over every sequence of failed runs).
StaysInGroup(history) ==
    \A i \in 2..Len(history) : history[i].group \in Groups =>
        \A f \in Files : history[i].tree[f] # history[i - 1].tree[f]
                            => GroupOf[f] = history[i].group
CommitsStayInGroup == StaysInGroup(remote) /\ \A b \in Branches : StaysInGroup(log[b])

\* No run commits to, or rolls back, a branch other than the configured one, at
\* whatever level and on whatever branch it was started (VerifyBranch).
OnlyTargetMoves == [][\A b \in Branches \ {Target} : log'[b] = log[b]]_log

\* A run that fails after it captured startSHA, and whose reset succeeds, leaves
\* HEAD where it found it, however far it had come (Service.Run's rollback).
FailedRunLeavesHead == pc = "failed" /\ start # <<>> => HeadLog = start

\* A run that ends well has committed every artifact it generated, and at level
\* push everything it committed is part of what the remote holds.
DonePublishesEverything ==
    pc = "done" /\ level # "none" =>
        /\ \A f \in Owned : worktree[f] = HeadTree[f]
        /\ level = "push" /\ HeadLog # start => IsPrefix(HeadLog, remote)

\* A push-level run that gets past the checks works on a checkout that is HEAD:
\* nothing is staged and no owned file is left over from an earlier failed run
\* (PrepareWorktree and VerifyCleanIndexForPush).
CleanSlateForPush ==
    pc = "update" /\ level = "push" =>
        /\ IsIndexClean
        /\ \A f \in Owned \ Gitlinks : worktree[f] = HeadTree[f]

\* A run commits its own work.  Whatever earlier runs, killed, failed or rolled back,
\* have left on disk or in the index, what a run adds to the HEAD it started from are
\* artifacts it has written itself: at level push in every group, at level commit in
\* the groups HEAD tracked (RestorePaths; what is staged of another group is kept and
\* taken along).  A submodule is committed with the checkout it has.
OnlyOwnWorkIsCommitted ==
    start # <<>> =>
        LET before == Last(start).tree
        IN \A f \in Owned \ Gitlinks :
              HeadTree[f] # before[f] /\ (level = "push" \/ GroupOf[f] \in TrackedIn(before))
                  => f \in written

\* The clean-index check refuses a run only because of content that is not the
\* pipeline's own: PrepareWorktree has put the owned paths back to HEAD
\* (service.go:56, 113-114).
RefusedOnlyForForeignContent ==
    pc = "failed" /\ cause = "refused" /\ head = Target
        => \E f \in Files \ Owned : index[f] # HeadTree[f]

\* Whatever made the run fail, HEAD is back at the start when it ends: Service.Run
\* rolls back "to the starting HEAD on failure" (service.go:134-135).
RollsBackOnFailure == pc \in {"failed", "rollbackFailed"} /\ start # <<>> => HeadLog = start

\* Every run comes to an end: done, failed, or killed.
RunEnds == pc # "idle" ~> pc = "idle"

\* What readers of the remote see changes atomically, from one complete set of
\* artifacts to the next.
Published == INSTANCE PublishedSnapshot WITH main <- remote, draft <- worktree
PublishedAtomically == Published!Spec
=============================================================================
