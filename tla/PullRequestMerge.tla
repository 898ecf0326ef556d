-------------------------- MODULE PullRequestMerge --------------------------
(***************************************************************************)
(* gh pr merge: the pull request is merged, queued to be merged or set to  *)
(* merge by itself; then, if that was asked for, its branch is deleted in  *)
(* the clone and on GitHub.  "delete" of the facts is m.deleteBranch; it   *)
(* comes from the flag or from a survey.                                   *)
(***************************************************************************)
EXTENDS LocalClone

\* --auto, --disable-auto and --admin exclude one another.
MergeFlags ==
  {with \cup only : with \in SUBSET {"delete", "repo"}, only \in {{}, {"auto"}, {"disable_auto"}, {"admin"}}}

MergeStart ==
  \E with \in MergeFlags : Starts("merge_find", with, pr.headRef) /\ UNCHANGED queue

-----------------------------------------------------------------------------
(* What is known of the pull request when the command begins.              *)

Fact(name, holds) == IF holds THEN {name} ELSE {}

NewMergeContext ==
  Fact("merged", pr.merged) \cup Fact("auto", "auto" \in flags /\ pr.status # "clean")
    \cup Fact("exists", "repo" \notin flags /\ HasLocalBranch(pr.headRef))
    \cup Fact("delete", "delete" \in flags) \cup Fact("queue_required", pr.needsQueue)

Mergeable(known) ==
  IF "queue_required" \in known
  THEN "delete" \notin flags
  ELSE \/ {"auto", "merged"} \cap known # {}
       \/ pr.status = "clean"
       \/ (pr.status = "blocked" /\ "admin" \in flags)

MergeFind ==
  \/ /\ Step("merge_find", "merge")
     /\ ~pr.queued /\ "disable_auto" \notin flags /\ Mergeable(NewMergeContext)
     /\ facts' = NewMergeContext
     /\ UNCHANGED <<seen, git, github>>
  \/ /\ pc = "merge_find" /\ pr.queued
     /\ Ends("ok") /\ UNCHANGED <<git, github>>

DisableAuto ==
  /\ pc = "merge_find" /\ ~pr.queued /\ "disable_auto" \in flags /\ pr.auto
  /\ pr' = [pr EXCEPT !.auto = FALSE]
  /\ Ends("ok") /\ UNCHANGED <<git, server, fork, pull, landed, used>>

-----------------------------------------------------------------------------
(* The merge.                                                              *)

ShouldAddToMergeQueue == "queue_required" \in facts /\ "admin" \notin flags

PayloadAuto == "auto" \in facts \/ ShouldAddToMergeQueue

\* enablePullRequestAutoMerge: GitHub refuses it for what can be merged now,
\* unless there is a queue to add it to.
AutoMergeEnabled ==
  /\ ~pr.merged
  /\ \/ pr.status # "clean" /\ pr' = [pr EXCEPT !.auto = TRUE]
     \/ pr.status = "clean" /\ pr.needsQueue /\ pr' = [pr EXCEPT !.queued = TRUE]
  /\ UNCHANGED <<server, fork, pull, landed, used>>

\* mergePullRequest, with the rights of an administrator or without.
MergedNow ==
  /\ pr.status = "clean" \/ (pr.status = "blocked" /\ "admin" \in flags)
  /\ pr.needsQueue => "admin" \in flags
  /\ \E squash \in BOOLEAN : MergedInto(squash)

\* With no strategy given there is a survey, which asks about deletion too;
\* nothing is asked of what goes to the queue.
Surveyed ==
  IF ShouldAddToMergeQueue \/ "delete" \in flags THEN {{}} ELSE {{}, {"delete"}}

Merge ==
  /\ Step("merge", "merge_delete_local")
  /\ IF "merged" \in facts
     THEN UNCHANGED <<facts, github>>
     ELSE /\ IF PayloadAuto THEN AutoMergeEnabled ELSE MergedNow
          /\ \E surveyed \in Surveyed : facts' = facts \cup surveyed
  /\ UNCHANGED <<seen, git>>

\* The merge is done and its answer lost.
MergeNotAnswered ==
  /\ pc = "merge" /\ "merged" \notin facts
  /\ IF PayloadAuto THEN AutoMergeEnabled ELSE MergedNow
  /\ Ends("error") /\ UNCHANGED git

-----------------------------------------------------------------------------
(* Deletion.                                                               *)

\* For a pull request that had been merged before, the survey is here.
DeleteWanted == "delete" \in facts

AskDelete ==
  /\ Step("merge_delete_local", "merge_delete_local")
  /\ "auto" \notin facts /\ "merged" \in facts /\ "delete" \notin flags /\ ~DeleteWanted
  /\ facts' = facts \cup {"delete"}
  /\ UNCHANGED <<seen, git, github>>

\* Slip: what only waits to be merged is taken for merged.
LocalDeletionUnmerged == DeleteWanted /\ "repo" \notin flags /\ "exists" \in facts

LocalDeletion == "auto" \notin facts /\ DeleteWanted /\ "repo" \notin flags /\ "exists" \in facts

KeepLocal ==
  /\ ~LocalDeletion
  /\ Step("merge_delete_local", "merge_delete_remote")
  /\ UNCHANGED <<facts, seen, git, github>>

\* HEAD is on the branch to delete: the base branch is checked out and pulled.
SwitchToBase ==
  /\ LocalDeletion /\ head = pr.headRef
  /\ Step("merge_delete_local", "merge_pull")
  /\ CheckoutBranch(Base) \/ CheckoutNewBranch(Base, Base)
  /\ UNCHANGED <<facts, seen, github>>

\* git pull --ff-only, of which a failure is a warning.
PullBase ==
  /\ Step("merge_pull", "merge_delete_branch")
  /\ \/ /\ CanMergeFastForward(server[Base])
        /\ local' = [local EXCEPT ![Base] = @ \cup server[Base]]
        /\ fetchHead' = server[Base]
        /\ tracking' = [tracking EXCEPT ![Base] = server[Base]]
     \/ UNCHANGED <<local, fetchHead, tracking>>
  /\ UNCHANGED <<head, detachedAt, work, config, facts, seen, github>>

DeleteLocal ==
  /\ \/ Step("merge_delete_branch", "merge_delete_remote")
     \/ /\ LocalDeletion /\ head \notin {pr.headRef, "detached"}
        /\ Step("merge_delete_local", "merge_delete_remote")
  /\ DeleteLocalBranch(pr.headRef)
  /\ UNCHANGED <<facts, seen, github>>

RemoteDeletion == DeleteWanted /\ ~pr.cross /\ "auto" \notin facts /\ "merged" \notin facts

\* 422 and 404 are taken to say that the branch is gone already.
DeleteRemote ==
  /\ pc = "merge_delete_remote"
  /\ IF RemoteDeletion
     THEN server' = [server EXCEPT ![pr.headRef] = NoBranch] \/ UNCHANGED server
     ELSE UNCHANGED server
  /\ Ends("ok") /\ UNCHANGED <<git, fork, pr, pull, landed, used>>

PullRequestMerge ==
  \/ MergeStart \/ MergeFind \/ DisableAuto \/ Merge \/ MergeNotAnswered \/ AskDelete
  \/ KeepLocal \/ SwitchToBase \/ PullBase \/ DeleteLocal \/ DeleteRemote

=============================================================================
