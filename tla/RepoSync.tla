------------------------------ MODULE RepoSync ------------------------------
(***************************************************************************)
(* gh repo sync: a branch of the clone is brought to its state in the base *)
(* repository, or a branch of the fork to its state in its parent, on      *)
(* GitHub.                                                                 *)
(***************************************************************************)
EXTENDS LocalClone

SyncStart ==
  \E with \in SUBSET {"force"}, b \in Branches :
    \/ Starts("sync_fetch", with, b) /\ UNCHANGED queue
    \/ Starts("sync_upstream_merge", with, b) /\ UNCHANGED queue

-----------------------------------------------------------------------------
(* Into the clone.                                                         *)

\* Slip: a fetch that fails is passed over.
SyncFetchOrNot ==
  /\ Step("sync_fetch", "sync_check")
  /\ (Fetch(branch) /\ seen' = server[branch]) \/ UNCHANGED <<seen, git>>
  /\ UNCHANGED <<facts, github>>

SyncFetch ==
  /\ Step("sync_fetch", "sync_check")
  /\ Fetch(branch)
  /\ seen' = server[branch]
  /\ UNCHANGED <<facts, github>>

\* Slip: --force is forgotten.
ComparedUnforced == IF HasLocalBranch(branch) THEN {"exists"} ELSE {}

\* What is known of the branch; "overwrite" is useForce.
Compared ==
  (IF HasLocalBranch(branch) THEN {"exists"} ELSE {})
    \cup (IF "force" \in flags /\ ~(HasLocalBranch(branch) /\ FastForwards(local[branch], fetchHead))
          THEN {"overwrite"} ELSE {})

\* Slip: only a branch that is checked out is protected.
DivergingCheckedOut == head = branch /\ ~FastForwards(local[branch], fetchHead) /\ "force" \notin flags

Diverging == HasLocalBranch(branch) /\ ~FastForwards(local[branch], fetchHead) /\ "force" \notin flags

SyncCheck ==
  /\ pc = "sync_check"
  /\ \/ ~Diverging /\ Step("sync_check", "sync_update") /\ facts' = Compared /\ UNCHANGED seen
     \/ Diverging /\ Ends("error")
  /\ UNCHANGED <<git, github>>

\* git update-ref, which moves a branch that is not checked out to anywhere.
UpdateBranch(b) ==
  /\ local' = [local EXCEPT ![b] = fetchHead]
  /\ UNCHANGED <<head, detachedAt, work, tracking, fetchHead, config>>

UpdateCurrent ==
  /\ head = branch /\ ~work
  /\ IF "overwrite" \in facts THEN ResetHard(fetchHead) ELSE MergeFastForward(fetchHead)

SyncUpdate ==
  /\ pc = "sync_update"
  /\ UpdateCurrent \/ (head # branch /\ "exists" \in facts /\ UpdateBranch(branch))
  /\ Ends("ok") /\ UNCHANGED github

CreateBranch ==
  /\ head # branch /\ "exists" \notin facts
  /\ Step("sync_update", "sync_set_upstream")
  /\ UpdateBranch(branch)
  /\ UNCHANGED <<facts, seen, github>>

\* git branch --set-upstream-to
SetUpstream ==
  /\ pc = "sync_set_upstream" /\ Ends("ok")
  /\ config' = [config EXCEPT ![branch] = @ \cup {"remote", "merge"}]
  /\ UNCHANGED <<local, head, detachedAt, work, tracking, fetchHead, github>>

-----------------------------------------------------------------------------
(* Into the fork, on GitHub.                                               *)

ForkGets(commits) ==
  /\ fork' = [fork EXCEPT ![branch] = commits]
  /\ pull' = IF pr.cross /\ pr.headRef = branch THEN Following(commits) ELSE pull
  /\ UNCHANGED <<server, pr, landed>>

\* The merge-upstream endpoint fast-forwards, or merges with a new commit.
TriggerUpstreamMerge ==
  /\ pc = "sync_upstream_merge" /\ server[branch] # NoBranch /\ fork[branch] # NoBranch
  /\ \/ FastForwards(fork[branch], server[branch]) /\ ForkGets(server[branch]) /\ UNCHANGED used
     \/ /\ ~FastForwards(fork[branch], server[branch]) /\ used < MaxCommits /\ used' = used + 1
        /\ ForkGets(fork[branch] \cup server[branch] \cup {NewCommit})
  /\ Ends("ok") /\ UNCHANGED git

\* It answers 409 or 422, of conflicts or for a reason of its own.
UpstreamMergeRefused ==
  /\ Step("sync_upstream_merge", "sync_latest_commit")
  /\ UNCHANGED <<git, github, facts, seen>>

LatestCommit ==
  /\ Step("sync_latest_commit", "sync_fork") /\ server[branch] # NoBranch
  /\ seen' = server[branch]
  /\ UNCHANGED <<git, github, facts>>

\* The references endpoint refuses what is no fast-forward, unless forced.
SyncFork ==
  /\ pc = "sync_fork" /\ fork[branch] # NoBranch
  /\ "force" \in flags \/ FastForwards(fork[branch], seen)
  /\ ForkGets(seen)
  /\ Ends("ok") /\ UNCHANGED <<git, used>>

RepoSync ==
  \/ SyncStart \/ SyncFetch \/ SyncCheck \/ SyncUpdate \/ CreateBranch \/ SetUpstream
  \/ TriggerUpstreamMerge \/ UpstreamMergeRefused \/ LatestCommit \/ SyncFork

=============================================================================
