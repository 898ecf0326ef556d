------------------------ MODULE PullRequestCheckout ------------------------
(***************************************************************************)
(* gh pr checkout: from what it reads before anything is fetched the       *)
(* command makes a queue of git commands, and runs them up to the first    *)
(* that fails.  The fork of a pull request is no remote of the clone.      *)
(***************************************************************************)
EXTENDS LocalClone

\* --branch, or the name of the pull request's branch; where that is the
\* name of the default branch the owner is put before it.
LocalName ==
  IF pr.cross /\ pr.headRef = Base THEN "owner/main" ELSE pr.headRef

\* Slip: the branch is checked out as it was before the fetch.
FetchLast(with, b) ==
  IF HasLocalBranch(b) THEN <<"checkout", "merge_tracking", "fetch">> ELSE <<"fetch", "checkout_branch">>

CmdsForExistingRemote(with, b) ==
  CASE "detach" \in with -> <<"fetch", "checkout_detach">>
    [] "detach" \notin with /\ HasLocalBranch(b) ->
         <<"fetch", "checkout", IF "force" \in with THEN "reset_tracking" ELSE "merge_tracking">>
    [] OTHER -> <<"fetch", "checkout_branch">>

\* Slip: the setting that says all is set is set first.
MergeConfigFirst(b) ==
  IF "merge" \in config[b] THEN <<>> ELSE <<"config_merge", "config_remote", "config_pushRemote">>

MergeConfig(b) ==
  IF "merge" \in config[b] THEN <<>> ELSE <<"config_remote", "config_pushRemote", "config_merge">>

CmdsForMissingRemote(with, b) ==
  IF "detach" \in with THEN <<"fetch_pull", "checkout_detach">>
  ELSE (IF head = b
        THEN <<"fetch_pull", IF "force" \in with THEN "reset_FETCH_HEAD" ELSE "merge_FETCH_HEAD">>
        ELSE <<"fetch_into_branch", "checkout">>) \o MergeConfig(b)

CheckoutStart ==
  \E with \in SUBSET {"force", "detach"}, b \in LocalBranches :
    /\ b \in {LocalName, "owner/main"}
    /\ Starts("checkout", with, b)
    /\ queue' = IF pr.cross THEN CmdsForMissingRemote(with, b) ELSE CmdsForExistingRemote(with, b)

-----------------------------------------------------------------------------
(* The git commands.                                                       *)

SetConfig(name) ==
  /\ config' = [config EXCEPT ![branch] = @ \cup {name}]
  /\ UNCHANGED <<local, head, detachedAt, work, tracking, fetchHead>>

\* git fetch of refs/pull/<number>/head, which is what FETCH_HEAD becomes.
FetchPull(localAfter) ==
  /\ fetchHead' = pull /\ local' = localAfter
  /\ UNCHANGED <<head, detachedAt, work, tracking, config>>

\* ... into a branch, which has to be fast-forwarded unless forced.
FetchIntoBranch ==
  /\ head # branch
  /\ "force" \in flags \/ FastForwards(local[branch], pull)
  /\ FetchPull([local EXCEPT ![branch] = pull])

FetchCommands == {"fetch", "fetch_pull", "fetch_into_branch"}

Fetches(cmd) ==
  \/ cmd = "fetch" /\ Fetch(pr.headRef) /\ seen' = server[pr.headRef]
  \/ cmd = "fetch_pull" /\ FetchPull(local) /\ seen' = pull
  \/ cmd = "fetch_into_branch" /\ FetchIntoBranch /\ seen' = pull

Git(cmd) ==
  \/ cmd = "checkout_detach" /\ CheckoutDetached
  \/ cmd = "checkout" /\ CheckoutBranch(branch)
  \/ cmd = "checkout_branch" /\ CheckoutNewBranch(branch, pr.headRef)
  \/ cmd = "reset_tracking" /\ ResetHard(tracking[pr.headRef])
  \/ cmd = "merge_tracking" /\ MergeFastForward(tracking[pr.headRef])
  \/ cmd = "reset_FETCH_HEAD" /\ ResetHard(fetchHead)
  \/ cmd = "merge_FETCH_HEAD" /\ MergeFastForward(fetchHead)
  \/ cmd = "config_remote" /\ SetConfig("remote")
  \/ cmd = "config_pushRemote" /\ SetConfig("pushRemote")
  \/ cmd = "config_merge" /\ SetConfig("merge")

ExecuteCmd ==
  /\ pc = "checkout" /\ queue # <<>>
  /\ Fetches(Head(queue)) \/ (Git(Head(queue)) /\ UNCHANGED seen)
  /\ queue' = Tail(queue)
  /\ UNCHANGED <<given, pc, flags, branch, facts, outcome, github>>

CheckedOut == pc = "checkout" /\ queue = <<>> /\ Ends("ok") /\ UNCHANGED <<git, github>>

PullRequestCheckout == CheckoutStart \/ ExecuteCmd \/ CheckedOut

=============================================================================
