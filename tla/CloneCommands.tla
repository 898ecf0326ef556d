---------------------------- MODULE CloneCommands ----------------------------
(***************************************************************************)
(* gh repo sync, gh pr merge and gh pr checkout, one after the other in a  *)
(* clone in which the user works, while others push and settle the pull    *)
(* request on GitHub.  Nobody but gh fetches while a command runs, which   *)
(* would move FETCH_HEAD.                                                  *)
(***************************************************************************)
EXTENDS RepoSync, PullRequestMerge, PullRequestCheckout

Gh == RepoSync \/ PullRequestMerge \/ PullRequestCheckout \/ Fails

Next == Gh \/ Push \/ Settle \/ Work

Spec == Init /\ [][Next]_vars

-----------------------------------------------------------------------------

\* A branch that is checked out exists; the clone has at most one of each
\* name; a merged pull request is neither queued nor waiting.
TypeOK ==
  /\ local \in [LocalBranches -> SUBSET Commits]
  /\ head \in {b \in LocalBranches : HasLocalBranch(b)} \cup {"detached"}
  /\ tracking \in [Branches -> SUBSET Commits] /\ fetchHead \subseteq Commits
  /\ config \in [LocalBranches -> SUBSET {"remote", "pushRemote", "merge"}]
  /\ server \in [Branches -> SUBSET Commits] /\ fork \in [Branches -> SUBSET Commits]
  /\ pr \in PullRequests /\ (pr.merged => ~pr.queued /\ ~pr.auto)
  /\ outcome \in {"none", "ok", "error"}

\* What the user has asked gh to give up: with --force what is in its way,
\* with the deletion of a merged pull request the branch of its name.
GivenUp ==
  IF "force" \in flags THEN Commits
  ELSE IF "delete" \in facts /\ pr.merged THEN local[pr.headRef] \cup HeadBranch
  ELSE {}

\* Whatever is interleaved with it, a step of gh takes no commit away from
\* the branches of the clone, the base repository and the fork, and no
\* uncommitted change, that the user has not asked it to give up.
NothingLostUnasked ==
  [][pc # "idle" => /\ Reachable \ Reachable' \subseteq GivenUp
                    /\ (work /\ ~work' => "force" \in flags)]_vars

\* A branch that is there goes away only after its pull request has been
\* merged: not while it waits in a queue or for its checks.
DeletedOnlyAfterMerge ==
  [][\A b \in Branches :
       (\/ local[b] # NoBranch /\ local'[b] = NoBranch
        \/ server[b] # NoBranch /\ server'[b] = NoBranch)
       => pr.merged /\ b = pr.headRef]_vars

\* gh repo sync uses "a fast forward update [...] except when the --force
\* flag is specified": what it has fetched is compared with the branch, also
\* with one that is not checked out, which git moves to anywhere.
FastForwardUnlessForced ==
  [][(pc = "sync_update" /\ "force" \notin flags) => FastForwards(local[branch], local'[branch])]_vars

\* After gh repo sync the branch of the clone is equal to what it was in the
\* base repository when it was fetched, as the documentation says.
SyncedIsEqual ==
  [][(pc \in {"sync_update", "sync_set_upstream"} /\ outcome' = "ok") => local'[branch] = seen]_vars

\* After gh pr checkout the user has at hand all that the pull request was
\* when it was fetched, on the branch that was asked for or detached, and
\* after --force nothing besides.
CheckedOutIsPullRequest ==
  [][pc = "checkout" /\ outcome' = "ok" =>
       /\ head = IF "detach" \in flags THEN "detached" ELSE branch
       /\ seen # NoBranch /\ seen \subseteq HeadCommits
       /\ ({"force", "detach"} \cap flags # {} => HeadCommits = seen)]_vars

\* A branch that knows what it is merged with knows its remote: gh pr
\* checkout sets "merge" last, and takes it for the sign that all is set.
MergeConfigComplete ==
  \A b \in LocalBranches : "merge" \in config[b] => "remote" \in config[b]

=============================================================================
