---------------------------- MODULE CloneProofs ----------------------------
(***************************************************************************)
(* The commands on a local clone, for any number of commits and commands.  *)
(* IInv is inductive: beside the types it says what each command knows at  *)
(* the point it has reached -- what gh repo sync has fetched and compared, *)
(* that gh pr merge deletes only what was merged, and which git commands a *)
(* queue built by gh pr checkout still holds, so that whatever they change *)
(* the clone ends on what was fetched.  One lemma per action shows that    *)
(* the action keeps every part; the theorems on what is lost follow from   *)
(* IInv and from what each action may remove.                              *)
(***************************************************************************)
EXTENDS CloneCommands, SequenceTheorems, TLAPS

SyncSteps == {"sync_fetch", "sync_check", "sync_update", "sync_set_upstream",
              "sync_upstream_merge", "sync_latest_commit", "sync_fork"}

MergeSteps == {"merge_find", "merge", "merge_delete_local", "merge_pull",
               "merge_delete_branch", "merge_delete_remote"}

CloneTypes ==
  /\ local \in [LocalBranches -> SUBSET Commits]
  /\ head \in LocalBranches \cup {"detached"} /\ detachedAt \subseteq Commits
  /\ tracking \in [Branches -> SUBSET Commits] /\ fetchHead \subseteq Commits
  /\ config \in [LocalBranches -> SUBSET {"remote", "pushRemote", "merge"}]

GitHubTypes ==
  /\ server \in [Branches -> SUBSET Commits] /\ fork \in [Branches -> SUBSET Commits]
  /\ pull \in (SUBSET Commits) \ {NoBranch} /\ landed \subseteq Commits
  /\ used \in 1 .. MaxCommits
  /\ pr \in PullRequests /\ (pr.merged => ~pr.queued /\ ~pr.auto)
  /\ pr.headRef = Base => pr.cross

CommandTypes ==
  /\ pc \in SyncSteps \cup MergeSteps \cup {"idle", "checkout"}
  /\ branch \in LocalBranches /\ (pc \in SyncSteps => branch \in Branches)
  /\ seen \subseteq Commits
  /\ outcome \in {"none", "ok", "error"} /\ (pc # "idle" => outcome = "none")

\* HEAD is on a branch that exists.
HeadInv == head # "detached" => local[head] # NoBranch

\* refs/pull follows the branch of the pull request until it is merged.
PullInv == ~pr.merged => pull = HeadBranch

\* What gh repo sync has fetched, and how the branch compares with it.
SyncInv ==
  /\ pc \in {"sync_check", "sync_update"} => fetchHead = seen
  /\ pc \in {"sync_check", "sync_update", "sync_fork"} => seen # NoBranch
  /\ pc = "sync_update" =>
       /\ "exists" \in facts <=> HasLocalBranch(branch)
       /\ "overwrite" \in facts => "force" \in flags
       /\ "overwrite" \notin facts => FastForwards(local[branch], seen)
  /\ pc = "sync_set_upstream" => local[branch] = seen

\* What is to be deleted has been merged, unless it merely waits to be.
MergeInv ==
  /\ pc = "merge" =>
       /\ "merged" \in facts => pr.merged
       /\ "delete" \in facts => "delete" \in flags /\ "queue_required" \notin facts
  /\ pc \in {"merge_delete_local", "merge_delete_remote"} /\ "auto" \notin facts /\ "delete" \in facts
       => pr.merged
  /\ pc = "merge_delete_local" /\ "merged" \in facts => pr.merged
  /\ pc \in {"merge_pull", "merge_delete_branch"} => pr.merged /\ "delete" \in facts

Fetched == seen # NoBranch /\ fetchHead = seen

Tracked == seen # NoBranch /\ tracking[pr.headRef] = seen

\* The branch that was asked for is checked out, with what was fetched.
AtHand ==
  /\ head = IF "detach" \in flags THEN "detached" ELSE branch
  /\ seen # NoBranch /\ seen \subseteq HeadCommits
  /\ {"force", "detach"} \cap flags # {} => HeadCommits = seen

Configuration == {<<>>, <<"config_remote", "config_pushRemote", "config_merge">>}

\* The queues that gh pr checkout may have left, and what is true by then.
QueueInv == pc = "checkout" =>
  \/ /\ "detach" \in flags
     /\ \/ queue \in {<<"fetch", "checkout_detach">>, <<"fetch_pull", "checkout_detach">>}
        \/ queue = <<"checkout_detach">> /\ Fetched
  \/ /\ "detach" \notin flags
     /\ \E last \in {"reset_tracking", "merge_tracking"} :
          /\ last = "reset_tracking" <=> "force" \in flags
          /\ \/ queue = <<"fetch", "checkout", last>>
             \/ queue = <<"checkout", last>> /\ Tracked
             \/ queue = <<last>> /\ Tracked /\ head = branch
  \/ /\ "detach" \notin flags
     /\ \/ queue = <<"fetch", "checkout_branch">>
        \/ queue = <<"checkout_branch">> /\ Tracked
  \/ /\ "detach" \notin flags
     /\ \E last \in {"reset_FETCH_HEAD", "merge_FETCH_HEAD"}, rest \in Configuration :
          /\ last = "reset_FETCH_HEAD" <=> "force" \in flags
          /\ head = branch
          /\ \/ queue = <<"fetch_pull", last>> \o rest
             \/ queue = <<last>> \o rest /\ Fetched
  \/ /\ "detach" \notin flags
     /\ \E rest \in Configuration :
          \/ queue = <<"fetch_into_branch", "checkout">> \o rest
          \/ queue = <<"checkout">> \o rest /\ seen # NoBranch /\ local[branch] = seen
  \/ /\ AtHand
     /\ \/ queue \in Configuration
        \/ /\ queue \in {<<"config_pushRemote", "config_merge">>, <<"config_merge">>}
           /\ "remote" \in config[branch]

IInv ==
  /\ CloneTypes /\ GitHubTypes /\ CommandTypes /\ HeadInv /\ PullInv
  /\ SyncInv /\ MergeInv /\ QueueInv /\ MergeConfigComplete

LEMMA PullRequestTypes ==
  ASSUME IInv
  PROVE  /\ pr.headRef \in Branches /\ Branches \subseteq LocalBranches /\ Base \in Branches
         /\ pr.cross \in BOOLEAN /\ pr.merged \in BOOLEAN
  BY DEF IInv, GitHubTypes, PullRequests, Branches, LocalBranches, Base

LEMMA NewCommitFits ==
  ASSUME IInv, used < MaxCommits
  PROVE  NewCommit \in Commits /\ used + 1 \in 1 .. MaxCommits
  BY CloneAssumption DEF IInv, GitHubTypes, NewCommit, Commits

\* The pull request is merged.
LEMMA MergedIntoKeeps ==
  ASSUME IInv, NEW squash \in BOOLEAN, MergedInto(squash)
  PROVE  /\ GitHubTypes' /\ PullInv'
         /\ pr'.merged /\ pr'.headRef = pr.headRef /\ pr'.cross = pr.cross
<1>1. pr' = [pr EXCEPT !.merged = TRUE, !.queued = FALSE, !.auto = FALSE]
  BY DEF MergedInto
<1>2. /\ pr' \in PullRequests /\ pr'.merged /\ ~pr'.queued /\ ~pr'.auto
      /\ pr'.headRef = pr.headRef /\ pr'.cross = pr.cross
  BY <1>1 DEF IInv, GitHubTypes, PullRequests
<1>3. server' \in [Branches -> SUBSET Commits]
  BY NewCommitFits, PullRequestTypes DEF MergedInto, IInv, GitHubTypes
<1>4. fork' \in [Branches -> SUBSET Commits] /\ pull' \in (SUBSET Commits) \ {NoBranch} /\ landed' \subseteq Commits
  BY DEF MergedInto, IInv, GitHubTypes
<1>5. used' \in 1 .. MaxCommits
  BY NewCommitFits DEF MergedInto
<1>6. GitHubTypes'
  BY <1>2, <1>3, <1>4, <1>5 DEF IInv, GitHubTypes
<1> QED BY <1>2, <1>6 DEF PullInv

\* The pull request waits to be merged.
LEMMA AutoMergeEnabledKeeps ==
  ASSUME IInv, AutoMergeEnabled
  PROVE  /\ GitHubTypes' /\ PullInv'
         /\ pr'.merged = pr.merged /\ pr'.headRef = pr.headRef /\ pr'.cross = pr.cross
<1>1. /\ pr' = [pr EXCEPT !.auto = TRUE] \/ pr' = [pr EXCEPT !.queued = TRUE]
      /\ ~pr.merged /\ UNCHANGED <<server, fork, pull, landed, used>>
  BY DEF AutoMergeEnabled
<1>2. /\ pr' \in PullRequests
      /\ pr'.merged = pr.merged /\ pr'.headRef = pr.headRef /\ pr'.cross = pr.cross
  BY <1>1 DEF IInv, GitHubTypes, PullRequests
<1>3. GitHubTypes'
  BY <1>1, <1>2 DEF IInv, GitHubTypes
<1>4. PullInv'
  BY <1>1, <1>2 DEF IInv, PullInv, HeadBranch
<1> QED BY <1>2, <1>3, <1>4

LEMMA FollowingTypes ==
  ASSUME IInv, NEW commits \in (SUBSET Commits) \ {NoBranch}
  PROVE  Following(commits) \in (SUBSET Commits) \ {NoBranch}
  BY DEF Following, IInv, GitHubTypes

LEMMA ForkGetsKeeps ==
  ASSUME IInv, NEW commits \in (SUBSET Commits) \ {NoBranch}, ForkGets(commits), branch \in Branches,
         used' \in 1 .. MaxCommits
  PROVE  GitHubTypes' /\ PullInv'
<1>1. fork' = [fork EXCEPT ![branch] = commits] /\ UNCHANGED <<server, pr, landed>>
  BY DEF ForkGets
<1>2. pull' = IF pr.cross /\ pr.headRef = branch THEN Following(commits) ELSE pull
  BY DEF ForkGets
<1>3. pull' \in (SUBSET Commits) \ {NoBranch}
  BY <1>2, FollowingTypes DEF IInv, GitHubTypes
<1>4. GitHubTypes'
  BY <1>1, <1>3 DEF IInv, GitHubTypes
<1>5. PullInv'
  BY <1>1, <1>2, PullRequestTypes DEF IInv, GitHubTypes, PullInv, HeadBranch, Following
<1> QED BY <1>4, <1>5

-----------------------------------------------------------------------------
(* The first of a queue of git commands, and the rest.                     *)

LEMMA PairIsConcat ==
  ASSUME NEW S, NEW a \in S, NEW b \in S
  PROVE  <<a>> \o <<b>> = <<a, b>>
<1> DEFINE s == <<a>>
           t == <<b>>
           u == <<a, b>>
<1>1. s \in Seq(S) /\ t \in Seq(S) /\ u \in Seq(S)
  OBVIOUS
<1>2. Len(s) = 1 /\ Len(t) = 1 /\ Len(u) = 2 /\ s[1] = a /\ t[1] = b /\ u[1] = a /\ u[2] = b
  OBVIOUS
<1> HIDE DEF s, t, u
<1>3. /\ s \o t \in Seq(S) /\ Len(s \o t) = Len(s) + Len(t)
      /\ \A i \in 1 .. Len(s) + Len(t) : (s \o t)[i] = IF i <= Len(s) THEN s[i] ELSE t[i - Len(s)]
  BY <1>1, ConcatProperties, Zenon
<1>4. \A i \in 1 .. 2 : (s \o t)[i] = u[i]
  BY <1>2, <1>3
<1>5. Len(s \o t) = Len(u)
  BY <1>2, <1>3
<1>6. \A i \in 1 .. Len(s \o t) : (s \o t)[i] = u[i]
  BY <1>2, <1>4, <1>5
<1>7. s \o t = u
  BY <1>1, <1>3, <1>5, <1>6, SeqEqual, Zenon
<1> QED BY <1>7 DEF s, t, u

LEMMA FirstOfOne ==
  ASSUME NEW S, NEW a \in S, NEW rest \in Seq(S), NEW q, q = <<a>> \o rest
  PROVE  Head(q) = a /\ Tail(q) = rest
  OBVIOUS

LEMMA FirstOfTwo ==
  ASSUME NEW S, NEW a \in S, NEW b \in S, NEW rest \in Seq(S), NEW q, q = <<a, b>> \o rest
  PROVE  Head(q) = a /\ Tail(q) = <<b>> \o rest
<1>1. <<a>> \in Seq(S) /\ <<b>> \in Seq(S) /\ <<b>> \o rest \in Seq(S)
  OBVIOUS
<1>2. (<<a>> \o <<b>>) \o rest = <<a>> \o (<<b>> \o rest)
  BY <1>1, ConcatAssociative, SMTT(30)
<1>3. <<a>> \o <<b>> = <<a, b>>
  BY PairIsConcat
<1>4. q = <<a>> \o (<<b>> \o rest)
  BY <1>2, <1>3, Zenon
<1> QED BY <1>1, <1>4, FirstOfOne

LEMMA TripleIsSeq ==
  ASSUME NEW S, NEW a \in S, NEW b \in S, NEW c \in S
  PROVE  <<a, b, c>> \in Seq(S)
  OBVIOUS

GitCommands ==
  {"fetch", "fetch_pull", "fetch_into_branch", "checkout_detach", "checkout", "checkout_branch",
   "reset_tracking", "merge_tracking", "reset_FETCH_HEAD", "merge_FETCH_HEAD",
   "config_remote", "config_pushRemote", "config_merge"}

LEMMA ConfigurationIsSeq == Configuration \subseteq Seq(GitCommands)
<1>1. <<>> \in Seq(GitCommands)
  OBVIOUS
<1>2. <<"config_remote", "config_pushRemote", "config_merge">> \in Seq(GitCommands)
  BY TripleIsSeq DEF GitCommands
<1> QED BY <1>1, <1>2 DEF Configuration

\* A queue that is not empty, by its first command.
FirstCommand(cmd, rest) ==
  \/ /\ "detach" \in flags
     /\ \/ cmd \in {"fetch", "fetch_pull"} /\ rest = <<"checkout_detach">>
        \/ cmd = "checkout_detach" /\ rest = <<>> /\ Fetched
  \/ /\ "detach" \notin flags
     /\ \E last \in {"reset_tracking", "merge_tracking"} :
          /\ last = "reset_tracking" <=> "force" \in flags
          /\ \/ cmd = "fetch" /\ rest = <<"checkout", last>>
             \/ cmd = "checkout" /\ rest = <<last>> /\ Tracked
             \/ cmd = last /\ rest = <<>> /\ Tracked /\ head = branch
  \/ /\ "detach" \notin flags
     /\ \/ cmd = "fetch" /\ rest = <<"checkout_branch">>
        \/ cmd = "checkout_branch" /\ rest = <<>> /\ Tracked
  \/ /\ "detach" \notin flags
     /\ \E last \in {"reset_FETCH_HEAD", "merge_FETCH_HEAD"}, settings \in Configuration :
          /\ last = "reset_FETCH_HEAD" <=> "force" \in flags
          /\ head = branch
          /\ \/ cmd = "fetch_pull" /\ rest = <<last>> \o settings
             \/ cmd = last /\ rest = settings /\ Fetched
  \/ /\ "detach" \notin flags
     /\ \E settings \in Configuration :
          \/ cmd = "fetch_into_branch" /\ rest = <<"checkout">> \o settings
          \/ cmd = "checkout" /\ rest = settings /\ seen # NoBranch /\ local[branch] = seen
  \/ /\ AtHand
     /\ \/ cmd = "config_remote" /\ rest = <<"config_pushRemote", "config_merge">>
        \/ /\ "remote" \in config[branch]
           /\ \/ cmd = "config_pushRemote" /\ rest = <<"config_merge">>
              \/ cmd = "config_merge" /\ rest = <<>>

LEMMA QueueBegins ==
  ASSUME QueueInv, pc = "checkout", queue # <<>>
  PROVE  FirstCommand(Head(queue), Tail(queue))
<1>1. CASE /\ "detach" \in flags
           /\ \/ queue \in {<<"fetch", "checkout_detach">>, <<"fetch_pull", "checkout_detach">>}
              \/ queue = <<"checkout_detach">> /\ Fetched
  <2>1. CASE queue = <<"fetch", "checkout_detach">>
    <3>1. Head(queue) = "fetch" /\ Tail(queue) = <<"checkout_detach">>
      BY <2>1
    <3> QED BY <1>1, <2>1, <3>1, Zenon DEF FirstCommand
  <2>2. CASE queue = <<"fetch_pull", "checkout_detach">>
    <3>1. Head(queue) = "fetch_pull" /\ Tail(queue) = <<"checkout_detach">>
      BY <2>2
    <3> QED BY <1>1, <2>2, <3>1, Zenon DEF FirstCommand
  <2>3. CASE queue = <<"checkout_detach">> /\ Fetched
    <3>1. Head(queue) = "checkout_detach" /\ Tail(queue) = <<>>
      BY <2>3
    <3> QED BY <1>1, <2>3, <3>1, Zenon DEF FirstCommand
  <2> QED BY <1>1, <2>1, <2>2, <2>3
<1>2. CASE /\ "detach" \notin flags
           /\ \E last \in {"reset_tracking", "merge_tracking"} :
                /\ last = "reset_tracking" <=> "force" \in flags
                /\ \/ queue = <<"fetch", "checkout", last>>
                   \/ queue = <<"checkout", last>> /\ Tracked
                   \/ queue = <<last>> /\ Tracked /\ head = branch
  <2>1. PICK last \in {"reset_tracking", "merge_tracking"} :
          /\ last = "reset_tracking" <=> "force" \in flags
          /\ \/ queue = <<"fetch", "checkout", last>>
             \/ queue = <<"checkout", last>> /\ Tracked
             \/ queue = <<last>> /\ Tracked /\ head = branch
    BY <1>2
  <2>2. CASE queue = <<"fetch", "checkout", last>>
    <3>1. Head(queue) = "fetch" /\ Tail(queue) = <<"checkout", last>>
      BY <2>2
    <3> QED BY <1>2, <2>1, <2>2, <3>1, Zenon DEF FirstCommand
  <2>3. CASE queue = <<"checkout", last>> /\ Tracked
    <3>1. Head(queue) = "checkout" /\ Tail(queue) = <<last>>
      BY <2>3
    <3> QED BY <1>2, <2>1, <2>3, <3>1, Zenon DEF FirstCommand
  <2>4. CASE queue = <<last>> /\ Tracked /\ head = branch
    <3>1. Head(queue) = last /\ Tail(queue) = <<>>
      BY <2>4
    <3> QED BY <1>2, <2>1, <2>4, <3>1, Zenon DEF FirstCommand
  <2> QED BY <2>1, <2>2, <2>3, <2>4
<1>3. CASE /\ "detach" \notin flags
           /\ \/ queue = <<"fetch", "checkout_branch">>
              \/ queue = <<"checkout_branch">> /\ Tracked
  <2>1. CASE queue = <<"fetch", "checkout_branch">>
    <3>1. Head(queue) = "fetch" /\ Tail(queue) = <<"checkout_branch">>
      BY <2>1
    <3> QED BY <1>3, <2>1, <3>1, Zenon DEF FirstCommand
  <2>2. CASE queue = <<"checkout_branch">> /\ Tracked
    <3>1. Head(queue) = "checkout_branch" /\ Tail(queue) = <<>>
      BY <2>2
    <3> QED BY <1>3, <2>2, <3>1, Zenon DEF FirstCommand
  <2> QED BY <1>3, <2>1, <2>2
<1>4. CASE /\ "detach" \notin flags
           /\ \E last \in {"reset_FETCH_HEAD", "merge_FETCH_HEAD"}, rest \in Configuration :
                /\ last = "reset_FETCH_HEAD" <=> "force" \in flags
                /\ head = branch
                /\ \/ queue = <<"fetch_pull", last>> \o rest
                   \/ queue = <<last>> \o rest /\ Fetched
  <2>1. PICK last \in {"reset_FETCH_HEAD", "merge_FETCH_HEAD"}, rest \in Configuration :
                /\ last = "reset_FETCH_HEAD" <=> "force" \in flags
                /\ head = branch
                /\ \/ queue = <<"fetch_pull", last>> \o rest
                   \/ queue = <<last>> \o rest /\ Fetched
    BY <1>4
  <2>2. last \in GitCommands /\ "fetch_pull" \in GitCommands /\ rest \in Seq(GitCommands)
    BY ConfigurationIsSeq DEF GitCommands
  <2>3. CASE queue = <<"fetch_pull", last>> \o rest
    <3>1. Head(queue) = "fetch_pull" /\ Tail(queue) = <<last>> \o rest
      BY <2>2, <2>3, FirstOfTwo
    <3> QED BY <1>4, <2>1, <3>1 DEF FirstCommand
  <2>4. CASE queue = <<last>> \o rest /\ Fetched
    <3>1. Head(queue) = last /\ Tail(queue) = rest
      BY <2>2, <2>4, FirstOfOne
    <3> QED BY <1>4, <2>1, <2>4, <3>1 DEF FirstCommand
  <2> QED BY <2>1, <2>3, <2>4
<1>5. CASE /\ "detach" \notin flags
           /\ \E rest \in Configuration :
                \/ queue = <<"fetch_into_branch", "checkout">> \o rest
                \/ queue = <<"checkout">> \o rest /\ seen # NoBranch /\ local[branch] = seen
  <2>1. PICK rest \in Configuration :
                \/ queue = <<"fetch_into_branch", "checkout">> \o rest
                \/ queue = <<"checkout">> \o rest /\ seen # NoBranch /\ local[branch] = seen
    BY <1>5
  <2>2. "fetch_into_branch" \in GitCommands /\ "checkout" \in GitCommands /\ rest \in Seq(GitCommands)
    BY ConfigurationIsSeq DEF GitCommands
  <2>3. CASE queue = <<"fetch_into_branch", "checkout">> \o rest
    <3>1. Head(queue) = "fetch_into_branch" /\ Tail(queue) = <<"checkout">> \o rest
      BY <2>2, <2>3, FirstOfTwo
    <3> QED BY <1>5, <3>1 DEF FirstCommand
  <2>4. CASE queue = <<"checkout">> \o rest /\ seen # NoBranch /\ local[branch] = seen
    <3>1. Head(queue) = "checkout" /\ Tail(queue) = rest
      BY <2>2, <2>4, FirstOfOne
    <3> QED BY <1>5, <2>4, <3>1 DEF FirstCommand
  <2> QED BY <2>1, <2>3, <2>4
<1>6. CASE /\ AtHand
           /\ \/ queue \in Configuration
              \/ /\ queue \in {<<"config_pushRemote", "config_merge">>, <<"config_merge">>}
                 /\ "remote" \in config[branch]
  <2>1. CASE queue = <<"config_remote", "config_pushRemote", "config_merge">>
    <3>1. Head(queue) = "config_remote" /\ Tail(queue) = <<"config_pushRemote", "config_merge">>
      BY <2>1
    <3> QED BY <1>6, <2>1, <3>1, Zenon DEF FirstCommand
  <2>2. CASE queue = <<"config_pushRemote", "config_merge">> /\ "remote" \in config[branch]
    <3>1. Head(queue) = "config_pushRemote" /\ Tail(queue) = <<"config_merge">>
      BY <2>2
    <3> QED BY <1>6, <2>2, <3>1, Zenon DEF FirstCommand
  <2>3. CASE queue = <<"config_merge">> /\ "remote" \in config[branch]
    <3>1. Head(queue) = "config_merge" /\ Tail(queue) = <<>>
      BY <2>3
    <3> QED BY <1>6, <2>3, <3>1, Zenon DEF FirstCommand
  <2> QED BY <1>6, <2>1, <2>2, <2>3 DEF Configuration
<1> QED BY <1>1, <1>2, <1>3, <1>4, <1>5, <1>6 DEF QueueInv

\* What a git command finds, and the last setting.
LEMMA CommandFinds ==
  ASSUME NEW cmd, NEW rest, FirstCommand(cmd, rest)
  PROVE  /\ cmd \in {"reset_tracking", "merge_tracking"} => Tracked
         /\ cmd \in {"reset_FETCH_HEAD", "merge_FETCH_HEAD"} => Fetched
         /\ cmd = "config_merge" => "remote" \in config[branch]
  BY DEF FirstCommand

LEMMA ExecuteCmdKeeps ==
  ASSUME IInv, ExecuteCmd
  PROVE  IInv'
<1> DEFINE cmd  == Head(queue)
           rest == Tail(queue)
<1>1. /\ pc = "checkout" /\ FirstCommand(cmd, rest) /\ queue' = rest
      /\ Fetches(cmd) \/ (Git(cmd) /\ UNCHANGED seen)
      /\ UNCHANGED <<pc, flags, branch, facts, outcome, github>>
  BY QueueBegins DEF ExecuteCmd, IInv
<1>2. /\ cmd \in {"reset_tracking", "merge_tracking"} => Tracked
      /\ cmd \in {"reset_FETCH_HEAD", "merge_FETCH_HEAD"} => Fetched
      /\ cmd = "config_merge" => "remote" \in config[branch]
  BY <1>1, CommandFinds
<1> HIDE DEF cmd, rest
<1>3. /\ local \in [LocalBranches -> SUBSET Commits] /\ head \in LocalBranches \cup {"detached"}
      /\ tracking \in [Branches -> SUBSET Commits] /\ fetchHead \subseteq Commits
      /\ config \in [LocalBranches -> SUBSET {"remote", "pushRemote", "merge"}]
      /\ server \in [Branches -> SUBSET Commits] /\ pull \in (SUBSET Commits) \ {NoBranch}
      /\ pr.headRef \in Branches /\ Branches \subseteq LocalBranches /\ branch \in LocalBranches
  BY PullRequestTypes DEF IInv, CloneTypes, GitHubTypes, CommandTypes
<1>4. CloneTypes'
  <2>1. CASE Fetches(cmd)
    BY <1>3, <2>1 DEF Fetches, Fetch, FetchPull, FetchIntoBranch, IInv, CloneTypes
  <2>2. CASE cmd \in {"checkout_detach", "checkout", "checkout_branch"} /\ Git(cmd)
    BY <1>3, <2>2 DEF Git, CheckoutDetached, CheckoutBranch, CheckoutNewBranch, IInv, CloneTypes
  <2>3. CASE cmd \in {"reset_tracking", "reset_FETCH_HEAD"} /\ Git(cmd)
    BY <1>3, <2>3 DEF Git, ResetHard, MoveHead, IInv, CloneTypes
  <2>4. CASE cmd \in {"merge_tracking", "merge_FETCH_HEAD"} /\ Git(cmd)
    BY <1>3, <2>4 DEF Git, MergeFastForward, MoveHead, IInv, CloneTypes
  <2>5. CASE cmd \in {"config_remote", "config_pushRemote", "config_merge"} /\ Git(cmd)
    BY <1>3, <2>5 DEF Git, SetConfig, IInv, CloneTypes
  <2> QED BY <1>1, <2>1, <2>2, <2>3, <2>4, <2>5 DEF Git
<1>5. GitHubTypes' /\ PullInv'
  BY <1>1 DEF github, IInv, GitHubTypes, PullInv, HeadBranch
<1>6. CommandTypes'
  BY <1>1, <1>3 DEF Fetches, IInv, CommandTypes
<1>7. HeadInv'
  <2>1. CASE Fetches(cmd)
    BY <1>3, <2>1 DEF Fetches, Fetch, FetchPull, FetchIntoBranch, IInv, HeadInv
  <2>2. CASE cmd \in {"checkout_detach", "checkout", "checkout_branch"} /\ Git(cmd)
    BY <1>3, <2>2 DEF Git, CheckoutDetached, CheckoutBranch, CheckoutNewBranch, HasLocalBranch, IInv, HeadInv
  <2>3. CASE cmd \in {"reset_tracking", "reset_FETCH_HEAD"} /\ Git(cmd)
    BY <1>2, <1>3, <2>3 DEF Git, ResetHard, MoveHead, Tracked, Fetched, IInv, HeadInv
  <2>4. CASE cmd \in {"merge_tracking", "merge_FETCH_HEAD"} /\ Git(cmd)
    BY <1>2, <1>3, <2>4 DEF Git, MergeFastForward, MoveHead, Tracked, Fetched, IInv, HeadInv
  <2>5. CASE cmd \in {"config_remote", "config_pushRemote", "config_merge"} /\ Git(cmd)
    BY <2>5 DEF Git, SetConfig, IInv, HeadInv
  <2> QED BY <1>1, <2>1, <2>2, <2>3, <2>4, <2>5 DEF Git
<1>8. SyncInv' /\ MergeInv'
  BY <1>1 DEF SyncInv, MergeInv
<1>9. MergeConfigComplete'
  <2>1. CASE UNCHANGED config
    BY <2>1 DEF IInv, MergeConfigComplete
  <2>2. CASE CheckoutNewBranch(branch, pr.headRef)
    BY <1>3, <2>2 DEF CheckoutNewBranch, IInv, MergeConfigComplete
  <2>3. CASE cmd \in {"config_remote", "config_pushRemote", "config_merge"} /\ Git(cmd)
    BY <1>2, <1>3, <2>3 DEF Git, SetConfig, IInv, MergeConfigComplete
  <2> QED
    BY <1>1, <2>1, <2>2, <2>3
    DEF Fetches, Fetch, FetchPull, FetchIntoBranch, Git, CheckoutDetached, CheckoutBranch,
        ResetHard, MergeFastForward
<1>10. QueueInv'
  <2>1. CASE /\ "detach" \in flags
             /\ \/ cmd \in {"fetch", "fetch_pull"} /\ rest = <<"checkout_detach">>
                \/ cmd = "checkout_detach" /\ rest = <<>> /\ Fetched
    <3>1. CASE cmd = "fetch" /\ rest = <<"checkout_detach">>
      BY <1>1, <2>1, <3>1 DEF Fetches, Git, Fetch, QueueInv, Fetched, NoBranch
    <3>2. CASE cmd = "fetch_pull" /\ rest = <<"checkout_detach">>
      BY <1>1, <1>3, <2>1, <3>2 DEF Fetches, Git, FetchPull, QueueInv, Fetched, NoBranch
    <3>3. CASE cmd = "checkout_detach" /\ rest = <<>> /\ Fetched
      BY <1>1, <2>1, <3>3 DEF Fetches, Git, CheckoutDetached, QueueInv, Fetched, AtHand, HeadCommits, Configuration
    <3> QED BY <2>1, <3>1, <3>2, <3>3
  <2>2. CASE /\ "detach" \notin flags
             /\ \E last \in {"reset_tracking", "merge_tracking"} :
                  /\ last = "reset_tracking" <=> "force" \in flags
                  /\ \/ cmd = "fetch" /\ rest = <<"checkout", last>>
                     \/ cmd = "checkout" /\ rest = <<last>> /\ Tracked
                     \/ cmd = last /\ rest = <<>> /\ Tracked /\ head = branch
    <3>1. PICK last \in {"reset_tracking", "merge_tracking"} :
                  /\ last = "reset_tracking" <=> "force" \in flags
                  /\ \/ cmd = "fetch" /\ rest = <<"checkout", last>>
                     \/ cmd = "checkout" /\ rest = <<last>> /\ Tracked
                     \/ cmd = last /\ rest = <<>> /\ Tracked /\ head = branch
      BY <2>2
    <3>2. CASE cmd = "fetch" /\ rest = <<"checkout", last>>
      <4>1. Tracked'
        BY <1>1, <1>3, <3>2 DEF Fetches, Git, Fetch, Tracked, github
      <4> QED BY <1>1, <2>2, <3>1, <3>2, <4>1 DEF QueueInv
    <3>3. CASE cmd = "checkout" /\ rest = <<last>> /\ Tracked
      <4>1. Tracked' /\ head' = branch'
        BY <1>1, <3>3 DEF Fetches, Git, CheckoutBranch, Tracked, github
      <4> QED BY <1>1, <2>2, <3>1, <3>3, <4>1 DEF QueueInv
    <3>4. CASE cmd = last /\ rest = <<>> /\ Tracked /\ head = branch
      <4>1. CASE last = "reset_tracking"
        BY <1>1, <1>3, <2>2, <3>1, <3>4, <4>1
        DEF Fetches, Git, ResetHard, MoveHead, Tracked, QueueInv, AtHand, HeadCommits, Configuration
      <4>2. CASE last = "merge_tracking"
        BY <1>1, <1>3, <2>2, <3>1, <3>4, <4>2
        DEF Fetches, Git, MergeFastForward, FastForwards, MoveHead, Tracked, QueueInv, AtHand, HeadCommits, Configuration
      <4> QED BY <4>1, <4>2
    <3> QED BY <3>1, <3>2, <3>3, <3>4
  <2>3. CASE /\ "detach" \notin flags
             /\ \/ cmd = "fetch" /\ rest = <<"checkout_branch">>
                \/ cmd = "checkout_branch" /\ rest = <<>> /\ Tracked
    <3>1. CASE cmd = "fetch" /\ rest = <<"checkout_branch">>
      <4>1. Tracked'
        BY <1>1, <1>3, <3>1 DEF Fetches, Git, Fetch, Tracked, github
      <4> QED BY <1>1, <2>3, <3>1, <4>1 DEF QueueInv
    <3>2. CASE cmd = "checkout_branch" /\ rest = <<>> /\ Tracked
      <4>1. AtHand'
        BY <1>1, <1>3, <2>3, <3>2
        DEF Fetches, Git, CheckoutNewBranch, Tracked, AtHand, HeadCommits, LocalBranches, Branches
      <4> QED BY <1>1, <3>2, <4>1 DEF QueueInv, Configuration
    <3> QED BY <2>3, <3>1, <3>2
  <2>4. CASE /\ "detach" \notin flags
             /\ \E last \in {"reset_FETCH_HEAD", "merge_FETCH_HEAD"}, settings \in Configuration :
                  /\ last = "reset_FETCH_HEAD" <=> "force" \in flags
                  /\ head = branch
                  /\ \/ cmd = "fetch_pull" /\ rest = <<last>> \o settings
                     \/ cmd = last /\ rest = settings /\ Fetched
    <3>1. PICK last \in {"reset_FETCH_HEAD", "merge_FETCH_HEAD"}, settings \in Configuration :
                  /\ last = "reset_FETCH_HEAD" <=> "force" \in flags
                  /\ head = branch
                  /\ \/ cmd = "fetch_pull" /\ rest = <<last>> \o settings
                     \/ cmd = last /\ rest = settings /\ Fetched
      BY <2>4
    <3>2. CASE cmd = "fetch_pull" /\ rest = <<last>> \o settings
      <4>1. Fetched' /\ head' = branch'
        BY <1>1, <1>3, <3>1, <3>2 DEF Fetches, Git, FetchPull, Fetched
      <4> QED BY <1>1, <2>4, <3>1, <3>2, <4>1 DEF QueueInv
    <3>3. CASE cmd = last /\ rest = settings /\ Fetched
      <4>1. AtHand'
        <5>1. CASE last = "reset_FETCH_HEAD"
          BY <1>1, <1>3, <2>4, <3>1, <3>3, <5>1
          DEF Fetches, Git, ResetHard, MoveHead, Fetched, AtHand, HeadCommits
        <5>2. CASE last = "merge_FETCH_HEAD"
          BY <1>1, <1>3, <2>4, <3>1, <3>3, <5>2
          DEF Fetches, Git, MergeFastForward, FastForwards, MoveHead, Fetched, AtHand, HeadCommits
        <5> QED BY <5>1, <5>2
      <4> QED BY <1>1, <3>1, <3>3, <4>1 DEF QueueInv
    <3> QED BY <3>1, <3>2, <3>3
  <2>5. CASE /\ "detach" \notin flags
             /\ \E settings \in Configuration :
                  \/ cmd = "fetch_into_branch" /\ rest = <<"checkout">> \o settings
                  \/ cmd = "checkout" /\ rest = settings /\ seen # NoBranch /\ local[branch] = seen
    <3>1. PICK settings \in Configuration :
                  \/ cmd = "fetch_into_branch" /\ rest = <<"checkout">> \o settings
                  \/ cmd = "checkout" /\ rest = settings /\ seen # NoBranch /\ local[branch] = seen
      BY <2>5
    <3>2. CASE cmd = "fetch_into_branch" /\ rest = <<"checkout">> \o settings
      <4>1. seen' # NoBranch /\ local'[branch'] = seen'
        BY <1>1, <1>3, <3>2 DEF Fetches, Git, FetchIntoBranch, FetchPull
      <4> QED BY <1>1, <2>5, <3>1, <3>2, <4>1 DEF QueueInv
    <3>3. CASE cmd = "checkout" /\ rest = settings /\ seen # NoBranch /\ local[branch] = seen
      <4>1. AtHand'
        BY <1>1, <1>3, <2>5, <3>3 DEF Fetches, Git, CheckoutBranch, AtHand, HeadCommits, LocalBranches, Branches
      <4> QED BY <1>1, <3>1, <3>3, <4>1 DEF QueueInv
    <3> QED BY <3>1, <3>2, <3>3
  <2>6. CASE /\ AtHand
             /\ \/ cmd = "config_remote" /\ rest = <<"config_pushRemote", "config_merge">>
                \/ /\ "remote" \in config[branch]
                   /\ \/ cmd = "config_pushRemote" /\ rest = <<"config_merge">>
                      \/ cmd = "config_merge" /\ rest = <<>>
    <3>1. AtHand'
      BY <1>1, <2>6 DEF Fetches, Git, SetConfig, AtHand, HeadCommits
    <3>2. "remote" \in config'[branch']
      BY <1>1, <1>3, <2>6 DEF Fetches, Git, SetConfig
    <3> QED BY <1>1, <2>6, <3>1, <3>2 DEF QueueInv, Configuration
  <2> QED BY <1>1, <2>1, <2>2, <2>3, <2>4, <2>5, <2>6, Zenon DEF FirstCommand
<1> QED BY <1>4, <1>5, <1>6, <1>7, <1>8, <1>9, <1>10 DEF IInv

-----------------------------------------------------------------------------
(* Every action keeps the invariant.                                       *)

LEMMA SyncStartKeeps ==
  ASSUME IInv, SyncStart
  PROVE  IInv'
<1>1. CloneTypes'
  BY DEF SyncStart, Starts, git, IInv, CloneTypes
<1>2. GitHubTypes'
  BY DEF SyncStart, Starts, github, IInv, GitHubTypes
<1>3. CommandTypes'
  BY DEF SyncStart, Starts, CommandTypes, LocalBranches, NoBranch, SyncSteps
<1>4. HeadInv'
  BY DEF SyncStart, Starts, git, IInv, HeadInv
<1>5. PullInv'
  BY DEF SyncStart, Starts, github, IInv, PullInv, HeadBranch
<1>6. SyncInv'
  BY DEF SyncStart, Starts, git, command, IInv, SyncInv
<1>7. MergeInv'
  BY DEF SyncStart, Starts, command, github, IInv, MergeInv
<1>8. QueueInv'
  BY DEF SyncStart, Starts, command, git, github, IInv, QueueInv
<1>9. MergeConfigComplete'
  BY DEF SyncStart, Starts, git, IInv, MergeConfigComplete
<1> QED BY <1>1, <1>2, <1>3, <1>4, <1>5, <1>6, <1>7, <1>8, <1>9 DEF IInv

LEMMA SyncFetchKeeps ==
  ASSUME IInv, SyncFetch
  PROVE  IInv'
<1>1. CloneTypes'
  BY DEF SyncFetch, Step, Fetch, IInv, CloneTypes, GitHubTypes, CommandTypes, MergeSteps
<1>2. GitHubTypes'
  BY DEF SyncFetch, Step, github, IInv, GitHubTypes
<1>3. CommandTypes'
  BY DEF SyncFetch, Step, IInv, CommandTypes, GitHubTypes, SyncSteps
<1>4. HeadInv'
  BY DEF SyncFetch, Step, Fetch, git, IInv, HeadInv
<1>5. PullInv'
  BY DEF SyncFetch, Step, Fetch, github, IInv, PullInv, HeadBranch
<1>6. SyncInv'
  BY DEF SyncFetch, Step, Fetch, git, command, IInv, SyncInv, HasLocalBranch, FastForwards
<1>7. MergeInv'
  BY DEF SyncFetch, Step, command, github, IInv, MergeInv
<1>8. QueueInv'
  BY DEF SyncFetch, Step, command, git, github, IInv, QueueInv
<1>9. MergeConfigComplete'
  BY DEF SyncFetch, Step, Fetch, git, IInv, MergeConfigComplete
<1> QED BY <1>1, <1>2, <1>3, <1>4, <1>5, <1>6, <1>7, <1>8, <1>9 DEF IInv

LEMMA SyncCheckKeeps ==
  ASSUME IInv, SyncCheck
  PROVE  IInv'
<1>1. CloneTypes'
  BY DEF SyncCheck, Step, Ends, git, IInv, CloneTypes
<1>2. GitHubTypes'
  BY DEF SyncCheck, Step, Ends, github, IInv, GitHubTypes
<1>3. CommandTypes'
  BY DEF SyncCheck, Step, Ends, IInv, CommandTypes, Branches, LocalBranches, Base,
    NoBranch, SyncSteps
<1>4. HeadInv'
  BY DEF SyncCheck, Step, Ends, git, IInv, HeadInv
<1>5. PullInv'
  BY DEF SyncCheck, Step, Ends, Diverging, Compared, HasLocalBranch, FastForwards,
    github, IInv, PullInv, HeadBranch
<1>6. SyncInv'
  BY DEF SyncCheck, Step, Ends, Diverging, Compared, HasLocalBranch, FastForwards, git,
    IInv, SyncInv, NoBranch
<1>7. MergeInv'
  BY DEF SyncCheck, Step, Ends, command, github, IInv, MergeInv
<1>8. QueueInv'
  BY DEF SyncCheck, Step, Ends, command, git, github, IInv, QueueInv
<1>9. MergeConfigComplete'
  BY DEF SyncCheck, Step, Ends, git, IInv, MergeConfigComplete
<1> QED BY <1>1, <1>2, <1>3, <1>4, <1>5, <1>6, <1>7, <1>8, <1>9 DEF IInv

LEMMA SyncUpdateKeeps ==
  ASSUME IInv, SyncUpdate
  PROVE  IInv'
<1>1. CloneTypes'
  BY DEF SyncUpdate, UpdateCurrent, UpdateBranch, ResetHard, MergeFastForward, MoveHead,
    HeadCommits, FastForwards, Ends, git, IInv, CloneTypes
<1>2. GitHubTypes'
  BY DEF SyncUpdate, Ends, github, IInv, GitHubTypes
<1>3. CommandTypes'
  BY DEF SyncUpdate, Ends, CommandTypes, Branches, LocalBranches, Base, NoBranch
<1>4. HeadInv'
  BY DEF SyncUpdate, UpdateCurrent, UpdateBranch, ResetHard, MergeFastForward, MoveHead, HeadCommits, FastForwards, IInv, HeadInv, CloneTypes, CommandTypes, SyncInv, NoBranch
<1>5. PullInv'
  BY DEF SyncUpdate, UpdateCurrent, UpdateBranch, ResetHard, MergeFastForward, MoveHead,
    HeadCommits, FastForwards, Ends, github, IInv, PullInv, HeadBranch
<1>6. SyncInv'
  BY DEF SyncUpdate, Ends, git, command, IInv, SyncInv
<1>7. MergeInv'
  BY DEF SyncUpdate, Ends, command, github, IInv, MergeInv
<1>8. QueueInv'
  BY DEF SyncUpdate, Ends, command, git, github, IInv, QueueInv
<1>9. MergeConfigComplete'
  BY DEF SyncUpdate, UpdateCurrent, UpdateBranch, ResetHard, MergeFastForward, MoveHead,
    HeadCommits, FastForwards, Ends, git, IInv, MergeConfigComplete
<1> QED BY <1>1, <1>2, <1>3, <1>4, <1>5, <1>6, <1>7, <1>8, <1>9 DEF IInv

LEMMA CreateBranchKeeps ==
  ASSUME IInv, CreateBranch
  PROVE  IInv'
<1>1. CloneTypes'
  BY DEF CreateBranch, Step, UpdateBranch, git, IInv, CloneTypes
<1>2. GitHubTypes'
  BY DEF CreateBranch, Step, github, IInv, GitHubTypes
<1>3. CommandTypes'
  BY DEF CreateBranch, Step, IInv, CommandTypes, SyncSteps
<1>4. HeadInv'
  BY DEF CreateBranch, Step, UpdateBranch, git, IInv, HeadInv
<1>5. PullInv'
  BY DEF CreateBranch, Step, UpdateBranch, github, IInv, PullInv, HeadBranch
<1>6. SyncInv'
  BY DEF CreateBranch, Step, UpdateBranch, IInv, SyncInv, CloneTypes, CommandTypes
<1>7. MergeInv'
  BY DEF CreateBranch, Step, command, github, IInv, MergeInv
<1>8. QueueInv'
  BY DEF CreateBranch, Step, command, git, github, IInv, QueueInv
<1>9. MergeConfigComplete'
  BY DEF CreateBranch, Step, UpdateBranch, git, IInv, MergeConfigComplete
<1> QED BY <1>1, <1>2, <1>3, <1>4, <1>5, <1>6, <1>7, <1>8, <1>9 DEF IInv

LEMMA SetUpstreamKeeps ==
  ASSUME IInv, SetUpstream
  PROVE  IInv'
<1>1. CloneTypes'
  BY DEF SetUpstream, Ends, git, IInv, CloneTypes
<1>2. GitHubTypes'
  BY DEF SetUpstream, Ends, github, IInv, GitHubTypes
<1>3. CommandTypes'
  BY DEF SetUpstream, Ends, CommandTypes, Branches, LocalBranches, Base, NoBranch
<1>4. HeadInv'
  BY DEF SetUpstream, Ends, git, IInv, HeadInv
<1>5. PullInv'
  BY DEF SetUpstream, Ends, github, IInv, PullInv, HeadBranch
<1>6. SyncInv'
  BY DEF SetUpstream, Ends, git, command, IInv, SyncInv
<1>7. MergeInv'
  BY DEF SetUpstream, Ends, command, github, IInv, MergeInv
<1>8. QueueInv'
  BY DEF SetUpstream, Ends, command, git, github, IInv, QueueInv
<1>9. MergeConfigComplete'
  BY DEF SetUpstream, Ends, git, IInv, MergeConfigComplete
<1> QED BY <1>1, <1>2, <1>3, <1>4, <1>5, <1>6, <1>7, <1>8, <1>9 DEF IInv

LEMMA TriggerUpstreamMergeKeeps ==
  ASSUME IInv, TriggerUpstreamMerge
  PROVE  IInv'
<1>1. CloneTypes'
  BY DEF TriggerUpstreamMerge, Ends, git, IInv, CloneTypes
<1>2. GitHubTypes'
  <2>1. branch \in Branches
    BY DEF TriggerUpstreamMerge, IInv, CommandTypes, SyncSteps
  <2>2. CASE FastForwards(fork[branch], server[branch]) /\ ForkGets(server[branch]) /\ UNCHANGED used
    <3>1. server[branch] \in (SUBSET Commits) \ {NoBranch} /\ used' \in 1 .. MaxCommits
      BY <2>1, <2>2 DEF TriggerUpstreamMerge, IInv, GitHubTypes
    <3> QED BY <2>1, <2>2, <3>1, ForkGetsKeeps
  <2>3. CASE used < MaxCommits /\ used' = used + 1 /\ ForkGets(fork[branch] \cup server[branch] \cup {NewCommit})
    <3>1. fork[branch] \cup server[branch] \cup {NewCommit} \in (SUBSET Commits) \ {NoBranch}
      BY <2>1, <2>3, NewCommitFits DEF IInv, GitHubTypes, NoBranch
    <3> QED BY <2>1, <2>3, <3>1, NewCommitFits, ForkGetsKeeps
  <2> QED BY <2>2, <2>3 DEF TriggerUpstreamMerge
<1>3. CommandTypes'
  BY DEF TriggerUpstreamMerge, Ends, CommandTypes, Branches, LocalBranches, Base, NoBranch
<1>4. HeadInv'
  BY DEF TriggerUpstreamMerge, Ends, git, IInv, HeadInv
<1>5. PullInv'
  <2>1. branch \in Branches
    BY DEF TriggerUpstreamMerge, IInv, CommandTypes, SyncSteps
  <2>2. CASE FastForwards(fork[branch], server[branch]) /\ ForkGets(server[branch]) /\ UNCHANGED used
    <3>1. server[branch] \in (SUBSET Commits) \ {NoBranch} /\ used' \in 1 .. MaxCommits
      BY <2>1, <2>2 DEF TriggerUpstreamMerge, IInv, GitHubTypes
    <3> QED BY <2>1, <2>2, <3>1, ForkGetsKeeps
  <2>3. CASE used < MaxCommits /\ used' = used + 1 /\ ForkGets(fork[branch] \cup server[branch] \cup {NewCommit})
    <3>1. fork[branch] \cup server[branch] \cup {NewCommit} \in (SUBSET Commits) \ {NoBranch}
      BY <2>1, <2>3, NewCommitFits DEF IInv, GitHubTypes, NoBranch
    <3> QED BY <2>1, <2>3, <3>1, NewCommitFits, ForkGetsKeeps
  <2> QED BY <2>2, <2>3 DEF TriggerUpstreamMerge
<1>6. SyncInv'
  BY DEF TriggerUpstreamMerge, Ends, git, command, IInv, SyncInv
<1>7. MergeInv'
  BY DEF TriggerUpstreamMerge, Ends, command, github, IInv, MergeInv
<1>8. QueueInv'
  BY DEF TriggerUpstreamMerge, Ends, command, git, github, IInv, QueueInv
<1>9. MergeConfigComplete'
  BY DEF TriggerUpstreamMerge, Ends, git, IInv, MergeConfigComplete
<1> QED BY <1>1, <1>2, <1>3, <1>4, <1>5, <1>6, <1>7, <1>8, <1>9 DEF IInv

LEMMA UpstreamMergeRefusedKeeps ==
  ASSUME IInv, UpstreamMergeRefused
  PROVE  IInv'
<1>1. CloneTypes'
  BY DEF UpstreamMergeRefused, Step, git, IInv, CloneTypes
<1>2. GitHubTypes'
  BY DEF UpstreamMergeRefused, Step, github, IInv, GitHubTypes
<1>3. CommandTypes'
  BY DEF UpstreamMergeRefused, Step, IInv, CommandTypes, SyncSteps
<1>4. HeadInv'
  BY DEF UpstreamMergeRefused, Step, git, IInv, HeadInv
<1>5. PullInv'
  BY DEF UpstreamMergeRefused, Step, github, IInv, PullInv, HeadBranch
<1>6. SyncInv'
  BY DEF UpstreamMergeRefused, Step, git, command, IInv, SyncInv
<1>7. MergeInv'
  BY DEF UpstreamMergeRefused, Step, command, github, IInv, MergeInv
<1>8. QueueInv'
  BY DEF UpstreamMergeRefused, Step, command, git, github, IInv, QueueInv
<1>9. MergeConfigComplete'
  BY DEF UpstreamMergeRefused, Step, git, IInv, MergeConfigComplete
<1> QED BY <1>1, <1>2, <1>3, <1>4, <1>5, <1>6, <1>7, <1>8, <1>9 DEF IInv

LEMMA LatestCommitKeeps ==
  ASSUME IInv, LatestCommit
  PROVE  IInv'
<1>1. CloneTypes'
  BY DEF LatestCommit, Step, git, IInv, CloneTypes
<1>2. GitHubTypes'
  BY DEF LatestCommit, Step, github, IInv, GitHubTypes
<1>3. CommandTypes'
  BY DEF LatestCommit, Step, IInv, CommandTypes, GitHubTypes, SyncSteps
<1>4. HeadInv'
  BY DEF LatestCommit, Step, git, IInv, HeadInv
<1>5. PullInv'
  BY DEF LatestCommit, Step, github, IInv, PullInv, HeadBranch
<1>6. SyncInv'
  BY DEF LatestCommit, Step, git, command, IInv, SyncInv
<1>7. MergeInv'
  BY DEF LatestCommit, Step, command, github, IInv, MergeInv
<1>8. QueueInv'
  BY DEF LatestCommit, Step, command, git, github, IInv, QueueInv
<1>9. MergeConfigComplete'
  BY DEF LatestCommit, Step, git, IInv, MergeConfigComplete
<1> QED BY <1>1, <1>2, <1>3, <1>4, <1>5, <1>6, <1>7, <1>8, <1>9 DEF IInv

LEMMA SyncForkKeeps ==
  ASSUME IInv, SyncFork
  PROVE  IInv'
<1>1. CloneTypes'
  BY DEF SyncFork, Ends, git, IInv, CloneTypes
<1>2. GitHubTypes'
  <2>1. /\ branch \in Branches
        /\ seen \in (SUBSET Commits) \ {NoBranch}
        /\ used' \in 1 .. MaxCommits
    BY DEF SyncFork, IInv, CommandTypes, SyncInv, GitHubTypes, SyncSteps
  <2> QED BY <2>1, ForkGetsKeeps DEF SyncFork
<1>3. CommandTypes'
  BY DEF SyncFork, Ends, CommandTypes, Branches, LocalBranches, Base, NoBranch
<1>4. HeadInv'
  BY DEF SyncFork, Ends, git, IInv, HeadInv
<1>5. PullInv'
  BY DEF SyncFork, ForkGets, Following, IInv, PullInv, HeadBranch, GitHubTypes,
    CommandTypes, MergeSteps
<1>6. SyncInv'
  BY DEF SyncFork, Ends, git, command, IInv, SyncInv
<1>7. MergeInv'
  BY DEF SyncFork, Ends, command, github, IInv, MergeInv
<1>8. QueueInv'
  BY DEF SyncFork, Ends, command, git, github, IInv, QueueInv
<1>9. MergeConfigComplete'
  BY DEF SyncFork, Ends, git, IInv, MergeConfigComplete
<1> QED BY <1>1, <1>2, <1>3, <1>4, <1>5, <1>6, <1>7, <1>8, <1>9 DEF IInv

LEMMA MergeStartKeeps ==
  ASSUME IInv, MergeStart
  PROVE  IInv'
<1>1. CloneTypes'
  BY DEF MergeStart, Starts, git, IInv, CloneTypes
<1>2. GitHubTypes'
  BY DEF MergeStart, Starts, github, IInv, GitHubTypes
<1>3. CommandTypes'
  BY PullRequestTypes DEF MergeStart, Starts, IInv, CommandTypes, Commits, NoBranch, SyncSteps, MergeSteps
<1>4. HeadInv'
  BY DEF MergeStart, Starts, git, IInv, HeadInv
<1>5. PullInv'
  BY DEF MergeStart, Starts, github, IInv, PullInv, HeadBranch
<1>6. SyncInv'
  BY DEF MergeStart, Starts, git, command, IInv, SyncInv
<1>7. MergeInv'
  BY DEF MergeStart, Starts, command, github, IInv, MergeInv
<1>8. QueueInv'
  BY DEF MergeStart, Starts, command, git, github, IInv, QueueInv
<1>9. MergeConfigComplete'
  BY DEF MergeStart, Starts, git, IInv, MergeConfigComplete
<1> QED BY <1>1, <1>2, <1>3, <1>4, <1>5, <1>6, <1>7, <1>8, <1>9 DEF IInv

LEMMA MergeFindKeeps ==
  ASSUME IInv, MergeFind
  PROVE  IInv'
<1>1. CloneTypes'
  BY DEF MergeFind, Step, Ends, git, IInv, CloneTypes
<1>2. GitHubTypes'
  BY DEF MergeFind, Step, Ends, github, IInv, GitHubTypes
<1>3. CommandTypes'
  BY DEF MergeFind, Step, Ends, IInv, CommandTypes, Branches, LocalBranches, Base,
    NoBranch, SyncSteps, MergeSteps
<1>4. HeadInv'
  BY DEF MergeFind, Step, Ends, git, IInv, HeadInv
<1>5. PullInv'
  BY DEF MergeFind, Step, Ends, NewMergeContext, Fact, Mergeable, github, IInv, PullInv,
    HeadBranch
<1>6. SyncInv'
  BY DEF MergeFind, Step, Ends, git, command, IInv, SyncInv
<1>7. MergeInv'
  BY DEF MergeFind, Step, Ends, NewMergeContext, Fact, Mergeable, command, github, IInv,
    MergeInv
<1>8. QueueInv'
  BY DEF MergeFind, Step, Ends, command, git, github, IInv, QueueInv
<1>9. MergeConfigComplete'
  BY DEF MergeFind, Step, Ends, git, IInv, MergeConfigComplete
<1> QED BY <1>1, <1>2, <1>3, <1>4, <1>5, <1>6, <1>7, <1>8, <1>9 DEF IInv

LEMMA DisableAutoKeeps ==
  ASSUME IInv, DisableAuto
  PROVE  IInv'
<1>1. CloneTypes'
  BY DEF DisableAuto, Ends, git, IInv, CloneTypes
<1>2. GitHubTypes'
  BY DEF DisableAuto, IInv, GitHubTypes, PullRequests
<1>3. CommandTypes'
  BY DEF DisableAuto, Ends, CommandTypes, Branches, LocalBranches, Base, NoBranch
<1>4. HeadInv'
  BY DEF DisableAuto, Ends, git, IInv, HeadInv
<1>5. PullInv'
  BY DEF DisableAuto, Ends, github, IInv, PullInv, HeadBranch
<1>6. SyncInv'
  BY DEF DisableAuto, Ends, git, command, IInv, SyncInv
<1>7. MergeInv'
  BY DEF DisableAuto, Ends, command, github, IInv, MergeInv
<1>8. QueueInv'
  BY DEF DisableAuto, Ends, command, git, github, IInv, QueueInv
<1>9. MergeConfigComplete'
  BY DEF DisableAuto, Ends, git, IInv, MergeConfigComplete
<1> QED BY <1>1, <1>2, <1>3, <1>4, <1>5, <1>6, <1>7, <1>8, <1>9 DEF IInv

LEMMA MergeKeeps ==
  ASSUME IInv, Merge
  PROVE  IInv'
<1>1. CloneTypes'
  BY DEF Merge, Step, git, IInv, CloneTypes
<1>2. GitHubTypes'
  <2>1. CASE "merged" \in facts
    BY <2>1 DEF Merge, github, IInv, GitHubTypes, PullInv, HeadBranch
  <2>2. CASE "merged" \notin facts
    BY <2>2, MergedIntoKeeps, AutoMergeEnabledKeeps DEF Merge, MergedNow
  <2> QED BY <2>1, <2>2
<1>3. CommandTypes'
  BY DEF Merge, Step, IInv, CommandTypes, SyncSteps, MergeSteps
<1>4. HeadInv'
  BY DEF Merge, Step, git, IInv, HeadInv
<1>5. PullInv'
  <2>1. CASE "merged" \in facts
    BY <2>1 DEF Merge, github, IInv, GitHubTypes, PullInv, HeadBranch
  <2>2. CASE "merged" \notin facts
    BY <2>2, MergedIntoKeeps, AutoMergeEnabledKeeps DEF Merge, MergedNow
  <2> QED BY <2>1, <2>2
<1>6. SyncInv'
  BY DEF Merge, Step, git, command, IInv, SyncInv
<1>7. MergeInv'
  <2> SUFFICES ASSUME ("auto" \notin facts' /\ "delete" \in facts') \/ "merged" \in facts'
               PROVE  pr'.merged
    BY DEF Merge, Step, MergeInv
  <2>1. CASE "merged" \in facts
    BY <2>1 DEF Merge, Step, github, IInv, MergeInv
  <2>2. CASE "merged" \notin facts
    <3>1. "merged" \notin facts'
      BY <2>2 DEF Merge, Surveyed
    <3>2. ~PayloadAuto
      <4>1. CASE ShouldAddToMergeQueue
        BY <2>2, <3>1, <4>1 DEF Merge, Step, Surveyed, ShouldAddToMergeQueue, IInv, MergeInv
      <4>2. CASE "auto" \in facts
        BY <2>2, <3>1, <4>2 DEF Merge
      <4> QED BY <4>1, <4>2 DEF PayloadAuto
    <3> QED BY <2>2, <3>2, MergedIntoKeeps DEF Merge, MergedNow
  <2> QED BY <2>1, <2>2
<1>8. QueueInv'
  BY DEF Merge, Step, command, git, github, IInv, QueueInv
<1>9. MergeConfigComplete'
  BY DEF Merge, Step, git, IInv, MergeConfigComplete
<1> QED BY <1>1, <1>2, <1>3, <1>4, <1>5, <1>6, <1>7, <1>8, <1>9 DEF IInv

LEMMA MergeNotAnsweredKeeps ==
  ASSUME IInv, MergeNotAnswered
  PROVE  IInv'
<1>1. CloneTypes'
  BY DEF MergeNotAnswered, Ends, git, IInv, CloneTypes
<1>2. GitHubTypes'
  BY MergedIntoKeeps, AutoMergeEnabledKeeps DEF MergeNotAnswered, MergedNow
<1>3. CommandTypes'
  BY DEF MergeNotAnswered, Ends, CommandTypes, Branches, LocalBranches, Base, NoBranch
<1>4. HeadInv'
  BY DEF MergeNotAnswered, Ends, git, IInv, HeadInv
<1>5. PullInv'
  BY MergedIntoKeeps, AutoMergeEnabledKeeps DEF MergeNotAnswered, MergedNow
<1>6. SyncInv'
  BY DEF MergeNotAnswered, Ends, git, command, IInv, SyncInv
<1>7. MergeInv'
  BY DEF MergeNotAnswered, Ends, command, github, IInv, MergeInv
<1>8. QueueInv'
  BY DEF MergeNotAnswered, Ends, command, git, github, IInv, QueueInv
<1>9. MergeConfigComplete'
  BY DEF MergeNotAnswered, Ends, git, IInv, MergeConfigComplete
<1> QED BY <1>1, <1>2, <1>3, <1>4, <1>5, <1>6, <1>7, <1>8, <1>9 DEF IInv

LEMMA AskDeleteKeeps ==
  ASSUME IInv, AskDelete
  PROVE  IInv'
<1>1. CloneTypes'
  BY DEF AskDelete, Step, git, IInv, CloneTypes
<1>2. GitHubTypes'
  BY DEF AskDelete, Step, github, IInv, GitHubTypes
<1>3. CommandTypes'
  BY DEF AskDelete, Step, command, IInv, CommandTypes
<1>4. HeadInv'
  BY DEF AskDelete, Step, git, IInv, HeadInv
<1>5. PullInv'
  BY DEF AskDelete, Step, DeleteWanted, github, IInv, PullInv, HeadBranch
<1>6. SyncInv'
  BY DEF AskDelete, Step, git, command, IInv, SyncInv
<1>7. MergeInv'
  BY DEF AskDelete, Step, command, github, IInv, MergeInv
<1>8. QueueInv'
  BY DEF AskDelete, Step, command, git, github, IInv, QueueInv
<1>9. MergeConfigComplete'
  BY DEF AskDelete, Step, git, IInv, MergeConfigComplete
<1> QED BY <1>1, <1>2, <1>3, <1>4, <1>5, <1>6, <1>7, <1>8, <1>9 DEF IInv

LEMMA KeepLocalKeeps ==
  ASSUME IInv, KeepLocal
  PROVE  IInv'
<1>1. CloneTypes'
  BY DEF KeepLocal, Step, git, IInv, CloneTypes
<1>2. GitHubTypes'
  BY DEF KeepLocal, Step, github, IInv, GitHubTypes
<1>3. CommandTypes'
  BY DEF KeepLocal, Step, IInv, CommandTypes, SyncSteps, MergeSteps
<1>4. HeadInv'
  BY DEF KeepLocal, Step, git, IInv, HeadInv
<1>5. PullInv'
  BY DEF KeepLocal, Step, github, IInv, PullInv, HeadBranch
<1>6. SyncInv'
  BY DEF KeepLocal, Step, git, command, IInv, SyncInv
<1>7. MergeInv'
  BY DEF KeepLocal, Step, command, github, IInv, MergeInv
<1>8. QueueInv'
  BY DEF KeepLocal, Step, command, git, github, IInv, QueueInv
<1>9. MergeConfigComplete'
  BY DEF KeepLocal, Step, git, IInv, MergeConfigComplete
<1> QED BY <1>1, <1>2, <1>3, <1>4, <1>5, <1>6, <1>7, <1>8, <1>9 DEF IInv

LEMMA SwitchToBaseKeeps ==
  ASSUME IInv, SwitchToBase
  PROVE  IInv'
<1>1. CloneTypes'
  BY PullRequestTypes DEF SwitchToBase, CheckoutBranch, CheckoutNewBranch, IInv, CloneTypes
<1>2. GitHubTypes'
  BY DEF SwitchToBase, Step, github, IInv, GitHubTypes
<1>3. CommandTypes'
  BY DEF SwitchToBase, Step, IInv, CommandTypes, SyncSteps, MergeSteps
<1>4. HeadInv'
  BY DEF SwitchToBase, CheckoutBranch, CheckoutNewBranch, HasLocalBranch, IInv, HeadInv,
    CloneTypes, Branches, LocalBranches, Base
<1>5. PullInv'
  BY DEF SwitchToBase, LocalDeletion, DeleteWanted, Step, CheckoutBranch,
    CheckoutNewBranch, HasLocalBranch, github, IInv, PullInv, HeadBranch
<1>6. SyncInv'
  BY DEF SwitchToBase, Step, git, command, IInv, SyncInv
<1>7. MergeInv'
  BY DEF SwitchToBase, LocalDeletion, DeleteWanted, Step, CheckoutBranch,
    CheckoutNewBranch, HasLocalBranch, command, github, IInv, MergeInv
<1>8. QueueInv'
  BY DEF SwitchToBase, Step, command, git, github, IInv, QueueInv
<1>9. MergeConfigComplete'
  BY DEF SwitchToBase, CheckoutBranch, CheckoutNewBranch, IInv, MergeConfigComplete,
    CloneTypes
<1> QED BY <1>1, <1>2, <1>3, <1>4, <1>5, <1>6, <1>7, <1>8, <1>9 DEF IInv

LEMMA PullBaseKeeps ==
  ASSUME IInv, PullBase
  PROVE  IInv'
<1>1. CloneTypes'
  BY PullRequestTypes DEF PullBase, IInv, CloneTypes, GitHubTypes
<1>2. GitHubTypes'
  BY DEF PullBase, Step, github, IInv, GitHubTypes
<1>3. CommandTypes'
  BY DEF PullBase, Step, IInv, CommandTypes, SyncSteps, MergeSteps
<1>4. HeadInv'
  BY DEF PullBase, IInv, HeadInv, CloneTypes, NoBranch
<1>5. PullInv'
  BY DEF PullBase, Step, CanMergeFastForward, github, IInv, PullInv, HeadBranch
<1>6. SyncInv'
  BY DEF PullBase, Step, git, command, IInv, SyncInv
<1>7. MergeInv'
  BY DEF PullBase, Step, command, github, IInv, MergeInv
<1>8. QueueInv'
  BY DEF PullBase, Step, command, git, github, IInv, QueueInv
<1>9. MergeConfigComplete'
  BY DEF PullBase, Step, git, IInv, MergeConfigComplete
<1> QED BY <1>1, <1>2, <1>3, <1>4, <1>5, <1>6, <1>7, <1>8, <1>9 DEF IInv

LEMMA DeleteLocalKeeps ==
  ASSUME IInv, DeleteLocal
  PROVE  IInv'
<1>1. CloneTypes'
  BY DEF DeleteLocal, DeleteLocalBranch, IInv, CloneTypes, NoBranch
<1>2. GitHubTypes'
  BY DEF DeleteLocal, Step, github, IInv, GitHubTypes
<1>3. CommandTypes'
  BY DEF DeleteLocal, Step, IInv, CommandTypes, SyncSteps, MergeSteps
<1>4. HeadInv'
  BY DEF DeleteLocal, LocalDeletion, DeleteWanted, Step, DeleteLocalBranch,
    HasLocalBranch, git, IInv, HeadInv
<1>5. PullInv'
  BY DEF DeleteLocal, LocalDeletion, DeleteWanted, Step, DeleteLocalBranch,
    HasLocalBranch, github, IInv, PullInv, HeadBranch
<1>6. SyncInv'
  BY DEF DeleteLocal, Step, git, command, IInv, SyncInv
<1>7. MergeInv'
  BY DEF DeleteLocal, Step, command, github, IInv, MergeInv
<1>8. QueueInv'
  BY DEF DeleteLocal, Step, command, git, github, IInv, QueueInv
<1>9. MergeConfigComplete'
  BY DEF DeleteLocal, LocalDeletion, DeleteWanted, Step, DeleteLocalBranch,
    HasLocalBranch, git, IInv, MergeConfigComplete
<1> QED BY <1>1, <1>2, <1>3, <1>4, <1>5, <1>6, <1>7, <1>8, <1>9 DEF IInv

LEMMA DeleteRemoteKeeps ==
  ASSUME IInv, DeleteRemote
  PROVE  IInv'
<1>1. CloneTypes'
  BY DEF DeleteRemote, Ends, git, IInv, CloneTypes
<1>2. GitHubTypes'
  BY DEF DeleteRemote, IInv, GitHubTypes, NoBranch
<1>3. CommandTypes'
  BY DEF DeleteRemote, Ends, CommandTypes, Branches, LocalBranches, Base, NoBranch
<1>4. HeadInv'
  BY DEF DeleteRemote, Ends, git, IInv, HeadInv
<1>5. PullInv'
  BY DEF DeleteRemote, RemoteDeletion, DeleteWanted, IInv, PullInv, HeadBranch, MergeInv
<1>6. SyncInv'
  BY DEF DeleteRemote, Ends, git, command, IInv, SyncInv
<1>7. MergeInv'
  BY DEF DeleteRemote, Ends, command, github, IInv, MergeInv
<1>8. QueueInv'
  BY DEF DeleteRemote, Ends, command, git, github, IInv, QueueInv
<1>9. MergeConfigComplete'
  BY DEF DeleteRemote, Ends, git, IInv, MergeConfigComplete
<1> QED BY <1>1, <1>2, <1>3, <1>4, <1>5, <1>6, <1>7, <1>8, <1>9 DEF IInv

LEMMA CheckoutStartKeeps ==
  ASSUME IInv, CheckoutStart
  PROVE  IInv'
<1>1. CloneTypes'
  BY DEF CheckoutStart, Starts, git, IInv, CloneTypes
<1>2. GitHubTypes'
  BY DEF CheckoutStart, Starts, github, IInv, GitHubTypes
<1>3. CommandTypes'
  BY DEF CheckoutStart, Starts, CommandTypes, NoBranch, SyncSteps
<1>4. HeadInv'
  BY DEF CheckoutStart, Starts, git, IInv, HeadInv
<1>5. PullInv'
  BY DEF CheckoutStart, Starts, github, IInv, PullInv, HeadBranch
<1>6. SyncInv'
  BY DEF CheckoutStart, Starts, git, command, IInv, SyncInv
<1>7. MergeInv'
  BY DEF CheckoutStart, Starts, command, github, IInv, MergeInv
<1>8. QueueInv'
  <2>1. PICK with \in SUBSET {"force", "detach"}, b \in LocalBranches :
          /\ Starts("checkout", with, b)
          /\ queue' = IF pr.cross THEN CmdsForMissingRemote(with, b) ELSE CmdsForExistingRemote(with, b)
    BY DEF CheckoutStart
  <2>2. pc' = "checkout" /\ flags' = with /\ branch' = b /\ head' = head
    BY <2>1 DEF Starts, git
  <2>3. CASE "detach" \in with
    <3>1. queue' \in {<<"fetch", "checkout_detach">>, <<"fetch_pull", "checkout_detach">>}
      BY <2>1, <2>3 DEF CmdsForMissingRemote, CmdsForExistingRemote
    <3> QED BY <2>2, <2>3, <3>1 DEF QueueInv
  <2>4. CASE "detach" \notin with /\ ~pr.cross
    <3>1. \/ queue' = <<"fetch", "checkout", IF "force" \in with THEN "reset_tracking" ELSE "merge_tracking">>
          \/ queue' = <<"fetch", "checkout_branch">>
      BY <2>1, <2>4 DEF CmdsForExistingRemote
    <3> QED BY <2>2, <2>4, <3>1 DEF QueueInv
  <2>5. CASE "detach" \notin with /\ pr.cross
    <3>1. MergeConfig(b) \in Configuration
      BY DEF MergeConfig, Configuration
    <3>2. \/ /\ head = b
             /\ queue' = <<"fetch_pull", IF "force" \in with THEN "reset_FETCH_HEAD" ELSE "merge_FETCH_HEAD">> \o MergeConfig(b)
          \/ queue' = <<"fetch_into_branch", "checkout">> \o MergeConfig(b)
      BY <2>1, <2>5, Zenon DEF CmdsForMissingRemote
    <3> HIDE DEF MergeConfig, Configuration
    <3>3. CASE queue' = <<"fetch_into_branch", "checkout">> \o MergeConfig(b)
      BY <2>2, <2>5, <3>1, <3>3 DEF QueueInv
    <3>4. CASE /\ head = b
               /\ queue' = <<"fetch_pull", IF "force" \in with THEN "reset_FETCH_HEAD" ELSE "merge_FETCH_HEAD">> \o MergeConfig(b)
      BY <2>2, <2>5, <3>1, <3>4 DEF QueueInv
    <3> QED BY <3>2, <3>3, <3>4
  <2> QED BY <2>3, <2>4, <2>5
<1>9. MergeConfigComplete'
  BY DEF CheckoutStart, Starts, git, IInv, MergeConfigComplete
<1> QED BY <1>1, <1>2, <1>3, <1>4, <1>5, <1>6, <1>7, <1>8, <1>9 DEF IInv

LEMMA CheckedOutKeeps ==
  ASSUME IInv, CheckedOut
  PROVE  IInv'
<1>1. CloneTypes'
  BY DEF CheckedOut, Ends, git, IInv, CloneTypes
<1>2. GitHubTypes'
  BY DEF CheckedOut, Ends, github, IInv, GitHubTypes
<1>3. CommandTypes'
  BY DEF CheckedOut, Ends, CommandTypes, Branches, LocalBranches, Base, NoBranch
<1>4. HeadInv'
  BY DEF CheckedOut, Ends, git, IInv, HeadInv
<1>5. PullInv'
  BY DEF CheckedOut, Ends, github, IInv, PullInv, HeadBranch
<1>6. SyncInv'
  BY DEF CheckedOut, Ends, git, command, IInv, SyncInv
<1>7. MergeInv'
  BY DEF CheckedOut, Ends, command, github, IInv, MergeInv
<1>8. QueueInv'
  BY DEF CheckedOut, Ends, command, git, github, IInv, QueueInv
<1>9. MergeConfigComplete'
  BY DEF CheckedOut, Ends, git, IInv, MergeConfigComplete
<1> QED BY <1>1, <1>2, <1>3, <1>4, <1>5, <1>6, <1>7, <1>8, <1>9 DEF IInv

LEMMA FailsKeeps ==
  ASSUME IInv, Fails
  PROVE  IInv'
<1>1. CloneTypes'
  BY DEF Fails, Ends, git, IInv, CloneTypes
<1>2. GitHubTypes'
  BY DEF Fails, Ends, github, IInv, GitHubTypes
<1>3. CommandTypes'
  BY DEF Fails, Ends, CommandTypes, Branches, LocalBranches, Base, NoBranch
<1>4. HeadInv'
  BY DEF Fails, Ends, git, IInv, HeadInv
<1>5. PullInv'
  BY DEF Fails, Ends, github, IInv, PullInv, HeadBranch
<1>6. SyncInv'
  BY DEF Fails, Ends, git, command, IInv, SyncInv
<1>7. MergeInv'
  BY DEF Fails, Ends, command, github, IInv, MergeInv
<1>8. QueueInv'
  BY DEF Fails, Ends, command, git, github, IInv, QueueInv
<1>9. MergeConfigComplete'
  BY DEF Fails, Ends, git, IInv, MergeConfigComplete
<1> QED BY <1>1, <1>2, <1>3, <1>4, <1>5, <1>6, <1>7, <1>8, <1>9 DEF IInv

LEMMA PushKeeps ==
  ASSUME IInv, Push
  PROVE  IInv'
<1>1. CloneTypes'
  BY DEF Push, git, IInv, CloneTypes
<1>2. GitHubTypes'
  <2>1. NewCommit \in Commits /\ used' \in 1 .. MaxCommits
    BY NewCommitFits DEF Push
  <2>2. pr' = pr /\ landed' = landed
    BY DEF Push
  <2>3. server' \in [Branches -> SUBSET Commits] /\ fork' \in [Branches -> SUBSET Commits]
    BY <2>1, PullRequestTypes DEF Push, IInv, GitHubTypes
  <2>4. pull' \in (SUBSET Commits) \ {NoBranch}
    <3>1. CASE UNCHANGED pull
      BY <3>1 DEF IInv, GitHubTypes
    <3>2. CASE server' = [server EXCEPT ![pr.headRef] = @ \cup {NewCommit}] /\ pull' = Following(server'[pr.headRef])
      <4>1. server'[pr.headRef] \in (SUBSET Commits) \ {NoBranch}
        BY <2>3, <3>2, PullRequestTypes DEF IInv, GitHubTypes, NoBranch
      <4> QED BY <3>2, <4>1, FollowingTypes
    <3>3. CASE fork' = [fork EXCEPT ![pr.headRef] = @ \cup {NewCommit}] /\ pull' = Following(fork'[pr.headRef])
      <4>1. fork'[pr.headRef] \in (SUBSET Commits) \ {NoBranch}
        BY <2>3, <3>3, PullRequestTypes DEF IInv, GitHubTypes, NoBranch
      <4> QED BY <3>3, <4>1, FollowingTypes
    <3> QED BY <3>1, <3>2, <3>3 DEF Push
  <2> QED BY <2>1, <2>2, <2>3, <2>4 DEF IInv, GitHubTypes
<1>3. CommandTypes'
  BY DEF Push, command, IInv, CommandTypes
<1>4. HeadInv'
  BY DEF Push, git, IInv, HeadInv
<1>5. PullInv'
  <2>1. CASE ~pr.cross /\ pull' = Following(server'[pr.headRef])
    BY <2>1 DEF Push, PullInv, HeadBranch, Following
  <2>2. CASE pr.cross /\ pull' = Following(fork'[pr.headRef])
    BY <2>2 DEF Push, PullInv, HeadBranch, Following
  <2>3. CASE server' = [server EXCEPT ![Base] = @ \cup {NewCommit}] /\ UNCHANGED <<fork, pull>>
    BY <2>3, PullRequestTypes DEF Push, IInv, GitHubTypes, PullInv, HeadBranch
  <2> QED BY <2>1, <2>2, <2>3 DEF Push
<1>6. SyncInv'
  BY DEF Push, NewCommit, Following, HeadBranch, git, command, IInv, SyncInv,
    HasLocalBranch, FastForwards
<1>7. MergeInv'
  BY DEF Push, command, github, IInv, MergeInv
<1>8. QueueInv'
  BY DEF Push, NewCommit, Following, HeadBranch, command, git, github, IInv, QueueInv,
    AtHand, Fetched, Tracked, HeadCommits
<1>9. MergeConfigComplete'
  BY DEF Push, git, IInv, MergeConfigComplete
<1> QED BY <1>1, <1>2, <1>3, <1>4, <1>5, <1>6, <1>7, <1>8, <1>9 DEF IInv

LEMMA SettleKeeps ==
  ASSUME IInv, Settle
  PROVE  IInv'
<1>1. CloneTypes'
  BY DEF Settle, git, IInv, CloneTypes
<1>2. GitHubTypes'
  <2>1. CASE ~pr.merged /\ (\E s \in {"clean", "blocked", "dirty"} \ {pr.status} : pr' = [pr EXCEPT !.status = s])
               /\ UNCHANGED <<server, fork, pull, landed, used>>
    <3>1. /\ pr' \in PullRequests /\ pr'.headRef = pr.headRef /\ pr'.cross = pr.cross
          /\ pr'.merged = pr.merged /\ pr'.queued = pr.queued /\ pr'.auto = pr.auto
      BY <2>1 DEF IInv, GitHubTypes, PullRequests
    <3> QED BY <2>1, <3>1 DEF IInv, GitHubTypes, PullInv, HeadBranch
  <2>2. CASE \E squash \in BOOLEAN : MergedInto(squash)
    BY <2>2, MergedIntoKeeps
  <2>3. CASE pr.merged /\ server' = [server EXCEPT ![pr.headRef] = NoBranch] /\ UNCHANGED <<fork, pr, pull, landed, used>>
    BY <2>3 DEF IInv, GitHubTypes, PullInv, NoBranch
  <2> QED BY <2>1, <2>2, <2>3 DEF Settle
<1>3. CommandTypes'
  BY DEF Settle, command, IInv, CommandTypes
<1>4. HeadInv'
  BY DEF Settle, git, IInv, HeadInv
<1>5. PullInv'
  <2>1. CASE ~pr.merged /\ (\E s \in {"clean", "blocked", "dirty"} \ {pr.status} : pr' = [pr EXCEPT !.status = s])
               /\ UNCHANGED <<server, fork, pull, landed, used>>
    <3>1. /\ pr' \in PullRequests /\ pr'.headRef = pr.headRef /\ pr'.cross = pr.cross
          /\ pr'.merged = pr.merged /\ pr'.queued = pr.queued /\ pr'.auto = pr.auto
      BY <2>1 DEF IInv, GitHubTypes, PullRequests
    <3> QED BY <2>1, <3>1 DEF IInv, GitHubTypes, PullInv, HeadBranch
  <2>2. CASE \E squash \in BOOLEAN : MergedInto(squash)
    BY <2>2, MergedIntoKeeps
  <2>3. CASE pr.merged /\ server' = [server EXCEPT ![pr.headRef] = NoBranch] /\ UNCHANGED <<fork, pr, pull, landed, used>>
    BY <2>3 DEF IInv, GitHubTypes, PullInv, NoBranch
  <2> QED BY <2>1, <2>2, <2>3 DEF Settle
<1>6. SyncInv'
  BY DEF Settle, MergedInto, NewCommit, git, command, IInv, SyncInv, HasLocalBranch,
    FastForwards
<1>7. MergeInv'
  <2>1. pr.merged => pr'.merged
    <3>1. CASE \E squash \in BOOLEAN : MergedInto(squash)
      BY <3>1, MergedIntoKeeps
    <3> QED BY <3>1 DEF Settle
  <2> QED BY <2>1 DEF Settle, command, IInv, MergeInv
<1>8. QueueInv'
  <2>1. pr'.headRef = pr.headRef
    <3>1. CASE \E s \in {"clean", "blocked", "dirty"} \ {pr.status} : pr' = [pr EXCEPT !.status = s]
      BY <3>1 DEF IInv, GitHubTypes, PullRequests
    <3>2. CASE \E squash \in BOOLEAN : MergedInto(squash)
      BY <3>2, MergedIntoKeeps
    <3> QED BY <3>1, <3>2 DEF Settle
  <2> QED BY <2>1 DEF Settle, git, command, IInv, QueueInv, AtHand, Fetched, Tracked, HeadCommits
<1>9. MergeConfigComplete'
  BY DEF Settle, git, IInv, MergeConfigComplete
<1> QED BY <1>1, <1>2, <1>3, <1>4, <1>5, <1>6, <1>7, <1>8, <1>9 DEF IInv

LEMMA WorkKeeps ==
  ASSUME IInv, Work
  PROVE  IInv'
<1>1. CloneTypes'
  <2>1. CASE UNCHANGED <<local, head, detachedAt, tracking, fetchHead, config, used>>
    BY <2>1 DEF IInv, CloneTypes
  <2>2. CASE /\ head # "detached" /\ used < MaxCommits /\ MoveHead(HeadCommits \cup {NewCommit})
             /\ UNCHANGED <<head, tracking, fetchHead, config>>
    BY <2>2, NewCommitFits DEF MoveHead, HeadCommits, IInv, CloneTypes
  <2>3. CASE \E b \in LocalBranches \ {head} : ~work /\ CheckoutBranch(b)
    BY <2>3 DEF CheckoutBranch, IInv, CloneTypes
  <2> QED BY <2>1, <2>2, <2>3 DEF Work
<1>2. GitHubTypes'
  BY CloneAssumption DEF Work, IInv, GitHubTypes
<1>3. CommandTypes'
  BY DEF Work, command, IInv, CommandTypes
<1>4. HeadInv'
  BY DEF Work, MoveHead, CheckoutBranch, HasLocalBranch, IInv, HeadInv, CloneTypes,
    NoBranch
<1>5. PullInv'
  BY DEF Work, MoveHead, HeadCommits, NewCommit, CheckoutBranch, HasLocalBranch, github,
    IInv, PullInv, HeadBranch
<1>6. SyncInv'
  BY DEF Work, git, command, IInv, SyncInv
<1>7. MergeInv'
  BY DEF Work, command, github, IInv, MergeInv
<1>8. QueueInv'
  BY DEF Work, command, git, github, IInv, QueueInv
<1>9. MergeConfigComplete'
  BY DEF Work, MoveHead, HeadCommits, NewCommit, CheckoutBranch, HasLocalBranch, git,
    IInv, MergeConfigComplete
<1> QED BY <1>1, <1>2, <1>3, <1>4, <1>5, <1>6, <1>7, <1>8, <1>9 DEF IInv

LEMMA StutterKeeps ==
  ASSUME IInv, UNCHANGED vars
  PROVE  IInv'
<1>1. CloneTypes'
  BY DEF vars, git, IInv, CloneTypes
<1>2. GitHubTypes'
  BY DEF vars, github, IInv, GitHubTypes
<1>3. CommandTypes'
  BY DEF vars, command, IInv, CommandTypes
<1>4. HeadInv'
  BY DEF vars, git, IInv, HeadInv
<1>5. PullInv'
  BY DEF vars, github, IInv, PullInv, HeadBranch
<1>6. SyncInv'
  BY DEF vars, git, command, IInv, SyncInv, HasLocalBranch, FastForwards
<1>7. MergeInv'
  BY DEF vars, command, github, IInv, MergeInv
<1>8. QueueInv'
  BY DEF vars, command, git, github, IInv, QueueInv, AtHand, Fetched, Tracked, HeadCommits
<1>9. MergeConfigComplete'
  BY DEF vars, git, IInv, MergeConfigComplete
<1> QED BY <1>1, <1>2, <1>3, <1>4, <1>5, <1>6, <1>7, <1>8, <1>9 DEF IInv

-----------------------------------------------------------------------------
(* The invariant.                                                          *)

LEMMA InitInvariant == Init => IInv
<1> SUFFICES ASSUME Init PROVE IInv
  OBVIOUS
<1>1. {0} \subseteq Commits /\ {0, 1} \subseteq Commits /\ 1 \in 1 .. MaxCommits
  BY CloneAssumption DEF Commits
<1>2. CloneTypes
  BY <1>1 DEF Init, CloneTypes, Branches, LocalBranches, Base, NoBranch
<1>3. pull = {0, 1} /\ landed = {} /\ used = 1
  BY DEF Init
<1>4. /\ pr \in PullRequests /\ (pr.headRef = Base => pr.cross)
      /\ ~pr.merged /\ ~pr.queued /\ ~pr.auto
  BY DEF Init
<1>5. server \in [Branches -> SUBSET Commits] /\ fork \in [Branches -> SUBSET Commits]
  BY <1>1, <1>3 DEF Init, NoBranch
<1>6. GitHubTypes
  BY <1>1, <1>3, <1>4, <1>5 DEF GitHubTypes, NoBranch
<1>7. CommandTypes
  BY DEF Init, CommandTypes, SyncSteps, Branches, LocalBranches, Base, NoBranch
<1>8. HeadInv /\ MergeConfigComplete
  BY DEF Init, HeadInv, MergeConfigComplete, Branches, LocalBranches, Base, NoBranch
<1>9. PullInv
  BY <1>3, <1>4 DEF Init, PullInv, HeadBranch, PullRequests
<1>10. SyncInv /\ MergeInv /\ QueueInv
  BY DEF Init, SyncInv, MergeInv, QueueInv
<1> QED BY <1>2, <1>6, <1>7, <1>8, <1>9, <1>10 DEF IInv

LEMMA NextInvariant == IInv /\ [Next]_vars => IInv'
<1> SUFFICES ASSUME IInv, [Next]_vars PROVE IInv'
  OBVIOUS
<1>1. CASE RepoSync
  BY <1>1, SyncStartKeeps, SyncFetchKeeps, SyncCheckKeeps, SyncUpdateKeeps, CreateBranchKeeps,
     SetUpstreamKeeps, TriggerUpstreamMergeKeeps, UpstreamMergeRefusedKeeps, LatestCommitKeeps,
     SyncForkKeeps, Zenon
  DEF RepoSync
<1>2. CASE PullRequestMerge
  BY <1>2, MergeStartKeeps, MergeFindKeeps, DisableAutoKeeps, MergeKeeps, MergeNotAnsweredKeeps,
     AskDeleteKeeps, KeepLocalKeeps, SwitchToBaseKeeps, PullBaseKeeps, DeleteLocalKeeps,
     DeleteRemoteKeeps, Zenon
  DEF PullRequestMerge
<1>3. CASE PullRequestCheckout
  BY <1>3, CheckoutStartKeeps, ExecuteCmdKeeps, CheckedOutKeeps, Zenon DEF PullRequestCheckout
<1>4. CASE Fails \/ Push \/ Settle \/ Work
  BY <1>4, FailsKeeps, PushKeeps, SettleKeeps, WorkKeeps
<1>5. CASE UNCHANGED vars
  BY <1>5, StutterKeeps
<1> QED BY <1>1, <1>2, <1>3, <1>4, <1>5 DEF Next, Gh

LEMMA Invariance == Spec => []IInv
  BY InitInvariant, NextInvariant, PTL DEF Spec

\* The types, and that HEAD is detached or on a branch that there is, after
\* any sequence of commands, pushes and merges.
THEOREM TypeCorrect == Spec => []TypeOK
<1>1. IInv => TypeOK
  BY DEF IInv, CloneTypes, GitHubTypes, CommandTypes, HeadInv, HasLocalBranch, TypeOK
<1> QED BY <1>1, Invariance, PTL

\* gh pr checkout never leaves a branch that knows what it is merged with
\* and not where that is, wherever it fails or is killed.
THEOREM ConfigurationIsWhole == Spec => []MergeConfigComplete
<1>1. IInv => MergeConfigComplete
  BY DEF IInv
<1> QED BY <1>1, Invariance, PTL

-----------------------------------------------------------------------------
(* What a step may take away.                                              *)

NothingLost ==
  pc # "idle" => /\ Reachable \ Reachable' \subseteq GivenUp
                 /\ (work /\ ~work' => "force" \in flags)

DeletedAfterMerge ==
  \A b \in Branches :
    (\/ local[b] # NoBranch /\ local'[b] = NoBranch
     \/ server[b] # NoBranch /\ server'[b] = NoBranch)
    => pr.merged /\ b = pr.headRef

\* What is at hand on GitHub only grows.
HubGrows ==
  /\ \A b \in Branches : server[b] \subseteq server'[b]
  /\ \A b \in Branches : fork[b] \subseteq fork'[b]
  /\ pull \subseteq pull' /\ landed \subseteq landed'

CloneGrows == \A b \in LocalBranches : local[b] \subseteq local'[b]

LEMMA ReachableLoses ==
  ASSUME NEW lost,
         \A b \in LocalBranches : local[b] \subseteq local'[b] \cup lost,
         \A b \in Branches : server[b] \subseteq server'[b] \cup pull' \cup lost,
         \A b \in Branches : fork[b] \subseteq fork'[b],
         pull \subseteq pull', landed \subseteq landed'
  PROVE  Reachable \ Reachable' \subseteq lost
<1> SUFFICES ASSUME NEW c \in Reachable, c \notin lost PROVE c \in Reachable'
  OBVIOUS
<1>1. \/ \E b \in LocalBranches : c \in local[b]
      \/ \E b \in Branches : c \in server[b]
      \/ \E b \in Branches : c \in fork[b]
      \/ c \in pull \/ c \in landed
  BY DEF Reachable
<1>2. \/ \E b \in LocalBranches : c \in local'[b]
      \/ \E b \in Branches : c \in server'[b]
      \/ \E b \in Branches : c \in fork'[b]
      \/ c \in pull' \/ c \in landed'
  BY <1>1
<1> QED BY <1>2 DEF Reachable

\* Whoever forces gives up everything.
LEMMA ForceGivesUp ==
  ASSUME IInv, "force" \in flags
  PROVE  NothingLost
<1>1. Reachable \subseteq Commits
  BY DEF Reachable, IInv, CloneTypes, GitHubTypes
<1>2. GivenUp = Commits
  BY DEF GivenUp
<1> QED BY <1>1, <1>2 DEF NothingLost

LEMMA GrowingLosesNothing ==
  ASSUME CloneGrows, HubGrows, work => work'
  PROVE  NothingLost /\ DeletedAfterMerge
<1>1. Reachable \ Reachable' \subseteq {}
  BY ReachableLoses DEF CloneGrows, HubGrows
<1>2. DeletedAfterMerge
  BY DEF CloneGrows, HubGrows, DeletedAfterMerge, NoBranch, Branches, LocalBranches
<1> QED BY <1>1, <1>2 DEF NothingLost

LEMMA UnchangedGrows ==
  /\ UNCHANGED git => CloneGrows /\ work' = work
  /\ UNCHANGED github => HubGrows
  BY DEF git, github, CloneGrows, HubGrows

LEMMA OnlyReads ==
  ASSUME \/ SyncStart \/ SyncCheck \/ UpstreamMergeRefused \/ LatestCommit \/ MergeStart \/ MergeFind
         \/ AskDelete \/ KeepLocal \/ CheckoutStart \/ CheckedOut \/ Fails
  PROVE  UNCHANGED <<git, github>>
  BY DEF SyncStart, SyncCheck, UpstreamMergeRefused, LatestCommit, MergeStart, MergeFind,
         AskDelete, KeepLocal, CheckoutStart, CheckedOut, Fails, Starts

\* The branch is only overwritten when forced; to something, as the fetch
\* has found the branch.
LEMMA SyncUpdateLoses ==
  ASSUME IInv, SyncUpdate
  PROVE  NothingLost /\ DeletedAfterMerge
<1>1. /\ fetchHead = seen /\ seen # NoBranch
      /\ "overwrite" \in facts => "force" \in flags
      /\ "overwrite" \notin facts => local[branch] \subseteq seen
      /\ branch \in Branches /\ local \in [LocalBranches -> SUBSET Commits]
      /\ branch \in LocalBranches /\ branch # "detached"
  BY DEF SyncUpdate, FastForwards, IInv, SyncInv, CommandTypes, CloneTypes, SyncSteps, Branches, LocalBranches, Base
<1>2. HubGrows
  BY UnchangedGrows DEF SyncUpdate
<1>3. CASE "overwrite" \in facts
  <2>1. NothingLost
    BY <1>1, <1>3, ForceGivesUp
  <2>2. \A b \in Branches : local'[b] = local[b] \/ local'[b] = seen
    BY <1>1, <1>3 DEF SyncUpdate, UpdateCurrent, UpdateBranch, ResetHard, MoveHead, Branches, LocalBranches
  <2> QED BY <1>1, <1>2, <2>1, <2>2 DEF DeletedAfterMerge, HubGrows, NoBranch
<1>4. CASE "overwrite" \notin facts
  <2>1. CloneGrows /\ work' = work
    BY <1>1, <1>4
    DEF SyncUpdate, UpdateCurrent, UpdateBranch, MergeFastForward, FastForwards, MoveHead, HeadCommits, CloneGrows
  <2> QED BY <1>2, <2>1, GrowingLosesNothing
<1> QED BY <1>3, <1>4

\* What is created was not there.
LEMMA CreateBranchLoses ==
  ASSUME IInv, CreateBranch
  PROVE  NothingLost /\ DeletedAfterMerge
<1>1. local[branch] = NoBranch /\ branch \in LocalBranches /\ local \in [LocalBranches -> SUBSET Commits]
  BY DEF CreateBranch, Step, HasLocalBranch, IInv, SyncInv, CommandTypes, CloneTypes
<1>2. CloneGrows /\ work' = work
  BY <1>1 DEF CreateBranch, UpdateBranch, CloneGrows, NoBranch
<1> QED BY <1>2, UnchangedGrows, GrowingLosesNothing DEF CreateBranch

\* A branch of the fork that grows; so does the pull request from it.
LEMMA ForkGetsGrows ==
  ASSUME IInv, NEW commits, ForkGets(commits), branch \in Branches, fork[branch] \subseteq commits
  PROVE  HubGrows
<1>1. pull \subseteq pull'
  BY DEF ForkGets, Following, IInv, PullInv, HeadBranch
<1> QED BY <1>1 DEF ForkGets, HubGrows, IInv, GitHubTypes

LEMMA TriggerUpstreamMergeLoses ==
  ASSUME IInv, TriggerUpstreamMerge
  PROVE  NothingLost /\ DeletedAfterMerge
<1>1. branch \in Branches
  BY DEF TriggerUpstreamMerge, IInv, CommandTypes, SyncSteps
<1>2. PICK commits : ForkGets(commits) /\ fork[branch] \subseteq commits
  BY DEF TriggerUpstreamMerge, FastForwards
<1>3. HubGrows
  BY <1>1, <1>2, ForkGetsGrows
<1> QED BY <1>3, UnchangedGrows, GrowingLosesNothing DEF TriggerUpstreamMerge

LEMMA SyncForkLoses ==
  ASSUME IInv, SyncFork
  PROVE  NothingLost /\ DeletedAfterMerge
<1>1. branch \in Branches
  BY DEF SyncFork, IInv, CommandTypes, SyncSteps
<1>2. CASE "force" \in flags
  <2>1. DeletedAfterMerge
    BY DEF SyncFork, ForkGets, git, DeletedAfterMerge
  <2> QED BY <1>2, <2>1, ForceGivesUp
<1>3. CASE fork[branch] \subseteq seen
  <2>1. HubGrows
    BY <1>1, <1>3, ForkGetsGrows DEF SyncFork
  <2> QED BY <2>1, UnchangedGrows, GrowingLosesNothing DEF SyncFork
<1> QED BY <1>2, <1>3 DEF SyncFork, FastForwards

LEMMA MergedIntoGrows ==
  ASSUME IInv, NEW squash \in BOOLEAN, MergedInto(squash)
  PROVE  HubGrows
  BY PullRequestTypes DEF MergedInto, HubGrows, IInv, GitHubTypes

LEMMA MergeLoses ==
  ASSUME IInv, Merge \/ MergeNotAnswered
  PROVE  NothingLost /\ DeletedAfterMerge
<1>1. UNCHANGED git
  BY DEF Merge, MergeNotAnswered
<1>2. HubGrows
  <2>1. CASE UNCHANGED github
    BY <2>1, UnchangedGrows
  <2>2. CASE AutoMergeEnabled
    BY <2>2 DEF AutoMergeEnabled, HubGrows
  <2>3. CASE MergedNow
    BY <2>3, MergedIntoGrows DEF MergedNow
  <2> QED BY <2>1, <2>2, <2>3 DEF Merge, MergeNotAnswered
<1> QED BY <1>1, <1>2, UnchangedGrows, GrowingLosesNothing

LEMMA SwitchToBaseLoses ==
  ASSUME IInv, SwitchToBase
  PROVE  NothingLost /\ DeletedAfterMerge
<1>1. CloneGrows /\ work' = work
  BY PullRequestTypes
  DEF SwitchToBase, CheckoutBranch, CheckoutNewBranch, HasLocalBranch, CloneGrows, IInv, CloneTypes, NoBranch
<1> QED BY <1>1, UnchangedGrows, GrowingLosesNothing DEF SwitchToBase

LEMMA PullBaseLoses ==
  ASSUME IInv, PullBase
  PROVE  NothingLost /\ DeletedAfterMerge
<1>1. CloneGrows /\ work' = work
  BY PullRequestTypes DEF PullBase, CloneGrows, IInv, CloneTypes
<1> QED BY <1>1, UnchangedGrows, GrowingLosesNothing DEF PullBase

\* The branch of the merged pull request goes, in the clone ...
LEMMA DeleteLocalLoses ==
  ASSUME IInv, DeleteLocal
  PROVE  NothingLost /\ DeletedAfterMerge
<1>1. pr.merged /\ "delete" \in facts
  BY DEF DeleteLocal, LocalDeletion, DeleteWanted, Step, IInv, MergeInv
<1>2. /\ \A b \in LocalBranches \ {pr.headRef} : local'[b] = local[b]
      /\ work' = work /\ UNCHANGED github
  BY DEF DeleteLocal, DeleteLocalBranch, IInv, CloneTypes
<1>3. DeletedAfterMerge
  BY <1>1, <1>2, PullRequestTypes DEF DeletedAfterMerge, github
<1>4. CASE "force" \in flags
  BY <1>3, <1>4, ForceGivesUp
<1>5. CASE "force" \notin flags
  <2>1. GivenUp = local[pr.headRef] \cup HeadBranch
    BY <1>1, <1>5 DEF GivenUp
  <2>2. HubGrows
    BY <1>2, UnchangedGrows
  <2>3. Reachable \ Reachable' \subseteq GivenUp
    BY <1>2, <2>1, <2>2, ReachableLoses DEF HubGrows
  <2> QED BY <1>2, <1>3, <2>3 DEF NothingLost
<1> QED BY <1>4, <1>5

\* ... and on GitHub.
LEMMA DeleteRemoteLoses ==
  ASSUME IInv, DeleteRemote
  PROVE  NothingLost /\ DeletedAfterMerge
<1>1. CloneGrows /\ work' = work
  BY UnchangedGrows DEF DeleteRemote
<1>2. CASE UNCHANGED server
  <2>1. HubGrows
    BY <1>2 DEF DeleteRemote, HubGrows
  <2> QED BY <1>1, <2>1, GrowingLosesNothing
<1>3. CASE RemoteDeletion /\ server' = [server EXCEPT ![pr.headRef] = NoBranch]
  <2>1. pr.merged /\ "delete" \in facts /\ ~pr.cross
    BY <1>3 DEF DeleteRemote, RemoteDeletion, DeleteWanted, IInv, MergeInv
  <2>2. \A b \in Branches \ {pr.headRef} : server'[b] = server[b]
    BY <1>3 DEF IInv, GitHubTypes
  <2>3. DeletedAfterMerge
    BY <2>1, <2>2 DEF DeletedAfterMerge, DeleteRemote, git
  <2>4. CASE "force" \in flags
    BY <2>3, <2>4, ForceGivesUp
  <2>5. CASE "force" \notin flags
    <3>1. GivenUp = local[pr.headRef] \cup server[pr.headRef]
      BY <2>1, <2>5 DEF GivenUp, HeadBranch
    <3>2. \A b \in Branches : server[b] \subseteq server'[b] \cup pull' \cup GivenUp
      BY <2>2, <3>1
    <3>3. UNCHANGED <<fork, pull, landed>>
      BY DEF DeleteRemote
    <3>4. Reachable \ Reachable' \subseteq GivenUp
      BY <1>1, <3>2, <3>3, ReachableLoses DEF CloneGrows
    <3> QED BY <1>1, <2>3, <3>4 DEF NothingLost
  <2> QED BY <2>4, <2>5
<1> QED BY <1>2, <1>3 DEF DeleteRemote

\* A queue resets only what is forced; else it goes on from what there is.
LEMMA CommandForces ==
  ASSUME NEW cmd, NEW rest, FirstCommand(cmd, rest)
  PROVE  cmd \in {"reset_tracking", "reset_FETCH_HEAD"} => "force" \in flags
  BY DEF FirstCommand

LEMMA ExecuteCmdLoses ==
  ASSUME IInv, ExecuteCmd
  PROVE  NothingLost /\ DeletedAfterMerge
<1> DEFINE cmd == Head(queue)
<1>1. /\ Fetches(cmd) \/ Git(cmd)
      /\ cmd \in {"reset_tracking", "reset_FETCH_HEAD"} => "force" \in flags
      /\ cmd = "reset_tracking" => Tracked
      /\ cmd = "reset_FETCH_HEAD" => Fetched
  BY QueueBegins, CommandFinds, CommandForces DEF ExecuteCmd, IInv
<1> HIDE DEF cmd
<1>2. HubGrows
  BY UnchangedGrows DEF ExecuteCmd
<1>3. CASE CloneGrows /\ work' = work
  BY <1>2, <1>3, GrowingLosesNothing
<1>4. CASE /\ \A b \in Branches : local'[b] = NoBranch => local[b] = NoBranch
           /\ "force" \in flags
  <2>1. DeletedAfterMerge
    BY <1>2, <1>4 DEF HubGrows, DeletedAfterMerge, NoBranch
  <2> QED BY <1>4, <2>1, ForceGivesUp
<1>5. /\ local \in [LocalBranches -> SUBSET Commits] /\ branch \in LocalBranches
      /\ pull # NoBranch /\ Branches \subseteq LocalBranches
  BY PullRequestTypes DEF IInv, CloneTypes, GitHubTypes, CommandTypes
<1>6. \/ CloneGrows /\ work' = work
      \/ /\ \A b \in Branches : local'[b] = NoBranch => local[b] = NoBranch
         /\ "force" \in flags
  <2>1. CASE Fetches(cmd)
    BY <1>5, <2>1 DEF Fetches, Fetch, FetchPull, FetchIntoBranch, FastForwards, CloneGrows
  <2>2. CASE cmd \in {"checkout_detach", "checkout", "checkout_branch"} /\ Git(cmd)
    BY <1>5, <2>2
    DEF Git, CheckoutDetached, CheckoutBranch, CheckoutNewBranch, HasLocalBranch, CloneGrows, NoBranch
  <2>3. CASE cmd \in {"reset_tracking", "reset_FETCH_HEAD"} /\ Git(cmd)
    BY <1>1, <1>5, <2>3 DEF Git, ResetHard, MoveHead, Tracked, Fetched
  <2>4. CASE cmd \in {"merge_tracking", "merge_FETCH_HEAD"} /\ Git(cmd)
    BY <1>5, <2>4 DEF Git, MergeFastForward, FastForwards, MoveHead, HeadCommits, CloneGrows
  <2>5. CASE cmd \in {"config_remote", "config_pushRemote", "config_merge"} /\ Git(cmd)
    BY <2>5 DEF Git, SetConfig, CloneGrows
  <2> QED BY <1>1, <2>1, <2>2, <2>3, <2>4, <2>5 DEF Git
<1> QED BY <1>3, <1>4, <1>6

LEMMA PushLoses ==
  ASSUME IInv, Push
  PROVE  NothingLost /\ DeletedAfterMerge
<1>1. CloneGrows /\ work' = work
  BY UnchangedGrows DEF Push
<1>2. /\ \A b \in Branches : server[b] \subseteq server'[b]
      /\ \A b \in Branches : fork[b] \subseteq fork'[b]
  BY PullRequestTypes DEF Push, IInv, GitHubTypes
<1>3. pull \subseteq pull'
  BY <1>2, PullRequestTypes DEF Push, Following, IInv, PullInv, HeadBranch
<1>4. HubGrows
  BY <1>2, <1>3 DEF Push, HubGrows
<1> QED BY <1>1, <1>4, GrowingLosesNothing

\* A branch that its owner deletes is all in refs/pull.
LEMMA SettleLoses ==
  ASSUME IInv, Settle
  PROVE  NothingLost /\ DeletedAfterMerge
<1>1. CloneGrows /\ work' = work
  BY UnchangedGrows DEF Settle
<1>2. CASE UNCHANGED <<server, fork, pull, landed, used>>
  BY <1>1, <1>2, GrowingLosesNothing DEF HubGrows
<1>3. CASE \E squash \in BOOLEAN : MergedInto(squash)
  BY <1>1, <1>3, MergedIntoGrows, GrowingLosesNothing
<1>4. CASE /\ pr.merged /\ pull = server[pr.headRef]
           /\ server' = [server EXCEPT ![pr.headRef] = NoBranch]
           /\ UNCHANGED <<fork, pr, pull, landed, used>>
  <2>1. \A b \in Branches \ {pr.headRef} : server'[b] = server[b]
    BY <1>4 DEF IInv, GitHubTypes
  <2>2. DeletedAfterMerge
    BY <1>4, <2>1 DEF DeletedAfterMerge, Settle, git
  <2>3. \A b \in Branches : server[b] \subseteq server'[b] \cup pull' \cup {}
    BY <1>4, <2>1
  <2>4. Reachable \ Reachable' \subseteq {}
    BY <1>1, <1>4, <2>3, ReachableLoses DEF CloneGrows
  <2> QED BY <1>1, <2>2, <2>4 DEF NothingLost
<1> QED BY <1>2, <1>3, <1>4 DEF Settle

LEMMA WorkLoses ==
  ASSUME IInv, Work
  PROVE  NothingLost /\ DeletedAfterMerge
<1>1. NothingLost
  BY DEF Work, NothingLost
<1>2. CloneGrows
  BY DEF Work, MoveHead, HeadCommits, CheckoutBranch, CloneGrows, IInv, CloneTypes
<1>3. server' = server
  BY DEF Work
<1>4. DeletedAfterMerge
  BY <1>2, <1>3 DEF CloneGrows, DeletedAfterMerge, NoBranch, Branches, LocalBranches
<1> QED BY <1>1, <1>4

LEMMA StepLoses ==
  ASSUME IInv, [Next]_vars
  PROVE  NothingLost /\ DeletedAfterMerge
<1>1. CASE UNCHANGED <<git, github>>
  BY <1>1, UnchangedGrows, GrowingLosesNothing
<1>2. CASE RepoSync
  <2>1. CASE SyncFetch \/ SetUpstream
    <3>1. CloneGrows /\ work' = work /\ HubGrows
      BY <2>1, UnchangedGrows DEF SyncFetch, Fetch, SetUpstream, CloneGrows
    <3> QED BY <3>1, GrowingLosesNothing
  <2> QED
    BY <1>1, <1>2, <2>1, OnlyReads, SyncUpdateLoses, CreateBranchLoses, TriggerUpstreamMergeLoses,
       SyncForkLoses, Zenon
    DEF RepoSync
<1>3. CASE PullRequestMerge
  <2>1. CASE DisableAuto
    <3>1. CloneGrows /\ work' = work /\ HubGrows
      BY <2>1, UnchangedGrows DEF DisableAuto, HubGrows
    <3> QED BY <3>1, GrowingLosesNothing
  <2> QED
    BY <1>1, <1>3, <2>1, OnlyReads, MergeLoses, SwitchToBaseLoses, PullBaseLoses, DeleteLocalLoses,
       DeleteRemoteLoses, Zenon
    DEF PullRequestMerge
<1>4. CASE PullRequestCheckout
  BY <1>1, <1>4, OnlyReads, ExecuteCmdLoses, Zenon DEF PullRequestCheckout
<1>5. CASE Fails \/ Push \/ Settle \/ Work
  BY <1>1, <1>5, OnlyReads, PushLoses, SettleLoses, WorkLoses, Zenon
<1>6. CASE UNCHANGED vars
  BY <1>1, <1>6 DEF vars
<1> QED BY <1>2, <1>3, <1>4, <1>5, <1>6 DEF Next, Gh

-----------------------------------------------------------------------------
(* How a command ends.                                                     *)

Synced ==
  /\ (pc = "sync_update" /\ "force" \notin flags) => FastForwards(local[branch], local'[branch])
  /\ (pc \in {"sync_update", "sync_set_upstream"} /\ outcome' = "ok") => local'[branch] = seen

CheckedOutWell == pc = "checkout" /\ outcome' = "ok" => AtHand

\* Only the steps that end a command tell that it has succeeded, and only
\* two write while a branch of the clone is synced.
LEMMA OutcomeIsTold ==
  ASSUME IInv, [Next]_vars, pc \in {"sync_update", "sync_set_upstream", "checkout"}
  PROVE  \/ UNCHANGED git /\ outcome' # "ok"
         \/ SyncUpdate \/ CreateBranch \/ SetUpstream \/ (pc = "checkout" /\ ExecuteCmd) \/ CheckedOut
<1>1. outcome = "none"
  BY DEF IInv, CommandTypes
<1>2. CASE RepoSync
  BY <1>2
  DEF RepoSync, SyncStart, SyncFetch, SyncCheck, TriggerUpstreamMerge, UpstreamMergeRefused, LatestCommit,
      SyncFork, Starts, Step
<1>3. CASE PullRequestMerge
  BY <1>3
  DEF PullRequestMerge, MergeStart, MergeFind, DisableAuto, Merge, MergeNotAnswered, AskDelete, KeepLocal,
      SwitchToBase, PullBase, DeleteLocal, DeleteRemote, Starts, Step
<1>4. CASE PullRequestCheckout
  BY <1>4 DEF PullRequestCheckout, CheckoutStart, ExecuteCmd, Starts
<1>5. CASE Fails
  BY <1>5 DEF Fails, Ends
<1>6. CASE Push \/ Settle \/ UNCHANGED vars
  BY <1>1, <1>6 DEF Push, Settle, vars, command
<1>7. CASE Work
  BY <1>7 DEF Work
<1> QED BY <1>2, <1>3, <1>4, <1>5, <1>6, <1>7 DEF Next, Gh

LEMMA StepSyncs ==
  ASSUME IInv, [Next]_vars
  PROVE  Synced
<1> SUFFICES ASSUME pc \in {"sync_update", "sync_set_upstream"}
             PROVE  Synced
  BY DEF Synced
<1>1. /\ branch \in LocalBranches /\ branch # "detached"
      /\ local \in [LocalBranches -> SUBSET Commits]
  BY DEF IInv, CommandTypes, CloneTypes, LocalBranches, Branches, SyncSteps
<1>2. CASE UNCHANGED git /\ outcome' # "ok"
  BY <1>2 DEF git, Synced, FastForwards
<1>3. CASE SyncUpdate
  <2>1. /\ fetchHead = seen
        /\ "overwrite" \in facts => "force" \in flags
        /\ "overwrite" \notin facts => local[branch] \subseteq seen
    BY <1>3 DEF SyncUpdate, FastForwards, IInv, SyncInv
  <2>2. local'[branch] = seen
    <3>1. CASE UpdateBranch(branch)
      BY <1>1, <2>1, <3>1 DEF UpdateBranch
    <3>2. CASE UpdateCurrent /\ "overwrite" \in facts
      BY <1>1, <2>1, <3>2 DEF UpdateCurrent, ResetHard, MoveHead
    <3>3. CASE UpdateCurrent /\ "overwrite" \notin facts
      BY <1>1, <2>1, <3>3 DEF UpdateCurrent, MergeFastForward, FastForwards, MoveHead, HeadCommits
    <3> QED BY <1>3, <3>1, <3>2, <3>3 DEF SyncUpdate
  <2>3. "force" \notin flags => local[branch] \subseteq local'[branch]
    BY <2>1, <2>2
  <2> QED BY <1>3, <2>2, <2>3 DEF SyncUpdate, Synced, FastForwards
<1>4. CASE CreateBranch
  <2>1. local[branch] = NoBranch /\ outcome' = "none"
    BY <1>4 DEF CreateBranch, Step, HasLocalBranch, IInv, SyncInv, CommandTypes
  <2> QED BY <1>4, <2>1 DEF CreateBranch, Step, Synced, FastForwards, NoBranch
<1>5. CASE SetUpstream
  BY <1>5 DEF SetUpstream, Synced, IInv, SyncInv
<1>6. CASE CheckedOut
  BY <1>6 DEF CheckedOut
<1> QED BY <1>2, <1>3, <1>4, <1>5, <1>6, OutcomeIsTold

\* No command is left in the queue only when the branch is at hand.
LEMMA EmptyIsAtHand ==
  ASSUME QueueInv, pc = "checkout", queue = <<>>
  PROVE  AtHand
<1>1. \A a \in GitCommands, rest \in Configuration : <<a>> \o rest # <<>>
  BY ConfigurationIsSeq
<1>2. \A a, b \in GitCommands, rest \in Configuration : <<a, b>> \o rest # <<>>
  BY ConfigurationIsSeq
<1>3. /\ "fetch_pull" \in GitCommands /\ "fetch_into_branch" \in GitCommands /\ "checkout" \in GitCommands
      /\ "reset_FETCH_HEAD" \in GitCommands /\ "merge_FETCH_HEAD" \in GitCommands
  BY DEF GitCommands
<1> HIDE DEF Configuration, GitCommands
<1>4. ~\E last \in {"reset_FETCH_HEAD", "merge_FETCH_HEAD"}, rest \in Configuration :
          queue = <<"fetch_pull", last>> \o rest \/ queue = <<last>> \o rest
  BY <1>1, <1>2, <1>3
<1>5. ~\E rest \in Configuration :
          queue = <<"fetch_into_branch", "checkout">> \o rest \/ queue = <<"checkout">> \o rest
  BY <1>1, <1>2, <1>3
<1>6. /\ \A a : queue # <<a>>
      /\ \A a, b : queue # <<a, b>>
      /\ \A a, b, c : queue # <<a, b, c>>
  OBVIOUS
<1> QED BY <1>4, <1>5, <1>6 DEF QueueInv

LEMMA StepChecksOut ==
  ASSUME IInv, [Next]_vars
  PROVE  CheckedOutWell
<1> SUFFICES ASSUME pc = "checkout", outcome' = "ok"
             PROVE  AtHand
  BY DEF CheckedOutWell
<1>1. outcome = "none"
  BY DEF IInv, CommandTypes
<1>2. CheckedOut
  BY <1>1, OutcomeIsTold DEF SyncUpdate, CreateBranch, SetUpstream, Step, ExecuteCmd
<1> QED BY <1>2, EmptyIsAtHand DEF CheckedOut, IInv

-----------------------------------------------------------------------------

\* Whatever is interleaved with a command of gh, it takes no commit and no
\* change away that its user has not given up: neither the reset and the
\* update of a ref in sync.go, nor the deletions of merge.go, nor the git
\* commands of checkout.go.
THEOREM NothingIsLost == Spec => NothingLostUnasked
<1>1. IInv /\ [Next]_vars => [pc # "idle" => /\ Reachable \ Reachable' \subseteq GivenUp
                                             /\ (work /\ ~work' => "force" \in flags)]_vars
  BY StepLoses DEF NothingLost
<1> QED BY <1>1, Invariance, PTL DEF Spec, NothingLostUnasked

\* gh pr merge --delete-branch deletes nothing before the merge, whether the
\* pull request is merged, queued or set to merge by itself.
THEOREM DeletedOnlyMerged == Spec => DeletedOnlyAfterMerge
<1>1. IInv /\ [Next]_vars =>
        [\A b \in Branches :
           (\/ local[b] # NoBranch /\ local'[b] = NoBranch
            \/ server[b] # NoBranch /\ server'[b] = NoBranch)
           => pr.merged /\ b = pr.headRef]_vars
  BY StepLoses DEF DeletedAfterMerge
<1> QED BY <1>1, Invariance, PTL DEF Spec, DeletedOnlyAfterMerge

\* gh repo sync moves a branch of the clone forward only, unless forced,
\* although git update-ref would move it to anywhere.
THEOREM SyncFastForwards == Spec => FastForwardUnlessForced
<1>1. IInv /\ [Next]_vars =>
        [(pc = "sync_update" /\ "force" \notin flags) => FastForwards(local[branch], local'[branch])]_vars
  BY StepSyncs DEF Synced
<1> QED BY <1>1, Invariance, PTL DEF Spec, FastForwardUnlessForced

\* When gh repo sync succeeds, the branch is what it was when it was fetched.
THEOREM SyncMakesEqual == Spec => SyncedIsEqual
<1>1. IInv /\ [Next]_vars =>
        [(pc \in {"sync_update", "sync_set_upstream"} /\ outcome' = "ok") => local'[branch] = seen]_vars
  BY StepSyncs DEF Synced
<1> QED BY <1>1, Invariance, PTL DEF Spec, SyncedIsEqual

\* When gh pr checkout succeeds, the branch that was asked for is checked
\* out with all that was fetched, whichever git commands it took.
THEOREM CheckoutDelivers == Spec => CheckedOutIsPullRequest
<1>1. IInv /\ [Next]_vars =>
        [pc = "checkout" /\ outcome' = "ok" =>
           /\ head = IF "detach" \in flags THEN "detached" ELSE branch
           /\ seen # NoBranch /\ seen \subseteq HeadCommits
           /\ ({"force", "detach"} \cap flags # {} => HeadCommits = seen)]_vars
  BY StepChecksOut DEF CheckedOutWell, AtHand
<1> QED BY <1>1, Invariance, PTL DEF Spec, CheckedOutIsPullRequest

=============================================================================
