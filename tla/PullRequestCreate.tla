-------------------------- MODULE PullRequestCreate --------------------------
(***************************************************************************)
(* gh pr create and gh repo fork in a clone: the branch that is checked    *)
(* out is pushed to a repository that the user may push to, which may have *)
(* to be forked and to be given a remote first, and is proposed to the     *)
(* repository "base".  A git command or request after the other, each of   *)
(* which may be the last.                                                  *)
(*                                                                         *)
(* "base" is resolved, given with --repo, or the only one the remotes are  *)
(* for; "other" is a fork of somebody else.  The commits of the branch are *)
(* numbered, each has the one before as its parent; 0 stands for no ref.   *)
(***************************************************************************)
EXTENDS Naturals

CONSTANTS
  MaxCommits,   \* bound on the commits of the branch
  MaxCommands,  \* bound on the commands of gh
  MaxRetries,   \* repetitions of a push after forking
  Faults        \* "fork", "remote", "push", "submit", "metadata", "lost", "killed"

Repos == {"base", "fork", "other"}

\* In the order of Remotes.Less.
Names == <<"upstream", "origin", "fork">>

RemoteNames == {"upstream", "origin", "fork"}

Metadata == {"fields", "reviewers"}

VARIABLES
  remote,     \* of each name the repository, or "none"
  resolved,   \* the names with gh-resolved = base
  pushRemote, \* branch.<name>.remote
  tracked,    \* of each remote, the remote-tracking branch
  commit,     \* HEAD
  branchAt,   \* of each repository, the branch there
  forked,     \* the user has a fork
  canPush,    \* and may push to the base repository
  proposed,   \* the latest pull request, its open, from, commit and lacks
  saved,      \* input is kept in a file
  pc, count, doing,
  survey,     \* title and body are asked for at prompts; --editor is left out
  typed,      \* and were edited, or metadata was: IsDirty
  headRepo,   \* the head repository
  how,        \* the head was "matched", is to be "pushed", "forked" or was "skipped"
  tries

git     == <<remote, resolved, pushRemote, tracked, commit>>
github  == <<branchAt, forked, canPush, proposed>>
options == <<count, doing, survey>>
plan    == <<headRepo, how>>
vars    == <<git, github, options, plan, saved, pc, typed, tries>>

Ended == pc \in {"ok", "shown", "cancelled", "error"}

HasRemote(repo) == \E n \in RemoteNames : remote[n] = repo

RemoteForRepo(repo) == CHOOSE n \in RemoteNames : remote[n] = repo

NoRequest == [open |-> FALSE, from |-> "none", commit |-> 0, lacks |-> {}]

-----------------------------------------------------------------------------

\* Remotes of any names, each for another repository; gh itself is the one
\* that calls the remote of a fork "fork".
Init ==
  /\ remote \in {r \in [RemoteNames -> Repos \cup {"none"}] :
                   /\ r["upstream"] = "base" \/ r["origin"] = "base"
                   /\ r["fork"] # "fork"
                   /\ \A m, n \in RemoteNames : m # n /\ r[m] = r[n] => r[n] = "none"}
  /\ resolved \in {{}, {RemoteForRepo("base")}}
  /\ pushRemote = "none"
  /\ tracked = [n \in RemoteNames |-> 0]
  /\ commit = 1
  /\ branchAt = [r \in Repos |-> 0]
  /\ forked \in BOOLEAN /\ (HasRemote("fork") => forked)
  /\ canPush \in BOOLEAN
  /\ proposed = NoRequest
  /\ saved = FALSE /\ typed = FALSE
  /\ pc = "idle" /\ count = 0 /\ doing = "none"
  /\ survey = FALSE
  /\ headRepo = "none" /\ how = "skipped" /\ tries = 0

\* PreserveInput, deferred once the title was asked for: it looks at err when
\* the function has returned.
Ends(result, err) ==
  /\ pc' = result
  /\ saved' = (saved \/ (doing = "pr_create" /\ survey /\ err /\ typed))

-----------------------------------------------------------------------------
(* Where the branch is, or is to be pushed to: NewCreateContext.           *)

\* Slip: the branch has been pushed to the remote that it is configured for.
EverPushed == IF pushRemote # "none" /\ tracked[pushRemote] # 0 THEN {remote[pushRemote]} ELSE {}

DefaultPRHead ==
  IF pushRemote # "none" /\ tracked[pushRemote] = commit THEN {remote[pushRemote]} ELSE {}

\* git show-ref --verify stops at the first ref that does not exist, so only
\* the remotes before that are looked at.
MatchingRefs ==
  LET present == {i \in 1 .. 3 : remote[Names[i]] # "none"}
      matches == {i \in present :
                    /\ tracked[Names[i]] = commit
                    /\ \A j \in present : j <= i => tracked[Names[j]] # 0}
  IN  {remote[Names[i]] : i \in {i \in matches : \A j \in matches : i <= j}}

\* HeadRepos, or else the forks that are found.
PushableRepos ==
  LET ours == {r \in {"base", "fork"} : HasRemote(r) /\ (r = "base" => canPush)}
  IN  IF ours # {} THEN ours ELSE IF forked THEN {"fork"} ELSE {}

Begin ==
  /\ pc = "idle" /\ count < MaxCommands
  /\ count' = count + 1 /\ doing' = "pr_create"
  /\ survey' \in BOOLEAN
  /\ pc' = "context"
  /\ UNCHANGED <<git, github, plan, saved, typed, tries>>

Plan(repo, by) == headRepo' = repo /\ how' = by

NewCreateContext ==
  /\ pc = "context"
  /\ LET matched == IF DefaultPRHead # {} THEN DefaultPRHead ELSE MatchingRefs
     IN  \/ \E repo \in matched : Plan(repo, "matched") /\ pc' = "find"
         \/ /\ matched = {}
            /\ \/ \E repo \in PushableRepos : Plan(repo, "pushed") /\ pc' = "find"
               \/ "fork" \notin PushableRepos /\ Plan("fork", "forked") /\ pc' = "find"
               \/ Plan("base", "skipped") /\ pc' = "find"
               \/ pc' = "cancelled" /\ UNCHANGED plan
         \/ matched = {} /\ ~survey /\ pc' = "error" /\ UNCHANGED plan
  /\ UNCHANGED <<git, github, options, saved, typed, tries>>

\* Slip: the remote of a fork that was there is not looked for.
FirstOfPushAdding ==
  CASE how = "forked" -> "fork"
    [] how = "pushed" -> "rename"
    [] OTHER          -> "push_done"

\* What handlePush begins with.
FirstOfPush ==
  CASE how = "forked" -> "fork"
    [] how = "pushed" -> IF HasRemote(headRepo) THEN "push" ELSE "rename"
    [] OTHER          -> "push_done"

\* Finder.Find
FindExisting ==
  /\ pc = "find"
  /\ pc' = IF proposed.open /\ proposed.from = headRepo THEN "error"
           ELSE IF survey THEN "survey" ELSE FirstOfPush
  /\ UNCHANGED <<git, github, options, plan, saved, typed, tries>>

\* TitleSurvey, BodySurvey and ConfirmPRSubmission.
Survey ==
  /\ pc = "survey"
  /\ typed' \in BOOLEAN
  /\ pc' = "confirm"
  /\ UNCHANGED <<git, github, options, plan, saved, tries>>

Confirm ==
  /\ pc = "confirm"
  /\ \/ pc' = FirstOfPush /\ UNCHANGED saved
     \/ pc' = "cancelled" /\ UNCHANGED saved
     \/ Ends("error", TRUE)
  /\ UNCHANGED <<git, github, options, plan, typed, tries>>

-----------------------------------------------------------------------------
(* handlePush                                                              *)

\* A fork that is there already is returned without an error.
ForkRepo ==
  /\ pc = "fork"
  /\ \/ forked' = TRUE /\ UNCHANGED saved
        /\ pc' = IF HasRemote("fork") THEN (IF doing = "repo_fork" THEN "ok" ELSE "push") ELSE "rename"
     \/ "fork" \in Faults /\ Ends("error", TRUE) /\ UNCHANGED forked
     \/ "lost" \in Faults /\ Ends("error", TRUE) /\ forked' = TRUE
  /\ UNCHANGED <<git, branchAt, canPush, proposed, options, plan, typed, tries>>

\* gh pr create renames the origin that is the base repository, if it can.
\* gh repo fork renames whatever origin is.
Renames ==
  /\ remote["origin"] # "none"
  /\ doing = "pr_create" => remote["origin"] = "base" /\ remote["upstream"] = "none"

Moved(f, none) == [f EXCEPT !["upstream"] = f["origin"], !["origin"] = none]

\* Slip: an upstream that is in the way is replaced.
RenameAnyway ==
  /\ pc = "rename"
  /\ IF Renames
     THEN remote' = Moved(remote, "none") /\ tracked' = Moved(tracked, 0)
     ELSE UNCHANGED <<remote, tracked>>
  /\ pc' = "add"
  /\ UNCHANGED <<resolved, pushRemote, commit, saved>>
  /\ UNCHANGED <<github, options, plan, typed, tries>>

\* git remote rename fails if the new name is taken, and takes the branch
\* configuration and the remote-tracking branches with it.
RenameOrigin ==
  /\ pc = "rename"
  /\ \/ ~Renames /\ pc' = "add" /\ UNCHANGED <<git, saved>>
     \/ /\ Renames /\ remote["upstream"] = "none"
        /\ remote' = Moved(remote, "none")
        /\ tracked' = Moved(tracked, 0)
        /\ resolved' = {IF n = "origin" THEN "upstream" ELSE n : n \in resolved}
        /\ pushRemote' = IF pushRemote = "origin" THEN "upstream" ELSE pushRemote
        /\ pc' = "add"
        /\ UNCHANGED <<commit, saved>>
     \/ Renames /\ remote["upstream"] # "none" /\ Ends("error", TRUE) /\ UNCHANGED git
     \/ "remote" \in Faults /\ Renames /\ Ends("error", TRUE) /\ UNCHANGED git
  /\ UNCHANGED <<github, options, plan, typed, tries>>

NewName == IF remote["origin"] = "none" THEN "origin" ELSE "fork"

AddRemote ==
  /\ pc = "add"
  /\ \/ /\ remote[NewName] = "none"
        /\ remote' = [remote EXCEPT ![NewName] = headRepo]
        /\ pc' = IF doing = "repo_fork" THEN "ok" ELSE IF how = "forked" THEN "resolve" ELSE "push"
        /\ UNCHANGED <<resolved, pushRemote, tracked, commit, saved>>
     \/ remote[NewName] # "none" /\ Ends("error", TRUE) /\ UNCHANGED git
     \/ "remote" \in Faults /\ Ends("error", TRUE) /\ UNCHANGED git
  /\ UNCHANGED <<github, options, plan, typed, tries>>

\* upstream is made the default, whether this command has made it or not.
SetRemoteResolution ==
  /\ pc = "resolve"
  /\ \/ resolved' = resolved \cup {"upstream"} /\ pc' = "push" /\ UNCHANGED saved
     \/ "remote" \in Faults /\ Ends("error", TRUE) /\ UNCHANGED resolved
  /\ UNCHANGED <<remote, pushRemote, tracked, commit, github, options, plan, typed, tries>>

\* Slip: the error is returned without being assigned to err.
PushFailsUnseen ==
  IF how = "forked" /\ tries < MaxRetries
  THEN tries' = tries + 1 /\ UNCHANGED <<pc, saved>>
  ELSE Ends("error", FALSE) /\ UNCHANGED tries

\* Only after forking is it tried again, since a fork takes its time.
PushFails ==
  IF how = "forked" /\ tries < MaxRetries
  THEN tries' = tries + 1 /\ UNCHANGED <<pc, saved>>
  ELSE Ends("error", TRUE) /\ UNCHANGED tries

\* git push --set-upstream
Push ==
  /\ pc = "push"
  /\ LET n == RemoteForRepo(headRepo)
     IN  \/ /\ branchAt' = [branchAt EXCEPT ![headRepo] = commit]
            /\ tracked' = [tracked EXCEPT ![n] = commit]
            /\ pushRemote' = n
            /\ pc' = "push_done" /\ UNCHANGED <<saved, tries>>
         \/ "push" \in Faults /\ PushFails /\ UNCHANGED <<branchAt, tracked, pushRemote>>
         \/ /\ "lost" \in Faults /\ PushFails
            /\ branchAt' = [branchAt EXCEPT ![headRepo] = commit]
            /\ UNCHANGED <<tracked, pushRemote>>
  /\ UNCHANGED <<remote, resolved, commit, forked, canPush, proposed, options, plan, typed>>

-----------------------------------------------------------------------------
(* submitPR                                                                *)

\* The user may want a preview in the browser, or a dry run.
PushDone ==
  /\ pc = "push_done"
  /\ pc' \in {"submit", "shown"}
  /\ UNCHANGED <<git, github, options, plan, saved, typed, tries>>

CanCreate == ~(proposed.open /\ proposed.from = headRepo) /\ branchAt[headRepo] # 0

Created ==
  /\ CanCreate
  /\ \E wanted \in {{}, Metadata} :
       proposed' = [open |-> TRUE, from |-> headRepo, commit |-> branchAt[headRepo], lacks |-> wanted]

\* An error of submitPR is returned, and never assigned to err.
CreatePullRequest ==
  /\ pc = "submit"
  /\ \/ Created /\ pc' = "metadata" /\ UNCHANGED saved
     \/ ~CanCreate /\ Ends("error", FALSE) /\ UNCHANGED proposed
     \/ "submit" \in Faults /\ Ends("error", FALSE) /\ UNCHANGED proposed
     \/ "lost" \in Faults /\ Created /\ Ends("error", FALSE)
  /\ UNCHANGED <<git, branchAt, forked, canPush, options, plan, typed, tries>>

\* Slip: only the first kind of metadata is sent.
AddSomeMetadata ==
  /\ pc = "metadata"
  /\ \E m \in proposed.lacks : proposed' = [proposed EXCEPT !.lacks = @ \ {m}]
  /\ pc' = "ok"
  /\ UNCHANGED <<git, branchAt, forked, canPush, options, plan, saved, typed, tries>>

\* Requests one after the other for what the creation does not take.
AddMetadata ==
  /\ pc = "metadata"
  /\ \/ proposed.lacks = {} /\ pc' = "ok" /\ UNCHANGED <<proposed, saved>>
     \/ /\ proposed.lacks # {}
        /\ LET m == IF "fields" \in proposed.lacks THEN "fields" ELSE "reviewers"
           IN  proposed' = [proposed EXCEPT !.lacks = @ \ {m}]
        /\ UNCHANGED <<pc, saved>>
     \/ "metadata" \in Faults /\ proposed.lacks # {} /\ Ends("error", FALSE) /\ UNCHANGED proposed
  /\ UNCHANGED <<git, branchAt, forked, canPush, options, plan, typed, tries>>

-----------------------------------------------------------------------------
(* gh repo fork --remote, and what happens besides.                        *)

\* forkRun in a clone; the remote is called origin.
BeginFork ==
  /\ pc = "idle" /\ count < MaxCommands
  /\ count' = count + 1 /\ doing' = "repo_fork"
  /\ pc' = "fork"
  /\ headRepo' = "fork" /\ how' = "forked"
  /\ UNCHANGED <<git, github, survey, saved, typed, tries>>

\* The process has gone; the next one sees an open pull request.
Gone ==
  /\ pc' = "idle"
  /\ doing' = "none" /\ survey' = FALSE
  /\ headRepo' = "none" /\ how' = "skipped"
  /\ saved' = FALSE /\ typed' = FALSE /\ tries' = 0
  /\ proposed' = IF proposed.open THEN [NoRequest EXCEPT !.open = TRUE, !.from = proposed.from]
                 ELSE NoRequest
  /\ UNCHANGED <<git, branchAt, forked, canPush, count>>

Exit == Ended /\ Gone

\* A kill leaves no time for deferred functions.
Killed == "killed" \in Faults /\ pc # "idle" /\ ~Ended /\ Gone

Command ==
  \/ Begin \/ NewCreateContext \/ FindExisting \/ Survey \/ Confirm
  \/ ForkRepo \/ RenameOrigin \/ AddRemote \/ SetRemoteResolution \/ Push
  \/ PushDone \/ CreatePullRequest \/ AddMetadata \/ BeginFork
  \/ Exit

\* Between two commands the user commits and pushes.
Work ==
  /\ pc = "idle"
  /\ \/ commit < MaxCommits /\ commit' = commit + 1 /\ UNCHANGED <<tracked, branchAt>>
     \/ \E n \in RemoteNames :
          /\ remote[n] = "fork" \/ (remote[n] = "base" /\ canPush)
          /\ tracked[n] # commit
          /\ tracked' = [tracked EXCEPT ![n] = commit]
          /\ branchAt' = [branchAt EXCEPT ![remote[n]] = commit]
          /\ UNCHANGED commit
  /\ UNCHANGED <<remote, resolved, pushRemote, forked, canPush, proposed, options, plan,
                 saved, pc, typed, tries>>

\* Maintainers close the pull request, and delete its branch.
Close ==
  /\ proposed.open
  /\ proposed' = [proposed EXCEPT !.open = FALSE]
  /\ branchAt' = [branchAt EXCEPT ![proposed.from] = 0]
  /\ UNCHANGED <<git, forked, canPush, options, plan, saved, pc, typed, tries>>

Next == Command \/ Killed \/ Work \/ Close

\* git and requests end.
Spec == Init /\ [][Next]_vars /\ WF_vars(Command)

-----------------------------------------------------------------------------
(* Properties. *)

\* No repository has two remotes: a remote is added only for one that has
\* none, whatever was done to the others before.
TypeOK ==
  /\ remote \in [RemoteNames -> Repos \cup {"none"}]
  /\ \A m, n \in RemoteNames : m # n /\ remote[m] = remote[n] => remote[n] = "none"
  /\ resolved \subseteq RemoteNames /\ pushRemote \in RemoteNames \cup {"none"}
  /\ tracked \in [RemoteNames -> 0 .. MaxCommits] /\ commit \in 1 .. MaxCommits
  /\ branchAt \in [Repos -> 0 .. MaxCommits]
  /\ {forked, canPush, saved, survey, typed} \subseteq BOOLEAN
  /\ proposed \in [open : BOOLEAN, from : Repos \cup {"none"}, commit : 0 .. MaxCommits,
                   lacks : SUBSET Metadata]
  /\ pc \in {"idle", "context", "find", "survey", "confirm", "fork", "rename", "add", "resolve",
             "push", "push_done", "submit", "metadata", "ok", "shown", "cancelled", "error"}
  /\ doing \in {"none", "pr_create", "repo_fork"}
  /\ headRepo \in Repos \cup {"none"}
  /\ how \in {"matched", "pushed", "forked", "skipped"}
  /\ count \in 0 .. MaxCommands /\ tries \in 0 .. MaxRetries

\* Success means that a pull request with all of its metadata was created,
\* and that it proposes what the user has committed, unless the user chose to
\* skip pushing; that gh repo fork has left a remote for the fork.
SuccessMeansProposed ==
  pc = "ok" =>
    /\ doing = "pr_create" =>
         /\ proposed.from = headRepo /\ proposed.lacks = {}
         /\ how # "skipped" => proposed.commit = commit
    /\ doing = "repo_fork" => forked /\ HasRemote("fork")

\* Whatever fails or is killed in between, each repository that had a remote
\* has one, with what was known of its branches.
KeepsExisting ==
  \A m \in RemoteNames : remote[m] # "none" =>
    \E n \in RemoteNames : remote'[n] = remote[m] /\ tracked'[n] >= tracked[m]

\* Whoever has typed a title or a body finds it in a file when the command
\* fails, as --recover promises; but not when the pull request cannot be
\* created: the errors of submitPR never reach PreserveInput.  It is about the
\* prompts; what was written with --editor the code does not save at all.
InputKept ==
  pc # "error" /\ pc' = "error" /\ survey /\ typed => saved' \/ pc \in {"submit", "metadata"}

\* The remote that is marked as the default is that of the base repository:
\* "only mark `upstream` remote as default if `gh pr create` created the
\* remote", by renaming the one for the base repository.  It is not asked who
\* made the remote called upstream.
DefaultIsBase == \A n \in resolved : remote[n] = "base"

=============================================================================
