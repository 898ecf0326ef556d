----------------------------- MODULE LocalClone -----------------------------
(***************************************************************************)
(* A clone of a repository, the repository and a fork on GitHub, and one   *)
(* pull request: what gh pr merge, gh pr checkout and gh repo sync work    *)
(* on.  A branch is the set of the commits that it reaches, and has the    *)
(* value NoBranch if it does not exist; a branch can be fast-forwarded to  *)
(* its supersets.                                                          *)
(*                                                                         *)
(* The clone has a remote for the base repository and none for the fork.   *)
(* Between two commands the user works on the branches of the clone; a     *)
(* detached HEAD is only looked at.  Collaborators come at any time.       *)
(***************************************************************************)
EXTENDS Naturals, Sequences, FiniteSets

CONSTANTS
  MaxCommits,   \* bound on the commits after the first
  MaxCommands   \* bound on the commands of gh

ASSUME CloneAssumption == MaxCommits \in Nat \ {0} /\ MaxCommands \in Nat

VARIABLES
  local,       \* refs/heads
  head,        \* the branch HEAD is on, or "detached"
  detachedAt,  \* HEAD, when detached
  work,        \* are there uncommitted changes?
  tracking,    \* refs/remotes of the base repository
  fetchHead,   \* FETCH_HEAD
  config,      \* of each branch, which of its settings are there
  server,      \* the branches of the base repository
  fork,        \* the branches of the fork
  pr,          \* the pull request, see PullRequests
  pull,        \* refs/pull/<number>/head
  landed,      \* commits whose changes a merge has brought into the base branch
  used,        \* how many commits there are after the first
  given,       \* how many commands have been given
  pc,          \* the next step of gh; "idle" between commands
  flags,       \* the flags of the command
  branch,      \* the branch it names, or the local name it gives
  facts,       \* what the command has found out
  seen,        \* the commits that GitHub has shown it
  queue,       \* git commands it has yet to run
  outcome      \* how the last command ended

git     == <<local, head, detachedAt, work, tracking, fetchHead, config>>
github  == <<server, fork, pr, pull, landed, used>>
command == <<given, pc, flags, branch, facts, seen, queue, outcome>>
vars    == <<git, github, command>>

Base == "main"

\* A pull request from main of the fork gets a local branch of another name.
Branches == {"main", "feature"}

LocalBranches == Branches \cup {"owner/main"}

NoBranch == {}

Commits == 0 .. MaxCommits

\* mergeStateStatus, and what a merge queue makes of it.
PullRequests ==
  [headRef : Branches, cross : BOOLEAN, merged : BOOLEAN, status : {"clean", "blocked", "dirty"},
   needsQueue : BOOLEAN, queued : BOOLEAN, auto : BOOLEAN]

HeadBranch == IF pr.cross THEN fork[pr.headRef] ELSE server[pr.headRef]

Init ==
  /\ pr \in {p \in PullRequests : /\ p.headRef = Base => p.cross
                                  /\ ~p.merged /\ ~p.queued /\ ~p.auto}
  /\ used = 1
  /\ pull = {0, 1}
  /\ server = [b \in Branches |->
       IF b = Base THEN {0} ELSE IF pr.cross THEN NoBranch ELSE pull]
  /\ fork = [b \in Branches |->
       IF pr.cross /\ b = pr.headRef THEN pull ELSE IF b = Base THEN {0} ELSE NoBranch]
  /\ landed = {}
  /\ local = [b \in LocalBranches |-> IF b = Base THEN {0} ELSE NoBranch]
  /\ head = Base /\ detachedAt = NoBranch /\ work = FALSE
  /\ tracking = [b \in Branches |-> IF b = Base THEN {0} ELSE NoBranch]
  /\ fetchHead = NoBranch
  /\ config = [b \in LocalBranches |-> IF b = Base THEN {"remote", "merge"} ELSE {}]
  /\ given = 0 /\ pc = "idle" /\ flags = {} /\ branch = Base
  /\ facts = {} /\ seen = NoBranch /\ queue = <<>> /\ outcome = "none"

-----------------------------------------------------------------------------
(* git                                                                     *)

FastForwards(from, to) == from \subseteq to

HasLocalBranch(b) == local[b] # NoBranch

HeadCommits == IF head = "detached" THEN detachedAt ELSE local[head]

\* HEAD, and the branch it is on, are moved to what a ref reaches.
MoveHead(to) ==
  IF head = "detached"
  THEN detachedAt' = to /\ UNCHANGED local
  ELSE local' = [local EXCEPT ![head] = to] /\ UNCHANGED detachedAt

ResetHard(to) == MoveHead(to) /\ work' = FALSE /\ UNCHANGED <<head, tracking, fetchHead, config>>

\* git merge --ff-only; nothing is to be done if HEAD has the commits already.
MergeFastForward(to) ==
  /\ \/ FastForwards(HeadCommits, to) /\ MoveHead(to)
     \/ FastForwards(to, HeadCommits) /\ UNCHANGED <<local, detachedAt>>
  /\ UNCHANGED <<head, work, tracking, fetchHead, config>>

CanMergeFastForward(to) == FastForwards(HeadCommits, to) \/ FastForwards(to, HeadCommits)

CheckoutBranch(b) ==
  HasLocalBranch(b) /\ head' = b
  /\ UNCHANGED <<local, detachedAt, work, tracking, fetchHead, config>>

CheckoutNewBranch(b, upstream) ==
  /\ ~HasLocalBranch(b) /\ tracking[upstream] # NoBranch
  /\ local' = [local EXCEPT ![b] = tracking[upstream]]
  /\ head' = b
  /\ config' = [config EXCEPT ![b] = {"remote", "merge"}]
  /\ UNCHANGED <<detachedAt, work, tracking, fetchHead>>

CheckoutDetached ==
  /\ head' = "detached" /\ detachedAt' = fetchHead
  /\ UNCHANGED <<local, work, tracking, fetchHead, config>>

\* git branch -D, which refuses the branch that is checked out.
DeleteLocalBranch(b) ==
  /\ HasLocalBranch(b) /\ head # b
  /\ local' = [local EXCEPT ![b] = NoBranch]
  /\ config' = [config EXCEPT ![b] = {}]
  /\ UNCHANGED <<head, detachedAt, work, tracking, fetchHead>>

\* git fetch of a branch of the base repository.
Fetch(b) ==
  /\ server[b] # NoBranch
  /\ fetchHead' = server[b]
  /\ tracking' = [tracking EXCEPT ![b] = server[b]]
  /\ UNCHANGED <<local, head, detachedAt, work, config>>

-----------------------------------------------------------------------------
(* The others.                                                             *)

\* Commits that are nowhere else will be lost when this shrinks.
Reachable ==
  UNION ({local[b] : b \in LocalBranches} \cup {server[b] : b \in Branches}
         \cup {fork[b] : b \in Branches} \cup {pull, landed})

NewCommit == used + 1

Following(headBranch) == IF pr.merged THEN pull ELSE headBranch

\* Somebody pushes to the base branch or to the branch of the pull request.
Push ==
  /\ used < MaxCommits /\ used' = used + 1
  /\ \/ /\ server' = [server EXCEPT ![Base] = @ \cup {NewCommit}]
        /\ UNCHANGED <<fork, pull>>
     \/ /\ ~pr.cross /\ HeadBranch # NoBranch
        /\ server' = [server EXCEPT ![pr.headRef] = @ \cup {NewCommit}]
        /\ pull' = Following(server'[pr.headRef])
        /\ UNCHANGED fork
     \/ /\ pr.cross
        /\ fork' = [fork EXCEPT ![pr.headRef] = @ \cup {NewCommit}]
        /\ pull' = Following(fork'[pr.headRef])
        /\ UNCHANGED server
  /\ UNCHANGED <<git, command, pr, landed>>

\* The pull request is merged with a commit of its own, of its commits or
\* instead of them (--squash, --rebase).
MergedInto(squash) ==
  /\ ~pr.merged /\ used < MaxCommits /\ used' = used + 1
  /\ pr' = [pr EXCEPT !.merged = TRUE, !.queued = FALSE, !.auto = FALSE]
  /\ server' = [server EXCEPT ![Base] = @ \cup {NewCommit} \cup (IF squash THEN {} ELSE pull)]
  /\ landed' = landed \cup pull
  /\ UNCHANGED <<fork, pull>>

\* Checks end, somebody merges, or auto-merge and the merge queue do; the
\* branch of a merged pull request is deleted by its owner.
Settle ==
  /\ \/ /\ ~pr.merged
        /\ \E s \in {"clean", "blocked", "dirty"} \ {pr.status} : pr' = [pr EXCEPT !.status = s]
        /\ UNCHANGED <<server, fork, pull, landed, used>>
     \/ pr.status = "clean" /\ \E squash \in BOOLEAN : MergedInto(squash)
     \/ /\ pr.merged /\ ~pr.cross /\ pull = server[pr.headRef]
        /\ server' = [server EXCEPT ![pr.headRef] = NoBranch]
        /\ UNCHANGED <<fork, pr, pull, landed, used>>
  /\ UNCHANGED <<git, command>>

\* The user's own work, between two commands.
Work ==
  /\ pc = "idle"
  /\ \/ /\ work' = TRUE
        /\ UNCHANGED <<local, head, detachedAt, tracking, fetchHead, config, used>>
     \/ /\ head # "detached" /\ used < MaxCommits /\ used' = used + 1
        /\ MoveHead(HeadCommits \cup {NewCommit}) /\ work' = FALSE
        /\ UNCHANGED <<head, tracking, fetchHead, config>>
     \/ \E b \in LocalBranches \ {head} : ~work /\ CheckoutBranch(b) /\ UNCHANGED used
  /\ UNCHANGED <<server, fork, pr, pull, landed, command>>

-----------------------------------------------------------------------------
(* The frame of a command.                                                 *)

Starts(first, with, on) ==
  /\ pc = "idle" /\ pc' = first
  /\ given < MaxCommands /\ given' = given + 1
  /\ flags' = with /\ branch' = on
  /\ facts' = {} /\ seen' = NoBranch /\ outcome' = "none"
  /\ UNCHANGED <<git, github>>

Step(this, next) == pc = this /\ pc' = next /\ UNCHANGED <<given, flags, branch, queue, outcome>>

\* All a command leaves behind, besides what it did, is how it ended.
Ends(how) ==
  /\ pc' = "idle" /\ outcome' = how /\ UNCHANGED given
  /\ flags' = {} /\ branch' = Base /\ facts' = {} /\ seen' = NoBranch /\ queue' = <<>>

\* Any step may fail, or gh is killed; what was done is not undone.
Fails == pc # "idle" /\ Ends("error") /\ UNCHANGED <<git, github>>

=============================================================================
