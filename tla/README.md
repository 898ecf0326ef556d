# A specification of gh

This directory specifies parts of the GitHub CLI (`gh`) in TLA+. TLC checks the
specifications on small instances, and the TLA+ proof system proves the most
properties for every value of the constants: each property of a run that finds no error,
but for the three about liveness. Definitions are
translated from the Go code; `PROJECT.json` has, for each, the file and the lines
it stands for.

`gh` is a program that runs one command and exits. It has no server of its own,
so what is hard about it lies at its edges and in three places within:

- **State that outlives a command** and has no lock: `hosts.yml`, `config.yml`, the
  system keyring, directories with downloads and extensions. Commands run at the
  same time, are killed, and fail between two of several writes.
- **Requests to a server that may do what they ask without gh learning of it**:
  timeouts, repetitions, connections that break, and cleaning up afterwards.
- **Pools of goroutines** over channels, with an error or a cancellation in the
  middle.

## Contents

| Module | Models | Checked by | Proved in |
|---|---|---|---|
| `AuthConfig` | accounts, tokens, keyring and `hosts.yml` of one host | `auth_*` (`MCAuthConfig`, `MCAuthFaults`) | `AuthConfigProofs` |
| `AccountReaders` | what another command reads of the accounts meanwhile | `auth_faults` | `AuthConfigProofs` |
| `AccountView` | abstract: what others see of the accounts | as a property of `auth_faults` | its refinement, in `AuthConfigProofs` |
| `MultiAccountMigration` | the migration to several accounts per host | `migration` (`MCMigration`) | `MigrationProofs` |
| `AssetUpload` | the concurrent upload shared by the two below | through them | `AssetUploadProofs` (lemmas) |
| `ReleaseUpload` | `gh release upload` | `release_upload` | `ReleaseUploadProofs` |
| `ReleaseCreate` | `gh release create` | `release_create` | `ReleaseCreateProofs` |
| `ReleaseView` | abstract: what visitors see of a new release | as a property of `release_create` | its safety part, in `ReleaseCreateProofs` |
| `LocalClone` | a clone, its repository and a fork, a pull request, the user and the others | through the next three | |
| `RepoSync`, `PullRequestMerge`, `PullRequestCheckout` | `gh repo sync`, `gh pr merge`, `gh pr checkout` | `clone` (`CloneCommands`) | `CloneProofs` |
| `LabelClone` | `gh label clone` | `commands`, `label_clone_hang` | `CommandsProofs` |
| `StatusMentions` | the notifications of `gh status` | `commands` | `CommandsProofs` |
| `ReleaseDownload` | `gh release download` | `commands` | `CommandsProofs` |
| `ReviewReply` | `gh pr reply-comment` | `commands` | `CommandsProofs` |
| `CodespaceConnect` | waiting until a codespace can be connected to | `commands` | `MachineCommandsProofs` |
| `PortVisibility` | `gh codespace ports visibility` | `commands`, `port_timeout` | `MachineCommandsProofs` |
| `CodespaceCreate`, `CodespaceDelete` | `gh codespace create`, `gh codespace delete` | `commands` | `MachineCommandsProofs` |
| `SshKeys` | the key pair of `gh codespace ssh` and `cp` | `commands` | `MachineCommandsProofs` |
| `PullRequestCreate` | `gh pr create` and `gh repo fork` | `commands`, `pr_create_default` | `CommandsProofs` |
| `Extensions` | `gh extension install`, `upgrade`, `remove`, and the check for updates | `commands`, `forced_upgrade` | `MachineCommandsProofs` |
| `RunWatch` | `gh run watch` | `commands` | `CommandsProofs` |
| `ReleaseDelete` | the lookup of a release, and `gh release delete` | `commands` | `CommandsProofs` |
| `IssueEdit` | `gh issue edit` and `gh pr edit` | `commands` | `CommandsProofs` |
| `Commands` | composes the fourteen from `LabelClone` on | `commands` | `CommandsProofs` |

Run a check with `tlc -config X.cfg M` and a proof with `tlapm M.tla`. The modules
named `MC...` only give values to constants.

## Inventory

For each component: the state it keeps, its operations, how it meets the others,
what is hard, and what makes it correct. Components that are not modelled come
after these.

**Accounts and tokens** (`internal/config/config.go`, `internal/keyring`). State:
the host's section of `hosts.yml` (active user, the host's token, users and their
tokens) and keyring entries by account name, one of them, under the empty name,
for the active account. Operations: login, refresh, switch, logout, and every
command that saves the file. Each process has a copy read at its start and writes
the whole back. Hard: no lock, two stores, a keyring that may refuse or answer
after gh has given up (three seconds), writes that fail, kills. Correct if no
token is ever kept as another account's, the active account is a known one and
has a token, and a reader never pairs one account's name with another's token.

**Migration** (`internal/config/migration/multi_account.go`). State: `hosts.yml`,
the version in `config.yml`, the keyring, and the copy in memory. Runs at the start
of every command until the version is right; asks the keyring and the network in
the middle. Hard: several hosts, several processes, two files written one after
the other. Correct if it is all or nothing, can be repeated, drops no host that
has a token, and leaves what older versions read.

**Release upload, create** (`pkg/cmd/release/{shared/upload,upload,create}`). State on
the server: the release and what each asset name holds; in gh: each worker's
state, the retries, the errgroup's context. `gh release create` makes a draft, calls
the upload, publishes, and cleans the draft up after an error. Hard: lost answers
to requests that are not idempotent, cancellation in the middle of them, other
users, the user's interruption. Correct if success means stored, nobody else's
asset is lost, no incomplete release is ever published, and the command ends.

**Release download** (`pkg/cmd/release/download`). State: the files in a directory, the
jobs and results channels. Hard: names known only from the answer, half-written
files, several runs. Correct if success means downloaded and existing files are
kept.

**Label cloning** (`pkg/cmd/label/clone.go`) and **mentions** (`pkg/cmd/status/status.go`).
A producer and workers over an unbuffered channel; in the second, pages before it
and a collector behind. Hard: an error in a worker, which reaches the producer
only at the end. Correct if success means complete, and if the command ends.

**Replies to review comments** (`pkg/cmd/pr/reply-comment`, `pkg/cmd/pr/reviewapi`). State
on the server: reviews and replies; in gh: the retries, the pages read, the reviews
to submit. Hard: requests that are repeated although they may have been served,
submitting what was read some time ago, failing after having submitted. Correct
if no answered reply is repeated, nothing is submitted unasked, and the user is
told when something was.

**Git in a clone** (`pkg/cmd/repo/sync`, `pkg/cmd/pr/{merge,checkout}`). State: branches,
HEAD, remote-tracking branches, `FETCH_HEAD`, the branches' configuration and
uncommitted work; on GitHub, the branches and the pull request. Each command reads
all it needs first, and then runs one git command or request after the other.
Hard: what was read is stale when used, since others push, merge and delete; any
step may be the last. Correct if nothing is lost that the user has not given up,
a branch is deleted only after its merge, and success means synced or checked out.

**Proposing a pull request** (`pkg/cmd/pr/create`, `pkg/cmd/repo/fork`). State: the remotes,
their default mark, the branch on up to three repositories; what the user has
typed. Hard: forking, renaming and adding remotes, pushing to a fork that is not
ready yet, all without a way back. Correct if no remote is lost or doubled, the
pull request proposes what was committed, and typed input survives a failure.

**Codespaces** (`internal/codespaces`, `pkg/cmd/codespace`). Connecting polls a record that
lags behind the service, and starts a codespace at most once for each shutdown.
Changing the visibility of a port deletes and forwards it again, within thirty
seconds, in a goroutine. Creating may need permissions and polls for provisioning
and for post-create steps. Deleting sends a request for each codespace at once. The
key pair for ssh is two files, renamed or made one after the other.

**Extension manager** (`pkg/cmd/extension`) and its update checks. Directories,
manifests, clones and symbolic links are changed one after the other, without a
way back; a check that ends late writes next to an extension that may be another
one by now. Correct if success means that a whole extension of the owner and
version asked for is there, whatever was killed before.

**Run watch** (`pkg/cmd/run/watch`). Asks for the run, its jobs and the annotations of each
job in turn, and keeps annotations in a cache. Correct if the last screen agrees
with the run.

**Release lookup and deletion** (`pkg/cmd/release/{shared/fetch,delete}`). Two goroutines
look for a published release and for a draft. Correct if together they miss none,
and only the release that was confirmed is deleted.

**Editing issues and pull requests** (`pkg/cmd/pr/shared/editable*.go`). Values are read,
selected, and written by several requests at once. Correct if only the values
named are changed.

Left out: commands that send one or a few requests and print the answers (gists,
keys, rulesets, workflows, projects, caches, search, most of issues and runs);
formatting, prompts, tables, completion and manuals; the git client, which runs
processes and keeps no state; connections that last until they break, such as the
codespace RPC invoker with its gRPC client and heartbeat, ssh processes and port
listeners; attestation, whose substance is cryptography of a library; build
scripts and acceptance tests. `PROJECT.json` lists all of these with a reason each.

## Plan

Done, in this order:

1. `AuthConfig` with `AccountView`: what every command depends on; proofs.
2. `MultiAccountMigration`; proofs.
3. `AssetUpload`, and on it `ReleaseUpload` and `ReleaseCreate` with `ReleaseView`; proofs.
4. The pools `LabelClone`, `StatusMentions`, `ReleaseDownload`, and `ReviewReply`.
5. Codespaces: `CodespaceConnect`, `PortVisibility`, `CodespaceCreate`, `CodespaceDelete`, `SshKeys`.
6. `Extensions`; `LocalClone` with the three commands on it; `PullRequestCreate`; `RunWatch`;
   `ReleaseDelete`; `IssueEdit`; and `Commands`, which composes the commands that run
   by themselves.
7. Proofs of all safety properties of the runs, command by command in `MachineCommandsProofs`
   and `CommandsProofs`, of `LocalClone`'s commands in `CloneProofs`, and of the refinement of
   `AccountView` in `AuthConfigProofs`.

Left:

- The composition of the migration with the account commands, for a migration that
  overwrites a login made meanwhile.
- The polling loops of `gh agent-task`, `gh secret set` for several secrets, and the
  keep-alive channel of the port forwarder.

## How the models correspond to the code

Each handler of the code is one action, or, where another process, the server or
a kill can come between two of its steps, one action per step. The steps are
those that others can notice: a call to the keyring, a request, a write of a
file, a send or receive on a channel. What lies between them is part of the action
before. Each `Slip` is a variant of the definition after it, as a plausible bug
would make it; the specification does not use it, and with it in place of the
definition TLC finds the property named in `PROJECT.json` violated.

### AuthConfig

`disk` is the section of one host in `hosts.yml`, `keyring` the entries of service
`gh:<host>`. A process has `pc`, its copy `mem` and in `job` the local variables of the
function it is in. `Start` is `NewConfig`; `StoreToken` is `Login` before
`activateUser`; `Switch`, `LogoutLast`, `LogoutInactive`, `LogoutActive` are the branches of
`SwitchUser` and `Logout`; `ClearActive`, `GetUserToken`, `SetActive`, `PlaceToken` are the
calls of `activateUser`; `DropActive`, `DropUser` are `Logout`'s deletions; `WriteSection` and
`WriteFails` are `Write`; `Rollback` is the end of `SwitchUser`.

A keyring call is answered, refused, or given up after three seconds: then the
request stays in `late` and may be served at any later time, even after the process
has gone. `MaxLate` bounds those.

Abstracted: the other keys of the section; the order of users (whom logout makes
active is any of the rest); environment tokens, with which these commands refuse
to run. The library that reads and writes the files is external; a file is
replaced whole or not at all.

`AccountView` has the active user, the accounts and the token another command would
use. Each command is at most two of its steps.

### MultiAccountMigration

`hosts`, `version` and `keyring` are shared; `mem`, `todo`, `host` and `source` are a process's copy
and its place in the loop over hosts. `Read` is `NewConfig` with `Migrate`'s checks,
`GetToken`, `GetUsername`, `MigrateConfig`, `MigrateToken` are the steps for a host, each with its
failure, `WriteHosts` and `WriteVersion` the two files in the order in which they are
written. The initial states are all that a version without accounts can have left
(`OldHosts`): per host a name, none, or `x-access-token`, and a token in plain text,
in the keyring, in both or in neither.

### AssetUpload, ReleaseUpload, ReleaseCreate

`release` and `content` are the server; `worker`, `retries`, `cancelled` are the goroutines of
`ConcurrentUpload`, the backoff and the errgroup's context. A request is sent
(`SendRequest`), and ends in one of: served and answered, refused, served and
answered unreadably, or lost. A lost one was served, will be served later (`late`,
`lateCalls`) or never. `NameOf` stands for the server's rewriting of file names, which
may give two files one name. `ReleaseUpload` adds `uploadRun`, `ReleaseCreate` the second half
of `createRun` from the check for a published release to `cleanupDraftRelease`; what
comes before asks the user and changes nothing on the server, except for a tag
that may be pushed. Immutable releases are not modelled.

`ReleaseView` has what visitors see (nothing or the whole release) and the outcome
the caller is told.

### ReleaseDownload

`file` says of each name in the directory whether there is none, one from before, a
half-written or a whole one. `Take` is a worker's receive from the jobs, `Check` is
`destinationWriter`'s check, made before the request if the name is known and again
before the file is opened (`copy_check`), `Open` truncates or creates, `Copy` is
`io.Copy`. `OtherWrites` is another process. The command is run again in the same
directory, with any flags.

### LabelClone and StatusMentions

Workers are alike, so `idle` and `gone` count those that wait in their select and
those that have returned; the busy ones are the labels or notifications in work.
`Feed` is the send on the unbuffered channel together with the receive. A worker
whose context is cancelled may still receive when both cases of its select are
ready, so `Feed` is not guarded by it; `Leave` is the other case. In `StatusMentions`
`Sent`, `Collect` and `Return` are the second channel, the collector and the sort at the
end. Notifications that claim no mention are not counted.

### ReviewReply

`state` has the reviews of a pull request in the order of the listing, those gh has
submitted marked `auto` (they carry its summary). `Retry`, `GiveUp` and `Refused` are
`RestClient.do` for whichever request is next; `Replied`, `PendingReview`, `CurrentLogin`,
`ListPage`, `SubmitReview`, `SubmitRefused` are the answers as `runReplyComment` and
`SubmitPendingReviews` take them. The outcome is the message: `runReplyComment` has one
for each request. `unheard` counts replies that got no answer; it is there for the
properties only. `ReviewElsewhere` is the user in another window, and other
reviewers. That the server refuses replies and second pending reviews while one
is pending is what the code's error handling says of it. How the address of the
next page is put together is abstracted; a page that cannot be fetched is `Refused`.

### LocalClone, RepoSync, PullRequestMerge, PullRequestCheckout

A branch is the set of commits it reaches, `NoBranch` if there is none, so that
fast-forwards are supersets and what a step loses is a difference of sets. `local`,
`head`, `tracking`, `fetchHead` and `config` are the clone; `server`, `fork` and `pr` are on GitHub;
`facts` and `seen` are what a command has read. Each git command and each request is
an action, and `Fails` is any of them failing. `Push` and `Settle` are the others, at any
time; `Work` is the user, who between two commands changes files, commits and
switches branches. What git refuses is modelled where gh relies on it: a merge
that is no fast-forward, a fetch into a branch that is checked out, a checkout over
uncommitted changes. `gh pr checkout` builds its queue of git commands before it
fetches, as the code does. `CloneCommands` lets any of the three follow another.

### CodespaceConnect, CodespaceCreate, CodespaceDelete, SshKeys

`CodespaceConnect` has the service's state (`codespace`, and `accepted` for a start that it does
not show yet) and gh's record of it (`fetched`, `lastState`). `Look` is the loop's condition,
`StartCodespace` and `GetCodespace` the requests, `TimePasses` the end of the time allowed.
`CodespaceCreate` follows `Create` with the question for permissions, the polling for a
codespace that the answer says is still provisioned, and `--status`: a poller beside
the tunnel, with the flag and the break of `createCommand`'s closure. In `CodespaceDelete`
`job` is each goroutine of the errgroup; the owner goes on working, so that what the
records say about unsaved changes may be stale. `SshKeys` has the four files of the
automatic pair under its old and its new name, with the number of the pair each
belongs to; any of them may be there at first, an old pair beside an automatic one too.
Commands run one at a time and may be killed between any two steps. `damaged` says that
an `ssh-keygen`, or the renaming of an old pair over an automatic one, did not get to
its second file, or that the automatic private key was without a public one from the start.

### PortVisibility

`port` is the tunnel service; `updates` the arguments, taken one after the other; `step` the
request that comes next, of the goroutine that forwards or of the code that waits
for it, which never send at the same time. `Deadline` is the context's end: a request
given up then may be served `late`, while the next port is being updated.

### PullRequestCreate

`remote`, `resolved` and `pushRemote` are git's configuration, `branchAt` the branch in each
repository, `tracked` what the clone knows of it. The steps are the requests and git
commands from `NewCreateContext` to `submitPR`; `gh repo fork` in a clone uses the same
remotes and is given before or after. A push is repeated with a backoff (`MaxRetries`)
only after forking, as in the code. Commands are killed at any step.

### Extensions

`dir` is the directory of one extension name: whether it exists, the binary and its
version (or `Broken`), the manifest, the clone with its commit, what its tracking
branch says and its pin. Repositories of several owners may have the name.
`stateOf` is the owner whose update check has written the state last. Installing a
binary writes the directory, the binary and the manifest in this order; upgrading
writes the last two over what is there; for clones there are git's commands.

### RunWatch

`jobStatus`, `annotated` and `conclusion` are at GitHub and go on at any time; `jobs`, `annotations`
and `annotationCache` are gh's, filled by one request after the other. The cache is keyed
by job and holds the annotations of the list up to that job, as in the code.

### ReleaseDelete

`lookup` is the state of each of the two goroutines, `Receive` and `ReceiveOther` are
`FetchRelease`'s receives from their channel, in either order; `Drain` is the wait for the
goroutine that lost. `release` is the number of the release that the tag has at the
moment: others publish, delete and make one. `missed` remembers the only excuses for
not finding one, and is there for the property only.

### IssueEdit

`listed` is what was read, `value` what the issue is to have, `requests` the goroutines under
way. `Send` starts those that the field needs: labels and project items are added and
removed, assignees replaced, reviewers requested and withdrawn, from the values read.
Others edit the same issue (`touched`).

### Commands

gh runs one command and exits, so `cmd` is chosen at the beginning. The fourteen
modules are instantiated without substitution: variables of one name are one
variable, and what a command does not have is `Unused` and never changes. Nothing of
a module is weakened by this; its actions, initial states and properties are those
that it would have by itself. In `release download`, `pr create`, `extension` and
`codespace keys` several commands follow each other on what the former left.

## The runs

Seven runs find no error. The other five each check one statement of a doc, a comment
or a test, and find it violated.

**`auth_concurrent`** (2.8 million states). Two processes, two accounts with one token
each, no faults; processes and accounts are symmetric. Lost updates happen, and
yet: no account's token is ever stored as another's (`OwnTokens`), the active account
is listed (`ActiveUserListed`), and the host's plain-text token is the active
account's (`HostTokenIsUserToken`). Two processes are enough for every pair of
accesses to race; with three accounts nothing new is shared, since a command
names at most two.

**`auth_faults`**. One process after another, two tokens for one of the accounts, every
call refused or timed out and served late (one at a time), failing writes, kills at
any step: types and `StoreInv`, the inductive invariant of the proofs. As long as
calls have been refused at most (`calm`, in `AccountReaders`), two more claims hold:
between commands the active account has a usable token (`ActiveAccountHasToken`), and
at every moment what another process reads is a state of `AccountView`
(`ReadersSeeAccountView`). They do not hold after kills or failing writes: a logout that
is killed after its keyring calls leaves an account without a token, and if another
account then logs in there is a moment when the old name goes with the new active
entry.

**`auth_logout_keyring`** finds that logging out of one of several accounts leaves its
token in the keyring, where the comment on `Logout` says it is removed.

**`migration`** (1.45 million states). Two hosts, two accounts, two processes, every
failure and kills: `hosts.yml` is migrated whole or not at all (`HostsAllOrNothing`), the
version is set only when every host is (`VersionMeansMigrated`), no host whose token
is in the keyring is dropped (`HostsWithTokenKept`), and no step changes the token an
older version finds (`OldVersionsUnaffected`). Two hosts are needed for a failure at
the second after the first is done.

**`release_upload`** (850,000 states). Up to three of four files, either of three names or
two of one name, two workers, one repetition, everything refused, lost or late, and
another user. `SuccessMeansStored`, `NothingElseLost` (a replaced asset may be lost if its
upload fails; others never), `LossLimited` (of the replaced assets no more are missing than
workers run at once, however many there are: it needs the limit, the order of deletion
and upload in each worker, and the cancellation of what was not sent yet), `Terminates`.
Three names with two workers make the limit matter and let one worker fail while one is
in a request and one has not started; a command that replaced all three and lost
them would show.

**`release_create`**. The same files, and every other call refused, lost, late or
unreadable, the tag taken meanwhile, the user interrupting. `PublishedComplete`,
`SuccessMeansReleased`, and the refinement `KeepsReleaseView`, liveness included.

**`clone`** (2.5 million states). Two commands in a row, three commits besides the
first, with every combination of flags that matters; the user works in between, the
others push, settle and merge at any time, every step may fail.
`NothingLostUnasked`: no step of gh takes a commit out of reach of all branches, or
uncommitted changes away, unless the user gave them up with `--force` or asked for the
branch to be deleted. `DeletedOnlyAfterMerge`: also with `--auto` and a merge queue.
`FastForwardUnlessForced`, `SyncedIsEqual` and `CheckedOutIsPullRequest` are what the commands'
documentation promises; `MergeConfigComplete` says that the configuration of a branch
is not left half-made by a success. Two commands let one act on what the other has
left, for example a sync of a branch that a checkout has made; three commits let a
branch diverge on both sides. It is assumed that nobody but gh fetches while a command
runs; see below for what happens otherwise.

**`commands`** (910,000 states). Any one of fourteen commands, with every fault at once.
The properties relate to what a script may rely on:

- `SuccessMeansDone`: a command that reports success has done all of it. For the pools,
  no label, mention or asset is missing although workers share them and one may
  have failed; a codespace can be connected to, is created once, or gone; ports are as
  asked; the pull request has its metadata and proposes what was committed; an
  extension is whole, and of the owner and version asked for; the screen of `gh run
  watch` shows the run as it ended; the halves of a key pair belong together, unless it is
  `damaged`; a release
  is gone; an edit is made.
- `ExistingKept`: what was there stays: labels and files without `--force` and `--clobber`, also
  those that somebody creates meanwhile (files until the last check); codespaces with unsaved
  changes; remotes with what was known of their branches; extensions that are pinned
  or local; private keys, but for an automatic one that an old pair takes the place of,
  see below; releases other than the one found; values of an issue that were not named,
  but for the exceptions `IssueEdit` lists. For codespaces it is what the list showed that
  counts; what was changed after it is deleted unasked.
- `StartedOncePerStop`, `PortsKept`, `UpdateStateIsOwn`, `InputKept`, `NotFoundIsTrue`,
  `RepliesAccountedFor`, `AutoSubmitTold`, `SubmittedBeforeReply`: one command's each, named
  for what they say. `InputKept` is about what was typed at the prompts and errors before the
  submission, `UpdateStateIsOwn` excuses a check that is overtaken by a command, and
  `RepliesAccountedFor` bounds the duplicates and does not forbid them.
- `EndsUnlessBlocked`: each command ends. The exceptions are named: workers of
  `gh label clone` that have left after an error, or of `gh status` after an error or one
  "not found" each, while there is more to hand out; and post-create steps or runs that
  never end. Deadlock is not checked for that reason.

The bounds: two workers (the code has five, ten and ten) make the limit matter and let
one fail while another is in a request; three labels, assets and reviews let something
remain to be handed out, deleted or found on a later page; four notifications on three
pages; two runs of the download, two repetitions of requests, two shutdowns, two ports
with two updates and one by somebody else, two post-create steps, two codespaces, two
owners of which one has a usable asset, two versions, two commands in a row where
several follow, two commits, two jobs, three releases of one tag, two values with two
changes. Each is the least with which what its module calls hard happens; every mutant
that `PROJECT.json` lists is found within them.

**`label_clone_hang`** finds the first of these exceptions: a label is refused, the workers
leave, and `cloneLabels` waits for ever for somebody to receive the next one; the test for
a failing creation, which has a single label, expects the error.

**`port_timeout`** finds that an update of a port whose thirty seconds end after the
deletion is reported as a success, with the port gone.

**`forced_upgrade`** finds that `gh extension upgrade --force` of a clone resets it to what
`origin/HEAD` was before, since `git fetch origin HEAD` moves no tracking branch, and that
the extension is then said to have the new version.

**`pr_create_default`** finds that `gh pr create`, after forking, marks a remote called
`upstream` as the default that it did not create and that is for another repository.

## Fairness

Safety properties assume none. The liveness properties assume weak fairness of
the command's own steps: the Go scheduler runs every goroutine that can run, and a
request is answered or given up by the HTTP client, so no step waits for ever. In
`Commands` that is `WF_own(Command)`, where `own` are the variables of the command that
runs, and `WF_own(Time)` for the two loops that end with a time limit. Two pools say more in
their own modules, where each worker's step is fair by itself, since goroutines are
scheduled independently; `EndsUnlessBlocked` needs only the weaker assumption. Nothing
is assumed of late requests, of other users, processes, services and jobs, of failures or
of interruptions: so a failing request is not part of `Command` in `CodespaceCreate`, where it
would otherwise end a polling that nothing else ends. Backoff is bounded in the code
by the number of retries, and so are they in the models (`MaxRetries`), by value and not
by fairness. `AuthConfig`, `MultiAccountMigration` and `CloneCommands` have no liveness
property: those commands are a straight line.

## What is proved

All theorems hold for any constants that satisfy the assumptions in the modules:
`AccountAssumption` (empty names are no names, each token has one owner, finitely
many accounts), `FaultAssumption`, `UploadAssumption`, `CreateAssumption`, `OthersAssumption` (types of the
fault sets and bounds, finitely many files, at least one worker), `CommandsAssumption` (the same for the bounds of
`Commands`), `CloneAssumption`, and the types of the migration's constants. None limits the number of processes,
hosts, accounts, files, workers, ports, reviews or repetitions.

**`AuthConfigProofs`**: `TypeCorrect`, `StoreConsistent`, `TokensStayWithOwners`,
`ActiveUserAlwaysListed`, `HostTokenAlwaysUserToken`. What is stored came from some process's copy, so
the properties of the stored section are not inductive. The invariant `IInv` has for the
shared state that every token belongs to the account it is under, late requests
included, and that the section is settled; and for every process, by its `pc`, what
its copy and local variables satisfy: settled where it may be written, with no host
token in the middle of `activateUser`, and with a token in hand that belongs to the account
being activated. `OneProcess` reduces a step to the process that takes it: if the others'
state and the shared part are as the lemma says, one local fact remains. There is one
lemma per action. The five properties follow from `IInv`.

`ActiveAccountKeepsToken` and `ReadersImplementView` are about one command after another
(`Procs = {p}`; with two at once neither holds) as long as keyring calls are refused at
most. `ReadersInv` adds to `IInv` what the only process has still to do, by its `pc` (`CalmOK`):
`Keeps` and `Backed` say where the active account's token is, or that the active slot has no
other account's, and are due again wherever the command may stop; `Leads` says how the
section that will be written differs from the stored one, by one step of `AccountView`. Each
lemma `Calm...` shows of one action that it keeps this and is a step of `AccountView`, written
out in `ViewStep`, or none (`Shows`). The refinement is complete: `AccountView` states no fairness.

**`AssetUploadProofs`**: the lemmas about workers that both release commands need, with
the limit on their number by cardinality (`WithinLimit`), and a rank, a natural number made
of the retries a worker has left and of its place, which each of its steps lowers
(`WorkAdvances`).

**`ReleaseUploadProofs`**: `TypeCorrect`, `SuccessIsStored`, `OthersKeepTheirs`, `LossIsLimited`,
`UploadsComeToAnEnd`. Besides types the
invariant says that a worker that is done has its asset stored under its name, as has
every worker of a command that succeeded (`StoredInv`), and that a deletion is under way,
or still to be served, only with `--clobber` and once the release was fetched
(`DeletionInv`). For `LossIsLimited` it is not enough to count the missing assets: those whose
deletion has been sent and not answered, or is still to be served, count too (`AtRisk`).
While no worker has failed each of them belongs to a running worker, whose number is
limited; from then on nothing new comes to be at risk, because requests of a cancelled
context are not sent (`LossInv`). `UploadsComeToAnEnd` is what of termination needs no fairness: no worker
goes on for ever, since each step of one lowers its rank and no step of anybody raises one.
That each does take its next step is left to `Terminates`.

**`ReleaseCreateProofs`**: `TypeCorrect`, `NeverPublishedIncomplete`, `SuccessIsFinal`, `FailureIsClean`,
`ImplementsReleaseView`, `CommandComesToAnEnd`. `PublishedComplete` alone is not inductive: a call served late may
publish. The invariant relates the phase of the command to the workers
(`WorkersInv`, `PhaseInv`) and to the calls that may be outstanding (`CallsInv`: a late
publishing exists only if everything was stored). `FailureIsClean` says that a command
that fails leaves no release, for a server that answers every call for the
release, whatever happens to the uploads; a lost answer to the creation would
leave one. `ImplementsReleaseView` is the safety part of the refinement: initial states
map to initial states, steps to steps or stuttering. `CommandComesToAnEnd` is to the command
what `UploadsComeToAnEnd` is to the workers.

**`MigrationProofs`**: `TypeCorrect`, `AllOrNothing`, `VersionIsTrue`, `NoHostLost`,
`OldVersionsKeepTokens`, for any number of hosts and processes. None of the properties is
inductive: what a process writes was prepared while others wrote. Two things never
change, the plain-text token of a host and the keyring's entry under the empty
name, and with them the token that the host has; all that is ever stored by
account is that token under its owner's name. So a host that is migrated in somebody's
copy remains so whatever the others do (`Evolves`, and `Interfere`), and `IInv` may say of each
process, by its `pc`, how far its copy is; `OneProcess` reduces a step to the process
that takes it.

**`CloneProofs`**: `TypeCorrect`, `ConfigurationIsWhole`, `NothingIsLost`, `DeletedOnlyMerged`,
`SyncFastForwards`, `SyncMakesEqual`, `CheckoutDelivers`, for any number of commits and commands, and
whatever the user and the others do in between. `IInv` has for `gh repo sync` that `FETCH_HEAD` is
still what was fetched and how the branch compares with it (`SyncInv`), for `gh pr merge` that
what is to be deleted was merged, unless it only waits to be (`MergeInv`), and for
`gh pr checkout` which queues of git commands may be left and what is true by then (`QueueInv`).
That HEAD is on a branch that exists (`HeadInv`) and that `refs/pull` follows its branch until
the merge (`PullInv`) is what keeps commits reachable. One lemma per action (`...Keeps`) shows that
it keeps every part. `NothingLost` is then shown per action (`...Loses`), most of which let the
clone and GitHub only grow (`CloneGrows`, `HubGrows`). The proof needs `MaxCommits > 0`, since
the pull request has a commit from the start; `CloneAssumption` says so.

**`MachineCommandsProofs`** and **`CommandsProofs`**: the fourteen commands of `Commands`, those that
leave something on a machine and those that leave something on GitHub. Of each there is an
invariant of named parts, an `Init` and a `Next` lemma with one lemma per action below it, and
a `Properties` lemma from which `CommandsProofs` has its theorems, since the command that runs
keeps its own invariant and gh runs one (`IInv`, `Invariance`): `TypeCorrect`, `SuccessIsDone`,
`NothingUndone` (for `ExistingKept`), `TypedInputKept`, `StartedOnce`, `NoPortLost`, `UpdateStateOwn`,
`RepliesAccounted`, `SubmittedOnlyIfAsked`, `SubmittedFirst`, `NotFoundTrue`. The parts that carry them:

- the pools: the numbers of waiting, working and returned workers add up to all of them
  (`WorkersInv`); what was handed over is in somebody's hand or answered, once (`HandedInv`,
  `MentionsInv`); a file that was there is not opened (`OpenedInv`);
- replies: past the first reply gh only gets with the flag (`FlagInv`), and what is in
  `pendingIDs` is the user's, what has been counted is submitted (`SubmitInv`);
- connections: a start that is on its way, because gh has seen a shutdown or is bound to
  see one, has a shutdown of its own to pay for it (`StartDue`);
- ports: which of the requests find the port at hand deleted, and that what it would be
  restored to is a visibility it had or was asked to have (`CurrentPortInv`); late requests
  belong to updates that ran out of time (`PortLateInv`), so all others stay as they were last
  asked to be (`PortOthersInv`, `DoneInv`);
- creation and deletion of codespaces: a second one is never requested (`CreatedInv`), and what
  is chosen was asked for (`ChosenInv`);
- key pairs: the files of the old names are of one pair, and not of an automatic one
  (`OldInv`); until something is damaged, the only moments in which the halves differ are
  those between two renamings or two creations (`MatchInv`);
- extensions: what each step of an installation or upgrade may find in the directory
  (`StageInv`, `ManifestInv`), and that a check which met no change is of what is installed
  (`CheckInv`);
- pull requests: what is known of the remotes is not more than was pushed (`RefsInv`), and what
  each step has still to do with it (`PlanInv`);
- runs: which jobs are in the cache of which (`CacheInv`), all but the `early` ones;
- lookups: as long as there was no gap, what neither has seen is still to be seen by the other
  (`LookupInv`), and a deleted release never comes back (`FoundInv`);
- edits: until it is sent an edit is of what was read, but for what others have touched
  (`FreshInv`), and each request that is served does its part (`SentInv`, `ServedInv`).

Only checked: liveness, which the prover cannot reason about, that is `Terminates`,
`EndsUnlessBlocked` and the fairness part of `KeepsReleaseView`, beyond the ranks above; and the five statements that
do not hold. Of the action properties and invariants none is left.

## Noted while modelling

- Two concurrent commands lose one of two updates of `hosts.yml`. Nothing says
  otherwise; the invariants say that what is left is well-formed.
- `hosts.yml` and `config.yml` are written one after the other; a kill in between makes the
  migration run again on migrated hosts, which the model shows to be harmless.
- If the answer to the publishing call of `gh release create` is lost, the release is
  public, and the cleanup of the "draft" then deletes it: `ReleaseView` has `Withdraw` for
  that, and the command fails.
- `--auto-submit-pending` is described as submitting before the reply; the code submits
  only if the reply is refused.
- `gh repo sync` and `gh pr checkout` read `FETCH_HEAD` after their fetch; an editor that fetches in the
  background in between makes them use another branch's commit
  (`pkg/cmd/repo/sync/sync.go:228`, `git.go:27`).
- Input typed for `gh pr create` is saved when an error is assigned to `err`; the errors of
  `submitPR` are returned without being assigned, so then it is lost (`create.go:508`, `586`).
  What was written with `--editor` is not saved whatever fails: the function that saves it is
  deferred on the way of the prompts only (`create.go:491`). The model has the prompts alone.
- `gh issue create` whose project update fails does not print the URL of the issue that exists
  by then, and offers to recover the input.
- In a clone `gh repo fork` does not mark `upstream` as the default, where the help says so.
- `gh pr merge --delete-branch` and others ask `git show-ref --verify` for several refs, which stops at
  the first that is missing.
- A changed port comes back as `http` if it was forwarded as `https`; a deletion that is served
  and not answered leaves the port deleted (excused in `PortsKept`).
- `gh extension upgrade --all` without a network says that all is up to date.
- `gh extension install --force` of a name that is taken upgrades whatever is installed, and
  ignores the owner and `--pin` (`pkg/cmd/extension/command.go:377`).
- Between the last check of a download and the opening, which truncates, another process
  may create a file and lose it; and a file left half-written by a kill is taken for complete
  by `--skip-existing` (`pkg/cmd/release/download/download.go:404`, `414`).
- `gh release upload --clobber` that fails in between leaves neither asset (`shared/upload.go:147`).
- A release that is published between the two requests of a lookup is not found.
  `--cleanup-tag` deletes the tag by its name, also if a newer release has it by then.
- An interactive edit of labels adds those again that somebody has removed meanwhile, and
  assignees are replaced from what was read; the comment on avoiding races in
  `editable_http.go` holds for flags. Removing an issue from a project that it is not in fails.
- `gh run watch` caches the annotations of a job that had not started, and those of later jobs
  with them, so some annotations are never shown (`watch.go:233`; excused by `early`).
- With `-i ~/.ssh/codespaces.auto`, which the configuration that `gh codespace ssh --config`
  prints always leads to, an old pair `codespaces`, `codespaces.pub` is renamed to the automatic
  names without a look at whether there is an automatic pair (`ssh.go:341`, `448`, `454`): its
  private key is lost, without any fault. If gh is killed between the two renamings the
  halves left are of two pairs, and the next command takes them for one. `KeepsExisting` and
  `SuccessMeansPair` in `SshKeys` have this as their exception. The same happens without `-i` to
  an automatic private key that has no public half.
- A check for updates of an extension that ends after the extension has been replaced is taken
  for one of the new extension for a day (`stale` in `Extensions`).
- Two commands that make or rename the ssh key pair at once can leave halves of different
  pairs, as does an `ssh-keygen` that is killed; nothing repairs them.
