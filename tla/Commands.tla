------------------------------ MODULE Commands ------------------------------
(***************************************************************************)
(* What may be relied on by whoever runs gh from a script: the command     *)
(* ends, and if it reports success everything it was asked for is done.    *)
(* gh runs one command and exits; which one is chosen at the beginning,    *)
(* and the modules' variables of the same name are one variable here.      *)
(* Those that the command does not have are Unused.                        *)
(***************************************************************************)
EXTENDS Naturals, FiniteSets, Sequences

CONSTANTS
  Workers,                               \* goroutines of a command
  Faults,                                \* what may fail, see the modules
  Labels,                                \* LabelClone
  MaxNotes, MaxPages, Answers,           \* StatusMentions
  Assets, Runs,                          \* ReleaseDownload
  MaxReviews, PageSize, MaxRetries,      \* ReviewReply
  MaxStops,                              \* CodespaceConnect
  Ports, MaxUpdates, MaxOthers,          \* PortVisibility
  MaxSteps,                              \* CodespaceCreate
  Codespaces,                            \* CodespaceDelete
  Owners, Usable, MaxVersion,            \* Extensions
  MaxCommands,                           \* and PullRequestCreate, SshKeys
  MaxCommits,                            \* PullRequestCreate
  MaxJobs,                               \* RunWatch
  MaxReleases,                           \* ReleaseDelete
  Values, MaxChanges                     \* IssueEdit

ASSUME CommandsAssumption ==
  /\ Workers \in Nat \ {0}
  /\ IsFiniteSet(Labels) /\ IsFiniteSet(Assets) /\ Runs \in Nat
  /\ MaxNotes \in Nat /\ MaxPages \in Nat \ {0}
  /\ Answers \subseteq {"mention", "other", "forbidden", "not_found", "failed"}
  /\ MaxReviews \in Nat /\ PageSize \in Nat \ {0} /\ MaxRetries \in Nat
  /\ {MaxStops, MaxUpdates, MaxOthers, MaxSteps, MaxCommands, MaxJobs, MaxChanges} \subseteq Nat
  /\ {MaxVersion, MaxCommits, MaxReleases} \subseteq Nat \ {0}
  /\ IsFiniteSet(Ports) /\ IsFiniteSet(Codespaces) /\ IsFiniteSet(Owners)
  /\ IsFiniteSet(Values)
  /\ Usable \subseteq Owners /\ "none" \notin Owners /\ "torn" \notin Owners

VARIABLES
  cmd, phase, count, force, listed, before, pc, unheard, elapsed, late,
  progress, idle, gone,
  dest, cancelled,
  pages, fed, aborted, inHand, mentions,
  given, job,
  file, run, mode, archive, result,
  state, replies, lateReplies, lateSubmits, mine, autoSubmit, attempt, page,
  pendingIDs,
  codespace, accepted, fetched, lastState, wait, starts, stops,
  port, updates, allowed, old, step, restoring, connected, timedOut,
  failedAgain, others,
  permissions, created, provisioned, shown, running, showStatus, optOut, seen,
  breakNext, stopped, tunnel,
  there, unsaved, undecided, confirmed, chosen,
  remote, resolved, pushRemote, tracked, commit, branchAt, forked, canPush,
  proposed, saved, doing, survey, typed, headRepo, how, tries,
  head, releasing, dir, stateOf, checking, stale, op, who, pinTo, version,
  protected, outcome,
  jobStatus, annotated, conclusion, exitStatus, answered, jobs, looked,
  annotations, annotationCache, forbidden, early,
  keyFile, pairs, asked, selected, damaged,
  release, draft, tagOf, made, cleanupTag, lookup, number, found, missed,
  has, touched, field, actors, add, drop, value, requests, errored

pool       == <<progress, idle, gone>>
label      == <<dest, cancelled>>
status     == <<pages, fed, aborted, inHand, mentions>>
selection  == <<given, job>>
download   == <<file, run, mode, archive, result>>
reply      == <<state, replies, lateReplies, lateSubmits, mine, autoSubmit,
                attempt, page, pendingIDs>>
connection == <<codespace, accepted, fetched, lastState, wait, starts, stops>>
ports      == <<port, updates, allowed, old, step, restoring, connected,
                timedOut, failedAgain, others>>
creation   == <<permissions, created, provisioned, shown, running,
                showStatus, optOut, seen, breakNext, stopped, tunnel>>
deletion   == <<there, unsaved, undecided, confirmed, chosen>>
proposal   == <<remote, resolved, pushRemote, tracked, commit, branchAt,
                forked, canPush, proposed, saved, doing, survey, typed,
                headRepo, how, tries>>
extension  == <<head, releasing, dir, stateOf, checking, stale, op, who,
                pinTo, version, protected, outcome>>
watching   == <<jobStatus, annotated, conclusion, exitStatus, answered,
                jobs, looked, annotations, annotationCache, forbidden,
                early>>
sshKeys    == <<keyFile, pairs, asked, selected, damaged>>
erasure    == <<release, draft, tagOf, made, cleanupTag, lookup, number,
                found, missed>>
editing    == <<has, touched, field, actors, add, drop, value, requests,
                errored>>
vars       == <<cmd, phase, count, force, listed, before, pc, unheard,
                elapsed, late, pool, label, status, selection, download,
                reply, connection, ports, creation, deletion, proposal,
                extension, watching, sshKeys, erasure, editing>>

Label      == INSTANCE LabelClone
Status     == INSTANCE StatusMentions
Download   == INSTANCE ReleaseDownload
Reply      == INSTANCE ReviewReply
Connect    == INSTANCE CodespaceConnect
Visibility == INSTANCE PortVisibility
Create     == INSTANCE CodespaceCreate
Delete     == INSTANCE CodespaceDelete
Propose    == INSTANCE PullRequestCreate
Extension  == INSTANCE Extensions
Watch      == INSTANCE RunWatch
Keys       == INSTANCE SshKeys
Erase      == INSTANCE ReleaseDelete
Edit       == INSTANCE IssueEdit

-----------------------------------------------------------------------------
(* The variables of each command; those of the others do not change. *)

labelRest      == <<cmd, listed, before, pc, unheard, elapsed, late, status,
                    selection, download, reply, connection, ports, creation,
                    deletion, proposal, extension, watching, sshKeys,
                    erasure, editing>>
statusRest     == <<cmd, count, force, before, pc, unheard, elapsed, late,
                    label, selection, download, reply, connection, ports,
                    creation, deletion, proposal, extension, watching,
                    sshKeys, erasure, editing>>
downloadRest   == <<cmd, count, force, listed, pc, unheard, elapsed, late,
                    pool, label, status, reply, connection, ports, creation,
                    deletion, proposal, extension, watching, sshKeys,
                    erasure, editing>>
replyRest      == <<cmd, phase, force, listed, before, elapsed, late, pool,
                    label, status, selection, download, connection, ports,
                    creation, deletion, proposal, extension, watching,
                    sshKeys, erasure, editing>>
connectRest    == <<cmd, phase, count, force, listed, before, pc, unheard,
                    late, pool, label, status, selection, download, reply,
                    ports, creation, deletion, proposal, extension,
                    watching, sshKeys, erasure, editing>>
visibilityRest == <<cmd, phase, force, listed, pc, elapsed, pool, label,
                    status, selection, download, reply, connection,
                    creation, deletion, proposal, extension, watching,
                    sshKeys, erasure, editing>>
createRest     == <<cmd, phase, count, force, listed, before, unheard, late,
                    pool, label, status, selection, download, reply,
                    connection, ports, deletion, proposal, extension,
                    watching, sshKeys, erasure, editing>>
deleteRest     == <<cmd, phase, count, before, unheard, elapsed, late, pool,
                    label, status, download, reply, connection, ports,
                    creation, proposal, extension, watching, sshKeys,
                    erasure, editing>>
proposeRest    == <<cmd, phase, force, listed, before, unheard, elapsed,
                    late, pool, label, status, selection, download, reply,
                    connection, ports, creation, deletion, extension,
                    watching, sshKeys, erasure, editing>>
extensionRest  == <<cmd, phase, listed, before, unheard, elapsed, pool,
                    label, status, selection, download, reply, connection,
                    ports, creation, deletion, proposal, watching, sshKeys,
                    erasure, editing>>
watchRest      == <<cmd, phase, count, force, listed, before, unheard,
                    elapsed, late, pool, label, status, selection, download,
                    reply, connection, ports, creation, deletion, proposal,
                    extension, sshKeys, erasure, editing>>
keysRest       == <<cmd, phase, force, listed, before, unheard, elapsed,
                    late, pool, label, status, selection, download, reply,
                    connection, ports, creation, deletion, proposal,
                    extension, watching, erasure, editing>>
eraseRest      == <<cmd, phase, count, force, listed, before, unheard,
                    elapsed, late, pool, label, status, selection, download,
                    reply, connection, ports, creation, deletion, proposal,
                    extension, watching, sshKeys, editing>>
editRest       == <<cmd, phase, force, before, unheard, elapsed, late, pool,
                    label, status, selection, download, reply, connection,
                    ports, creation, deletion, proposal, extension,
                    watching, sshKeys, erasure>>

Unused == "unused"

NoPool ==
  /\ progress = Unused /\ idle = Unused /\ gone = Unused

NoLabel ==
  /\ dest = Unused /\ cancelled = Unused

NoStatus ==
  /\ pages = Unused /\ fed = Unused /\ aborted = Unused /\ inHand = Unused
  /\ mentions = Unused

NoSelection ==
  /\ given = Unused /\ job = Unused

NoDownload ==
  /\ file = Unused /\ run = Unused /\ mode = Unused /\ archive = Unused
  /\ result = Unused

NoReply ==
  /\ state = Unused /\ replies = Unused /\ lateReplies = Unused
  /\ lateSubmits = Unused /\ mine = Unused /\ autoSubmit = Unused
  /\ attempt = Unused /\ page = Unused /\ pendingIDs = Unused

NoConnection ==
  /\ codespace = Unused /\ accepted = Unused /\ fetched = Unused
  /\ lastState = Unused /\ wait = Unused /\ starts = Unused /\ stops = Unused

NoPorts ==
  /\ port = Unused /\ updates = Unused /\ allowed = Unused /\ old = Unused
  /\ step = Unused /\ restoring = Unused /\ connected = Unused
  /\ timedOut = Unused /\ failedAgain = Unused /\ others = Unused

NoCreation ==
  /\ permissions = Unused /\ created = Unused /\ provisioned = Unused
  /\ shown = Unused /\ running = Unused /\ showStatus = Unused
  /\ optOut = Unused /\ seen = Unused /\ breakNext = Unused
  /\ stopped = Unused /\ tunnel = Unused

NoDeletion ==
  /\ there = Unused /\ unsaved = Unused /\ undecided = Unused
  /\ confirmed = Unused /\ chosen = Unused

NoProposal ==
  /\ remote = Unused /\ resolved = Unused /\ pushRemote = Unused
  /\ tracked = Unused /\ commit = Unused /\ branchAt = Unused
  /\ forked = Unused /\ canPush = Unused /\ proposed = Unused
  /\ saved = Unused /\ doing = Unused /\ survey = Unused /\ typed = Unused
  /\ headRepo = Unused /\ how = Unused /\ tries = Unused

NoExtension ==
  /\ head = Unused /\ releasing = Unused /\ dir = Unused /\ stateOf = Unused
  /\ checking = Unused /\ stale = Unused /\ op = Unused /\ who = Unused
  /\ pinTo = Unused /\ version = Unused /\ protected = Unused
  /\ outcome = Unused

NoWatch ==
  /\ jobStatus = Unused /\ annotated = Unused /\ conclusion = Unused
  /\ exitStatus = Unused /\ answered = Unused /\ jobs = Unused
  /\ looked = Unused /\ annotations = Unused /\ annotationCache = Unused
  /\ forbidden = Unused /\ early = Unused

NoKeys ==
  /\ keyFile = Unused /\ pairs = Unused /\ asked = Unused
  /\ selected = Unused /\ damaged = Unused

NoErasure ==
  /\ release = Unused /\ draft = Unused /\ tagOf = Unused
  /\ made = Unused /\ cleanupTag = Unused /\ lookup = Unused
  /\ number = Unused /\ found = Unused /\ missed = Unused

NoEditing ==
  /\ has = Unused /\ touched = Unused /\ field = Unused
  /\ actors = Unused /\ add = Unused /\ drop = Unused /\ value = Unused
  /\ requests = Unused /\ errored = Unused

-----------------------------------------------------------------------------

Init ==
  \/ /\ cmd = "label_clone" /\ Label!Init
     /\ listed = Unused /\ before = Unused /\ pc = Unused
     /\ unheard = Unused /\ elapsed = Unused /\ late = Unused /\ NoStatus
     /\ NoSelection /\ NoDownload /\ NoReply /\ NoConnection /\ NoPorts
     /\ NoCreation /\ NoDeletion /\ NoProposal /\ NoExtension /\ NoWatch
     /\ NoKeys /\ NoErasure /\ NoEditing
  \/ /\ cmd = "status" /\ Status!Init
     /\ count = Unused /\ force = Unused /\ before = Unused /\ pc = Unused
     /\ unheard = Unused /\ elapsed = Unused /\ late = Unused /\ NoLabel
     /\ NoSelection /\ NoDownload /\ NoReply /\ NoConnection /\ NoPorts
     /\ NoCreation /\ NoDeletion /\ NoProposal /\ NoExtension /\ NoWatch
     /\ NoKeys /\ NoErasure /\ NoEditing
  \/ /\ cmd = "release_download" /\ Download!Init
     /\ count = Unused /\ force = Unused /\ listed = Unused /\ pc = Unused
     /\ unheard = Unused /\ elapsed = Unused /\ late = Unused /\ NoPool
     /\ NoLabel /\ NoStatus /\ NoReply /\ NoConnection /\ NoPorts
     /\ NoCreation /\ NoDeletion /\ NoProposal /\ NoExtension /\ NoWatch
     /\ NoKeys /\ NoErasure /\ NoEditing
  \/ /\ cmd = "pr_reply_comment" /\ Reply!Init
     /\ phase = Unused /\ force = Unused /\ listed = Unused
     /\ before = Unused /\ elapsed = Unused /\ late = Unused /\ NoPool
     /\ NoLabel /\ NoStatus /\ NoSelection /\ NoDownload /\ NoConnection
     /\ NoPorts /\ NoCreation /\ NoDeletion /\ NoProposal /\ NoExtension
     /\ NoWatch /\ NoKeys /\ NoErasure /\ NoEditing
  \/ /\ cmd = "codespace_connection" /\ Connect!Init
     /\ phase = Unused /\ count = Unused /\ force = Unused
     /\ listed = Unused /\ before = Unused /\ pc = Unused
     /\ unheard = Unused /\ late = Unused /\ NoPool /\ NoLabel /\ NoStatus
     /\ NoSelection /\ NoDownload /\ NoReply /\ NoPorts /\ NoCreation
     /\ NoDeletion /\ NoProposal /\ NoExtension /\ NoWatch /\ NoKeys
     /\ NoErasure /\ NoEditing
  \/ /\ cmd = "codespace_ports" /\ Visibility!Init
     /\ phase = Unused /\ force = Unused /\ listed = Unused /\ pc = Unused
     /\ elapsed = Unused /\ NoPool /\ NoLabel /\ NoStatus /\ NoSelection
     /\ NoDownload /\ NoReply /\ NoConnection /\ NoCreation /\ NoDeletion
     /\ NoProposal /\ NoExtension /\ NoWatch /\ NoKeys /\ NoErasure
     /\ NoEditing
  \/ /\ cmd = "codespace_create" /\ Create!Init
     /\ phase = Unused /\ count = Unused /\ force = Unused
     /\ listed = Unused /\ before = Unused /\ unheard = Unused
     /\ late = Unused /\ NoPool /\ NoLabel /\ NoStatus /\ NoSelection
     /\ NoDownload /\ NoReply /\ NoConnection /\ NoPorts /\ NoDeletion
     /\ NoProposal /\ NoExtension /\ NoWatch /\ NoKeys /\ NoErasure
     /\ NoEditing
  \/ /\ cmd = "codespace_delete" /\ Delete!Init
     /\ phase = Unused /\ count = Unused /\ before = Unused
     /\ unheard = Unused /\ elapsed = Unused /\ late = Unused /\ NoPool
     /\ NoLabel /\ NoStatus /\ NoDownload /\ NoReply /\ NoConnection
     /\ NoPorts /\ NoCreation /\ NoProposal /\ NoExtension /\ NoWatch
     /\ NoKeys /\ NoErasure /\ NoEditing
  \/ /\ cmd = "pr_create" /\ Propose!Init
     /\ phase = Unused /\ force = Unused /\ listed = Unused
     /\ before = Unused /\ unheard = Unused /\ elapsed = Unused
     /\ late = Unused /\ NoPool /\ NoLabel /\ NoStatus /\ NoSelection
     /\ NoDownload /\ NoReply /\ NoConnection /\ NoPorts /\ NoCreation
     /\ NoDeletion /\ NoExtension /\ NoWatch /\ NoKeys /\ NoErasure
     /\ NoEditing
  \/ /\ cmd = "extension" /\ Extension!Init
     /\ phase = Unused /\ listed = Unused /\ before = Unused
     /\ unheard = Unused /\ elapsed = Unused /\ NoPool /\ NoLabel
     /\ NoStatus /\ NoSelection /\ NoDownload /\ NoReply /\ NoConnection
     /\ NoPorts /\ NoCreation /\ NoDeletion /\ NoProposal /\ NoWatch
     /\ NoKeys /\ NoErasure /\ NoEditing
  \/ /\ cmd = "run_watch" /\ Watch!Init
     /\ phase = Unused /\ count = Unused /\ force = Unused
     /\ listed = Unused /\ before = Unused /\ unheard = Unused
     /\ elapsed = Unused /\ late = Unused /\ NoPool /\ NoLabel /\ NoStatus
     /\ NoSelection /\ NoDownload /\ NoReply /\ NoConnection /\ NoPorts
     /\ NoCreation /\ NoDeletion /\ NoProposal /\ NoExtension /\ NoKeys
     /\ NoErasure /\ NoEditing
  \/ /\ cmd = "codespace_keys" /\ Keys!Init
     /\ phase = Unused /\ force = Unused /\ listed = Unused
     /\ before = Unused /\ unheard = Unused /\ elapsed = Unused
     /\ late = Unused /\ NoPool /\ NoLabel /\ NoStatus /\ NoSelection
     /\ NoDownload /\ NoReply /\ NoConnection /\ NoPorts /\ NoCreation
     /\ NoDeletion /\ NoProposal /\ NoExtension /\ NoWatch /\ NoErasure
     /\ NoEditing
  \/ /\ cmd = "release_delete" /\ Erase!Init
     /\ phase = Unused /\ count = Unused /\ force = Unused
     /\ listed = Unused /\ before = Unused /\ unheard = Unused
     /\ elapsed = Unused /\ late = Unused /\ NoPool /\ NoLabel /\ NoStatus
     /\ NoSelection /\ NoDownload /\ NoReply /\ NoConnection /\ NoPorts
     /\ NoCreation /\ NoDeletion /\ NoProposal /\ NoExtension /\ NoWatch
     /\ NoKeys /\ NoEditing
  \/ /\ cmd = "issue_edit" /\ Edit!Init
     /\ phase = Unused /\ force = Unused /\ before = Unused
     /\ unheard = Unused /\ elapsed = Unused /\ late = Unused /\ NoPool
     /\ NoLabel /\ NoStatus /\ NoSelection /\ NoDownload /\ NoReply
     /\ NoConnection /\ NoPorts /\ NoCreation /\ NoDeletion /\ NoProposal
     /\ NoExtension /\ NoWatch /\ NoKeys /\ NoErasure

LabelStep      == cmd = "label_clone"          /\ UNCHANGED labelRest
StatusStep     == cmd = "status"               /\ UNCHANGED statusRest
DownloadStep   == cmd = "release_download"     /\ UNCHANGED downloadRest
ReplyStep      == cmd = "pr_reply_comment"     /\ UNCHANGED replyRest
ConnectStep    == cmd = "codespace_connection" /\ UNCHANGED connectRest
VisibilityStep == cmd = "codespace_ports"      /\ UNCHANGED visibilityRest
CreateStep     == cmd = "codespace_create"     /\ UNCHANGED createRest
DeleteStep     == cmd = "codespace_delete"     /\ UNCHANGED deleteRest
ProposeStep    == cmd = "pr_create"            /\ UNCHANGED proposeRest
ExtensionStep  == cmd = "extension"            /\ UNCHANGED extensionRest
WatchStep      == cmd = "run_watch"            /\ UNCHANGED watchRest
KeysStep       == cmd = "codespace_keys"       /\ UNCHANGED keysRest
EraseStep      == cmd = "release_delete"       /\ UNCHANGED eraseRest
EditStep       == cmd = "issue_edit"           /\ UNCHANGED editRest

\* The command itself; besides it there are the others on GitHub and in the
\* file system, and time.
Command ==
  \/ LabelStep      /\ Label!Command
  \/ StatusStep     /\ Status!Next
  \/ DownloadStep   /\ Download!Command
  \/ ReplyStep      /\ Reply!Command
  \/ ConnectStep    /\ Connect!Command
  \/ VisibilityStep /\ Visibility!Command
  \/ CreateStep     /\ Create!Command
  \/ DeleteStep     /\ Delete!Command
  \/ ProposeStep    /\ Propose!Command
  \/ ExtensionStep  /\ Extension!Command
  \/ WatchStep      /\ Watch!Command
  \/ KeysStep       /\ Keys!Command
  \/ EraseStep      /\ Erase!Command
  \/ EditStep       /\ Edit!Command

Time ==
  \/ ConnectStep /\ Connect!TimePasses
  \/ CreateStep  /\ Create!TimePasses

Next ==
  \/ LabelStep      /\ Label!Next
  \/ StatusStep     /\ Status!Next
  \/ DownloadStep   /\ Download!Next
  \/ ReplyStep      /\ Reply!Next
  \/ ConnectStep    /\ Connect!Next
  \/ VisibilityStep /\ Visibility!Next
  \/ CreateStep     /\ Create!Next
  \/ DeleteStep     /\ Delete!Next
  \/ ProposeStep    /\ Propose!Next
  \/ ExtensionStep  /\ Extension!Next
  \/ WatchStep      /\ Watch!Next
  \/ KeysStep       /\ Keys!Next
  \/ EraseStep      /\ Erase!Next
  \/ EditStep       /\ Edit!Next

\* The variables of the command that runs.
own ==
  CASE cmd = "label_clone"          -> Label!vars
    [] cmd = "status"               -> Status!vars
    [] cmd = "release_download"     -> Download!vars
    [] cmd = "pr_reply_comment"     -> Reply!vars
    [] cmd = "codespace_connection" -> Connect!vars
    [] cmd = "codespace_ports"      -> Visibility!vars
    [] cmd = "codespace_create"     -> Create!vars
    [] cmd = "codespace_delete"     -> Delete!vars
    [] cmd = "pr_create"            -> Propose!vars
    [] cmd = "extension"            -> Extension!vars
    [] cmd = "run_watch"            -> Watch!vars
    [] cmd = "codespace_keys"       -> Keys!vars
    [] cmd = "release_delete"       -> Erase!vars
    [] cmd = "issue_edit"           -> Edit!vars

\* Goroutines run, a request is answered or given up by the HTTP client, and
\* time passes for who waits with a limit.
Spec == Init /\ [][Next]_vars /\ WF_own(Command) /\ WF_own(Time)

-----------------------------------------------------------------------------

\* Types; no worker is lost or duplicated by a hand-over; no second codespace
\* is created; no repository gets a second remote; a directory is never a clone
\* and a binary extension.
TypeOK ==
  CASE cmd = "label_clone"          -> Label!TypeOK
    [] cmd = "status"               -> Status!TypeOK
    [] cmd = "release_download"     -> Download!TypeOK
    [] cmd = "pr_reply_comment"     -> Reply!TypeOK
    [] cmd = "codespace_connection" -> Connect!TypeOK
    [] cmd = "codespace_ports"      -> Visibility!TypeOK
    [] cmd = "codespace_create"     -> Create!TypeOK
    [] cmd = "codespace_delete"     -> Delete!TypeOK
    [] cmd = "pr_create"            -> Propose!TypeOK
    [] cmd = "extension"            -> Extension!TypeOK
    [] cmd = "run_watch"            -> Watch!TypeOK
    [] cmd = "codespace_keys"       -> Keys!TypeOK
    [] cmd = "release_delete"       -> Erase!TypeOK
    [] cmd = "issue_edit"           -> Edit!TypeOK

\* A command that reports success has done all of it: no label is left out,
\* no mention is missing or out of order, no asset is missing or incomplete,
\* although the workers of each share it and one of them may have failed; the
\* codespace can be connected to, its port is forwarded as asked, it was
\* created once, or it is gone; the pull request has its metadata, and proposes
\* what was committed; the extension is complete, of the repository and
\* version asked for; the screen shows the run as it has ended; the two halves
\* of the key pair belong together, with the exceptions that SshKeys names;
\* the release is gone; the edit has been made.
SuccessMeansDone ==
  CASE cmd = "label_clone"          -> Label!SuccessMeansCloned
    [] cmd = "status"               -> Status!MentionsComplete
    [] cmd = "release_download"     -> Download!SuccessMeansDownloaded
    [] cmd = "pr_reply_comment"     -> pc = "ok" => replies >= 1
    [] cmd = "codespace_connection" -> Connect!SuccessMeansConnected
    [] cmd = "codespace_ports"      -> Visibility!SuccessMeansVisible
    [] cmd = "codespace_create"     -> Create!SuccessMeansCreated
    [] cmd = "codespace_delete"     -> Delete!SuccessMeansDeleted
    [] cmd = "pr_create"            -> Propose!SuccessMeansProposed
    [] cmd = "extension"            -> Extension!SuccessMeansInstalled
    [] cmd = "run_watch"            -> Watch!SuccessMeansShown
    [] cmd = "codespace_keys"       -> Keys!SuccessMeansPair
    [] cmd = "release_delete"       -> Erase!SuccessMeansDeleted
    [] cmd = "issue_edit"           -> Edit!SuccessMeansEdited

\* Without --force and --clobber what was there is left as it was: labels,
\* also those that somebody creates during the command, files, extensions,
\* remotes, and codespaces that were listed with unsaved changes.  No private
\* key is lost, but for the case that SshKeys names, no release deleted but the
\* one found, and no value of an issue changed but those named, with the
\* exceptions that IssueEdit lists.
ExistingKept ==
  [][/\ cmd = "label_clone" => Label!KeepsExisting
     /\ cmd = "release_download" => Download!KeepsExisting
     /\ cmd = "codespace_delete" => Delete!KeepsExisting
     /\ cmd = "pr_create" => Propose!KeepsExisting
     /\ cmd = "extension" => Extension!KeepsExisting
     /\ cmd = "codespace_keys" => Keys!KeepsExisting
     /\ cmd = "release_delete" => Erase!KeepsExisting
     /\ cmd = "issue_edit" => Edit!KeepsExisting]_vars

\* A codespace is started once, see CodespaceConnect.
StartedOncePerStop == cmd = "codespace_connection" => Connect!StartedOncePerStop

\* No port is lost by an update that fails, see PortVisibility.
PortsKept == cmd = "codespace_ports" => Visibility!PortsKept

\* The update state of an extension is its own, see Extensions.
UpdateStateIsOwn == cmd = "extension" => Extension!UpdateStateIsOwn

\* Typed input survives a failure before the submission, see PullRequestCreate.
InputKept == [][cmd = "pr_create" => Propose!InputKept]_vars

\* A reply is posted once for an answer, see ReviewReply.
RepliesAccountedFor == cmd = "pr_reply_comment" => Reply!RepliesAccountedFor

\* Nothing is submitted for the user unasked or unsaid, see ReviewReply.
AutoSubmitTold == cmd = "pr_reply_comment" => Reply!AutoSubmitTold

\* Before the second reply gh itself has submitted all that it found pending,
\* see ReviewReply.
SubmittedBeforeReply == cmd = "pr_reply_comment" => Reply!SubmittedBeforeReply

\* The two lookups of a release together miss none, see ReleaseDelete.
NotFoundIsTrue == cmd = "release_delete" => Erase!NotFoundIsTrue

\* Whatever it meets, each command ends, with three exceptions: that all
\* workers of gh label clone have left after an error, or those of gh status
\* after an error or 404 each, while there is more to hand over; and that a
\* step of a new codespace, or a run that is watched, goes on forever.
EndsUnlessBlocked ==
  []<>CASE cmd = "label_clone"          -> Label!AtRest
        [] cmd = "status"               -> Status!AtRest
        [] cmd = "release_download"     -> Download!AtRest
        [] cmd = "pr_reply_comment"     -> Reply!Ended
        [] cmd = "codespace_connection" -> ~Connect!Waiting
        [] cmd = "codespace_ports"      -> Visibility!Ended
        [] cmd = "codespace_create"     -> Create!AtRest
        [] cmd = "codespace_delete"     -> Delete!Ended
        [] cmd = "pr_create"            -> pc = "idle"
        [] cmd = "extension"            -> Extension!AtRest
        [] cmd = "run_watch"            -> Watch!AtRest
        [] cmd = "codespace_keys"       -> Keys!AtRest
        [] cmd = "release_delete"       -> Erase!Ended
        [] cmd = "issue_edit"           -> Edit!Ended

=============================================================================
