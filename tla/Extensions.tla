----------------------------- MODULE Extensions -----------------------------
(***************************************************************************)
(* The extension manager: what gh extension install, upgrade and remove do *)
(* with the directory of one extension name, for which there are           *)
(* repositories of several owners.  A repository with a release is a       *)
(* binary extension, known by the manifest that is written last; others    *)
(* are cloned.  Commands fail and are killed at every step, and a check    *)
(* for updates, of an extension that runs meanwhile, writes its result to  *)
(* a directory of the same name.                                           *)
(***************************************************************************)
EXTENDS Naturals

CONSTANTS
  Owners,
  Usable,       \* those whose releases have an asset for this platform
  MaxVersion,   \* releases and commits of a repository
  MaxCommands,
  Faults        \* a subset of {"request", "file", "killed"}

Versions == 1 .. MaxVersion
Broken   == MaxVersion + 1     \* a file that was truncated

NoManifest == [owner |-> "none", tag |-> 0, pinned |-> FALSE]
Torn       == [owner |-> "torn", tag |-> 0, pinned |-> FALSE]
NoClone    == [owner |-> "none", commit |-> 0, tracked |-> 0, detached |-> FALSE, pin |-> 0]
Nothing    == [made |-> FALSE, local |-> FALSE, binary |-> 0,
               manifest |-> NoManifest, clone |-> NoClone]

VARIABLES
  head,      \* of each owner: the commit of the default branch
  releasing, \* the owners with releases, of each commit
  dir,       \* what is installed
  stateOf,   \* whose extension the update state is of, or "none"
  checking,  \* whose extension is being checked for an update, or "none"
  late,      \* that check has met with a change of what is installed
  stale,     \* the update state is of such a check
  op,        \* "install", "local", "upgrade", "remove" or "none"
  who,       \* the owner given to install; then the one of the repository
  pinTo,     \* --pin: a version, or 0
  version,   \* the version that is being installed
  force,     \* --force
  pc,        \* the next step, or "done"
  outcome,   \* "none", "ok", "kept", "up_to_date", "error" or "killed"
  protected, \* what was installed is not to be changed by the command
  count      \* commands so far

remote  == <<head, releasing>>
checker == <<stateOf, checking, late, stale>>
command == <<op, who, pinTo, version, force, protected, count>>
vars    == <<remote, checker, command, dir, pc, outcome>>

-----------------------------------------------------------------------------
(* Extension: what list and the accessors read. *)

\* The latest release of an owner, or 0.
Latest(o) == IF o \in releasing THEN head[o] ELSE 0

Listed   == dir.made \/ dir.local
IsBinary == dir.made /\ dir.manifest.owner # "none"

Owner == CASE dir.local -> "none"
           [] IsBinary  -> dir.manifest.owner
           [] OTHER     -> dir.clone.owner

CurrentVersion == IF IsBinary THEN dir.manifest.tag ELSE dir.clone.commit

LatestVersion == IF Owner \notin Owners THEN 0
                 ELSE IF IsBinary THEN Latest(Owner) ELSE head[Owner]

IsPinned == \/ IsBinary /\ dir.manifest.pinned
            \/ ~IsBinary /\ dir.clone.commit # 0 /\ dir.clone.pin = dir.clone.commit

UpdateAvailable == CurrentVersion # 0 /\ CurrentVersion # LatestVersion

BinaryOf(o, v, p) ==
  [Nothing EXCEPT !.made = TRUE, !.binary = v,
                  !.manifest = [owner |-> o, tag |-> v, pinned |-> p]]

\* tracked: what origin/HEAD is known to be in the clone.
CloneOf(o, v, p) ==
  [Nothing EXCEPT !.made = TRUE,
                  !.clone = [owner |-> o, commit |-> v, tracked |-> v, detached |-> p,
                             pin |-> IF p THEN v ELSE 0]]

-----------------------------------------------------------------------------

Init ==
  /\ releasing \in SUBSET Owners
  /\ head = [o \in Owners |-> 1]
  /\ dir \in {Nothing, [Nothing EXCEPT !.local = TRUE]}
             \cup {BinaryOf(o, 1, p) : o \in releasing, p \in BOOLEAN}
             \cup {CloneOf(o, 1, p) : o \in Owners, p \in BOOLEAN}
  /\ stateOf \in {"none", Owner}
  /\ checking = "none" /\ late = FALSE /\ stale = FALSE
  /\ op = "none" /\ who = "none" /\ pinTo = 0 /\ version = 0 /\ force = FALSE
  /\ pc = "done" /\ outcome = "none" /\ protected = FALSE
  /\ count = 0

\* What is installed is changed only by remove and upgrade; what is pinned by
\* upgrade only with --force, and what is local not at all.
Protects(o, f) == \/ o = "local" /\ Listed
                  \/ o \in {"install", "upgrade"} /\ dir.local
                  \/ o = "install" /\ Listed /\ ~f
                  \/ o = "upgrade" /\ IsPinned /\ ~f

Begin ==
  /\ pc = "done"
  /\ count < MaxCommands
  /\ count' = count + 1
  /\ op' \in {"install", "local", "upgrade", "remove"}
  /\ who' \in IF op' = "install" THEN Owners ELSE {"none"}
  /\ pinTo' \in IF op' = "install" THEN 0 .. MaxVersion ELSE {0}
  /\ force' \in IF op' \in {"install", "upgrade"} THEN BOOLEAN ELSE {FALSE}
  /\ pc' = op'
  /\ outcome' = "none" /\ protected' = Protects(op', force') /\ version' = 0
  /\ UNCHANGED <<remote, checker, dir>>

Return(o) == pc' = "done" /\ outcome' = o
GoTo(s)   == pc' = s /\ UNCHANGED outcome

Reads == UNCHANGED <<remote, checker, dir>>

\* checkValidExtension: a name that is taken is upgraded with --force, whoever
\* its owner is, and --pin is ignored; else it is an error, unless it is the
\* extension that was asked for.
CheckValid ==
  /\ pc \in {"install", "local"}
  /\ Reads
  /\ CASE ~Listed                          -> GoTo(IF op = "local" THEN "link" ELSE "repository")
       [] Listed /\ force                  -> GoTo("upgrade")
       [] Listed /\ ~force                 ->
            Return(IF who # "none" /\ Owner = who THEN "kept" ELSE "error")
  /\ op' = IF pc' = "upgrade" THEN "upgrade" ELSE op
  /\ pinTo' = IF pc' = "upgrade" THEN 0 ELSE pinTo
  /\ UNCHANGED <<who, version, force, protected, count>>

\* cleanExtensionUpdateDir.
Clean == /\ stateOf' = "none" /\ stale' = FALSE
         /\ late' = (checking # "none")
         /\ UNCHANGED checking

\* InstallLocal.
Link ==
  /\ pc = "link"
  /\ dir' = [Nothing EXCEPT !.local = TRUE]
  /\ Clean
  /\ Return("ok")
  /\ UNCHANGED <<remote, command>>

\* Install: isBinExtension looks at the assets for all platforms.
Repository ==
  /\ pc = "repository"
  /\ Reads
  /\ GoTo(IF Latest(who) # 0 THEN "release" ELSE "commit")
  /\ UNCHANGED command

\* What is installed is the given version, or the latest there is.
Choose(latest) == version' = IF pinTo = 0 THEN latest ELSE pinTo

\* installBin: the release, and its asset for this platform.
Release ==
  /\ pc = "release"
  /\ Reads
  /\ Choose(Latest(who))
  /\ IF who \in Usable /\ pinTo <= Latest(who) THEN GoTo("prepare") ELSE Return("error")
  /\ UNCHANGED <<op, who, pinTo, force, protected, count>>

Prepare ==
  /\ pc = "prepare"
  /\ Clean
  /\ dir' = [dir EXCEPT !.made = TRUE]
  /\ GoTo("open")
  /\ UNCHANGED <<remote, command>>

Writes == UNCHANGED <<remote, checker, command>>

\* downloadAsset: the request has been answered; the file is truncated.
OpenBinary ==
  /\ pc = "open"
  /\ dir' = [dir EXCEPT !.binary = Broken]
  /\ GoTo("copy")
  /\ Writes

CopyBinary ==
  /\ pc = "copy"
  /\ dir' = [dir EXCEPT !.binary = version]
  /\ GoTo("open_manifest")
  /\ Writes

OpenManifest ==
  /\ pc = "open_manifest"
  /\ dir' = [dir EXCEPT !.manifest = Torn]
  /\ GoTo("write_manifest")
  /\ Writes

WriteManifest ==
  /\ pc = "write_manifest"
  /\ dir' = [dir EXCEPT !.manifest = [owner |-> who, tag |-> version, pinned |-> pinTo # 0]]
  /\ Return("ok")
  /\ Writes

\* Slip: the manifest comes first, and the binary last.
ManifestFirst ==
  \/ /\ pc = "open"
     /\ dir' = [dir EXCEPT !.manifest = [owner |-> who, tag |-> version, pinned |-> pinTo # 0]]
     /\ GoTo("copy")
     /\ Writes
  \/ /\ pc = "copy"
     /\ dir' = [dir EXCEPT !.binary = Broken]
     /\ GoTo("write_manifest")
     /\ Writes
  \/ /\ pc = "write_manifest"
     /\ dir' = [dir EXCEPT !.binary = version]
     /\ Return("ok")
     /\ Writes

InstallBinary == OpenBinary \/ CopyBinary \/ OpenManifest \/ WriteManifest

\* installGit: the repository has a script, and the commit exists.
Commit ==
  /\ pc = "commit"
  /\ IF pinTo <= head[who]
     THEN Clean /\ GoTo("clone")
     ELSE Return("error") /\ UNCHANGED checker
  /\ UNCHANGED <<remote, command, dir>>

Clone ==
  /\ pc = "clone"
  /\ dir' = CloneOf(who, head[who], FALSE)
  /\ IF pinTo = 0 THEN Return("ok") ELSE GoTo("checkout")
  /\ Writes

CheckoutCommit ==
  /\ pc = "checkout"
  /\ dir' = [dir EXCEPT !.clone.commit = pinTo, !.clone.detached = TRUE]
  /\ GoTo("pin")
  /\ Writes

Pin ==
  /\ pc = "pin"
  /\ dir' = [dir EXCEPT !.clone.pin = pinTo]
  /\ Return("ok")
  /\ Writes

\* Slip: a pinned extension is upgraded like any other.
UpgradePinned ==
  /\ pc = "upgrade"
  /\ Reads
  /\ IF LatestVersion = 0 THEN Return("error") ELSE
     IF ~UpdateAvailable THEN Return("up_to_date") ELSE
     IF IsBinary THEN GoTo("release") ELSE
     GoTo(IF Latest(Owner) # 0 THEN "migrate" ELSE IF force THEN "reset" ELSE "pull")
  /\ who' = IF Owner \in Owners THEN Owner ELSE who
  /\ version' = LatestVersion
  /\ UNCHANGED <<op, pinTo, force, protected, count>>

\* upgradeExtension, after the latest version was retrieved.  An error of the
\* check whether a clone has become a binary extension is ignored.
Upgrade ==
  /\ pc = "upgrade"
  /\ Reads
  /\ CASE LatestVersion = 0   -> Return("error")
       [] LatestVersion # 0 /\ IsPinned /\ ~force -> Return("kept")
       [] LatestVersion # 0 /\ ~(IsPinned /\ ~force) /\ ~UpdateAvailable
                               -> Return("up_to_date")
       [] OTHER -> \/ IsBinary /\ GoTo("release")
                   \/ ~IsBinary /\ Latest(Owner) # 0 /\ GoTo("migrate")
                   \/ /\ ~IsBinary
                      /\ Latest(Owner) = 0 \/ "request" \in Faults
                      /\ GoTo(IF force THEN "reset" ELSE "pull")
  /\ who' = IF Owner \in Owners THEN Owner ELSE who
  /\ version' = LatestVersion
  /\ UNCHANGED <<op, pinTo, force, protected, count>>

\* git pull needs a branch.
PullClone ==
  /\ pc = "pull"
  /\ IF dir.clone.detached
     THEN Return("error") /\ UNCHANGED dir
     ELSE /\ dir' = [dir EXCEPT !.clone.commit = head[who], !.clone.tracked = head[who]]
          /\ Return("ok")
  /\ Writes

\* git fetch origin HEAD, which git stores in FETCH_HEAD alone, and git reset
\* --hard origin/HEAD, which is what it was.
ResetClone ==
  /\ pc = "reset"
  /\ dir' = [dir EXCEPT !.clone.commit = dir.clone.tracked]
  /\ Return("ok")
  /\ Writes

\* Slip: the update state is left.
RemoveFilesOnly ==
  /\ pc \in {"remove", "migrate"}
  /\ IF ~Listed THEN Return("error") /\ UNCHANGED dir
     ELSE /\ dir' \in {[dir EXCEPT !.binary = 0], [dir EXCEPT !.manifest = NoManifest],
                        [dir EXCEPT !.clone = NoClone]}
          /\ GoTo(IF pc = "remove" THEN "remove_rest" ELSE "migrate_rest")
  /\ UNCHANGED <<remote, checker, command>>

\* Remove: files are removed one by one, in an order of the file system's.
Remove ==
  /\ pc \in {"remove", "migrate"}
  /\ IF ~Listed THEN Return("error") /\ UNCHANGED <<dir, checker>>
     ELSE /\ Clean
          /\ dir' \in {[dir EXCEPT !.binary = 0], [dir EXCEPT !.manifest = NoManifest],
                        [dir EXCEPT !.clone = NoClone]}
          /\ GoTo(IF pc = "remove" THEN "remove_rest" ELSE "migrate_rest")
  /\ UNCHANGED <<remote, command>>

RemoveRest ==
  /\ pc \in {"remove_rest", "migrate_rest"}
  /\ dir' = Nothing
  /\ IF pc = "remove_rest" THEN Return("ok") ELSE GoTo("release")
  /\ Writes

\* What is done up to here stays; git removes a clone that fails.
Fails ==
  /\ pc # "done"
  /\ \/ /\ "request" \in Faults
        /\ pc \in {"repository", "release", "open", "copy", "commit", "clone", "upgrade",
                  "pull", "reset"}
     \/ /\ "file" \in Faults
        /\ pc \notin {"install", "local", "repository", "release", "commit", "upgrade"}
  /\ Return("error")
  /\ UNCHANGED <<remote, checker, command, dir>>

Killed ==
  /\ "killed" \in Faults
  /\ pc # "done"
  /\ Return("killed")
  /\ dir' \in {dir} \cup (IF pc = "clone" THEN {[dir EXCEPT !.made = TRUE]} ELSE {})
  /\ Writes

Command ==
  \/ CheckValid \/ Link
  \/ Repository \/ Release \/ Prepare \/ InstallBinary
  \/ Commit \/ Clone \/ CheckoutCommit \/ Pin
  \/ Upgrade \/ PullClone \/ ResetClone
  \/ Remove \/ RemoveRest
  \/ Fails

-----------------------------------------------------------------------------
(* Others: the extension runs, and its owners go on. *)

Idle == UNCHANGED <<command, pc, outcome, dir>>

\* CheckForExtensionUpdate, by the process that runs the extension, when no
\* recent check is known.  gh does not wait for it when the extension ends.
CheckBegins ==
  /\ checking = "none" /\ stateOf = "none" /\ Listed /\ ~dir.local
  /\ checking' = Owner
  /\ late' = (pc # "done")
  /\ UNCHANGED <<remote, stateOf, stale>> /\ Idle

CheckEnds ==
  /\ checking # "none"
  /\ \/ stateOf' = checking /\ stale' = late
     \/ UNCHANGED <<stateOf, stale>>
  /\ checking' = "none" /\ late' = FALSE
  /\ UNCHANGED remote /\ Idle

Publish ==
  /\ count < MaxCommands \/ pc # "done"
  /\ \E o \in Owners :
       \/ head[o] < MaxVersion /\ head' = [head EXCEPT ![o] = @ + 1] /\ UNCHANGED releasing
       \/ releasing' = releasing \cup {o} /\ UNCHANGED head
  /\ UNCHANGED checker /\ Idle

Stop == pc = "done" /\ count = MaxCommands /\ UNCHANGED vars

Next == Begin \/ Command \/ Killed \/ CheckBegins \/ CheckEnds \/ Publish \/ Stop

\* gh runs, and its requests are answered or given up.
Spec == Init /\ [][Next]_vars /\ WF_vars(Command)

-----------------------------------------------------------------------------
(* Properties. *)

Manifests == [owner : Owners \cup {"none", "torn"}, tag : 0 .. MaxVersion, pinned : BOOLEAN]

Clones == [owner : Owners \cup {"none"}, commit : 0 .. MaxVersion,
           tracked : 0 .. MaxVersion, detached : BOOLEAN, pin : 0 .. MaxVersion]

Dirs == [made : BOOLEAN, local : BOOLEAN, binary : 0 .. Broken,
         manifest : Manifests, clone : Clones]

\* Types; and a directory holds a clone or a binary, never both.
TypeOK ==
  /\ head \in [Owners -> Versions] /\ releasing \subseteq Owners
  /\ dir \in Dirs
  /\ dir.local => ~dir.made
  /\ dir.clone # NoClone => dir.binary = 0 /\ dir.manifest = NoManifest
  /\ {stateOf, checking} \subseteq Owners \cup {"none", "torn"}
  /\ op \in {"none", "install", "local", "upgrade", "remove"}
  /\ who \in Owners \cup {"none"}
  /\ pinTo \in 0 .. MaxVersion /\ version \in 0 .. MaxVersion
  /\ {late, stale, force, protected} \subseteq BOOLEAN
  /\ outcome \in {"none", "ok", "kept", "up_to_date", "error", "killed"}
  /\ count \in 0 .. MaxCommands

Whole == \/ dir.local
         \/ IsBinary /\ dir.binary = dir.manifest.tag
         \/ dir.clone.commit # 0

\* Success means that the extension is there to be run, from the repository
\* and of the version that were asked for, and is pinned if it was to be.
\* And an extension that is said to be up to date has no truncated or older
\* file, whatever was interrupted; an interrupted remove may have taken it.
SuccessMeansInstalled ==
  /\ outcome = "ok" =>
       CASE op = "remove"  -> dir = Nothing
         [] op = "local"   -> dir.local
         [] op = "upgrade" -> /\ Whole /\ Owner = who
                              /\ IsBinary \/ ~force => CurrentVersion >= version
         [] op = "install" -> /\ Whole /\ Owner = who
                              /\ IsPinned = (pinTo # 0)
                              /\ pinTo # 0 => CurrentVersion = pinTo
  /\ outcome = "up_to_date" => \/ dir.clone.commit # 0
                               \/ IsBinary /\ dir.binary \in {0, dir.manifest.tag}

\* An extension that is said to be upgraded is not older than the latest
\* version that was found.
UpgradedMeansLatest == op = "upgrade" /\ outcome = "ok" => CurrentVersion >= version

\* An extension that is installed is changed only by remove and upgrade; one
\* that is pinned by upgrade only with --force, and a local one not at all.
KeepsExisting == protected /\ count' = count => dir' = dir

\* The update state is never that of an extension of another owner which had
\* the name before, unless that one is running still, and its check ends late.
UpdateStateIsOwn == stateOf # "none" /\ ~stale => stateOf = Owner

AtRest == pc = "done"

=============================================================================
