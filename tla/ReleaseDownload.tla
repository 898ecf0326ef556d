--------------------------- MODULE ReleaseDownload ---------------------------
(***************************************************************************)
(* downloadAssets: gh release download hands the assets of a release to    *)
(* Workers goroutines over a channel that holds them all, and waits for a  *)
(* result of each.  An asset is written only where no file exists, unless  *)
(* --clobber or --skip-existing say otherwise; the name of an archive is   *)
(* known only from the answer, so destinationWriter checks it again before *)
(* the file is opened.                                                     *)
(*                                                                         *)
(* The command is run up to Runs times in the same directory, where files  *)
(* of earlier runs are left, and where others may put files meanwhile.     *)
(***************************************************************************)
EXTENDS Naturals, FiniteSets

CONSTANTS
  Assets,   \* assets of the release, each with a file name of its own
  Workers,  \* opts.Concurrency
  Runs,     \* the command is run so often at most
  Faults    \* a subset of {"request", "open", "copy"}: what may fail

Modes == {"plain", "clobber", "skip"}

VARIABLES
  file,      \* "none", "old", "partial" or "whole": what the directory holds
  before,    \* the files there when this run began
  run,       \* runs so far
  mode,      \* of this run
  archive,   \* whether this run downloads an archive, of unknown name
  given,     \* the assets of this run (toDownload)
  job,       \* of each asset: "idle", "queued", its step, or "done"
  result,    \* what its worker has sent: "none", "ok", "skipped" or "error"
  phase      \* "idle", "running", "ok" or "error"

vars == <<file, before, run, mode, archive, given, job, result, phase>>

command == <<before, run, mode, archive, given, phase>>

Running == {a \in given : job[a] \notin {"queued", "done"}}
Exists(a) == file[a] # "none"

-----------------------------------------------------------------------------

Init ==
  /\ file \in [Assets -> {"none", "old"}]
  /\ before = {} /\ given = {}
  /\ run = 0
  /\ mode = "plain" /\ archive = FALSE
  /\ job = [a \in Assets |-> "idle"]
  /\ result = [a \in Assets |-> "none"]
  /\ phase = "idle"

Begin ==
  /\ phase # "running"
  /\ run < Runs
  /\ run' = run + 1
  /\ before' = {a \in Assets : Exists(a)}
  /\ mode' \in Modes
  /\ given' \in SUBSET Assets \ {{}}
  /\ archive' \in IF Cardinality(given') = 1 THEN BOOLEAN ELSE {FALSE}
  /\ job' = [a \in Assets |-> IF a \in given' THEN "queued" ELSE "idle"]
  /\ result' = [a \in Assets |-> "none"]
  /\ phase' = "running"
  /\ UNCHANGED file

Step(a, from, to) ==
  /\ job[a] = from
  /\ job' = [job EXCEPT ![a] = to]
  /\ UNCHANGED <<result, command>>

\* results <- err.
Send(a, r) ==
  /\ job' = [job EXCEPT ![a] = "done"]
  /\ result' = [result EXCEPT ![a] = r]
  /\ UNCHANGED command

\* Slip: more goroutines than workers.
TakeAnyTime(a) ==
  /\ Step(a, "queued", IF archive THEN "request" ELSE "check")
  /\ UNCHANGED file

\* A free worker receives a job; Check passes when the name is unknown.
Take(a) ==
  /\ Cardinality(Running) < Workers
  /\ Step(a, "queued", IF archive THEN "request" ELSE "check")
  /\ UNCHANGED file

\* Slip: a worker that skips an asset forgets to send a result.
CheckSilently(a, from, to) ==
  /\ job[a] = from
  /\ UNCHANGED file
  /\ \/ (~Exists(a) \/ mode = "clobber") /\ Step(a, from, to)
     \/ Exists(a) /\ mode = "plain" /\ Send(a, "error")
     \/ Exists(a) /\ mode = "skip" /\ Step(a, from, "done")

\* destinationWriter.check: errSkipped, an error, or go on.
Check(a, from, to) ==
  /\ job[a] = from
  /\ UNCHANGED file
  /\ \/ (~Exists(a) \/ mode = "clobber") /\ Step(a, from, to)
     \/ Exists(a) /\ mode = "plain" /\ Send(a, "error")
     \/ Exists(a) /\ mode = "skip" /\ Send(a, "skipped")

\* Slip: the file of an archive is opened without a check of its name.
RequestThenOpen(a) ==
  /\ job[a] = "request"
  /\ UNCHANGED file
  /\ \/ Step(a, "request", "open")
     \/ "request" \in Faults /\ Send(a, "error")

\* The request for the asset or archive.
Request(a) ==
  /\ job[a] = "request"
  /\ UNCHANGED file
  /\ \/ Step(a, "request", "copy_check")
     \/ "request" \in Faults /\ Send(a, "error")

\* os.OpenFile creates or truncates the file.
Open(a) ==
  /\ job[a] = "open"
  /\ \/ Step(a, "open", "copy") /\ file' = [file EXCEPT ![a] = "partial"]
     \/ "open" \in Faults /\ Send(a, "error") /\ UNCHANGED file

\* Slip: the result is that of the request, not of the copy.
CopyAnyway(a) ==
  /\ job[a] = "copy"
  /\ \/ Send(a, "ok") /\ file' = [file EXCEPT ![a] = "whole"]
     \/ "copy" \in Faults /\ Send(a, "ok") /\ UNCHANGED file

\* io.Copy and Close; what a failed copy has written is left.
Copy(a) ==
  /\ job[a] = "copy"
  /\ \/ Send(a, "ok") /\ file' = [file EXCEPT ![a] = "whole"]
     \/ "copy" \in Faults /\ Send(a, "error") /\ UNCHANGED file

Work(a) ==
  \/ Check(a, "check", "request")
  \/ Request(a)
  \/ Check(a, "copy_check", "open")
  \/ Open(a)
  \/ Copy(a)

\* Every result has been received.
Return ==
  /\ phase = "running"
  /\ \A a \in given : result[a] # "none"
  /\ phase' = IF \E a \in given : result[a] = "error" THEN "error" ELSE "ok"
  /\ UNCHANGED <<file, before, run, mode, archive, given, job, result>>

Command == Return \/ \E a \in Assets : Take(a) \/ Work(a)

\* Somebody else puts a file in the directory, at any time: also between the
\* last check and the opening, which then truncates it.
OtherWrites(a) ==
  /\ run < Runs \/ phase = "running"
  /\ ~Exists(a)
  /\ file' = [file EXCEPT ![a] = "old"]
  /\ UNCHANGED <<job, result, command>>

Ended == run = Runs /\ phase # "running" /\ UNCHANGED vars

Next ==
  \/ Begin \/ Command \/ Ended
  \/ \E a \in Assets : OtherWrites(a)

\* The scheduler runs gh, and a request is answered or given up by the HTTP
\* client.
Spec == Init /\ [][Next]_vars /\ WF_vars(Command)

-----------------------------------------------------------------------------
(* Properties. *)

\* Types; a result is sent by no asset whose worker is still at it; and no
\* more assets are downloaded at a time than there are workers.
TypeOK ==
  /\ file \in [Assets -> {"none", "old", "partial", "whole"}]
  /\ before \subseteq Assets /\ given \subseteq Assets
  /\ run \in 0 .. Runs
  /\ mode \in Modes /\ archive \in BOOLEAN
  /\ job \in [Assets -> {"idle", "queued", "check", "request", "copy_check", "open",
                         "copy", "done"}]
  /\ result \in [Assets -> {"none", "ok", "skipped", "error"}]
  /\ phase \in {"idle", "running", "ok", "error"}
  /\ \A a \in Assets : result[a] # "none" => job[a] = "done"
  /\ Cardinality(Running) <= Workers

\* Success means that every asset is there: downloaded to its last byte by
\* this run or, only with --skip-existing, skipped for a file that exists.
SuccessMeansDownloaded ==
  phase = "ok" =>
    \A a \in given :
      \/ result[a] = "ok" /\ file[a] = "whole"
      \/ result[a] = "skipped" /\ mode = "skip" /\ Exists(a)

\* Without --clobber the command changes no file that was there when it
\* began, whether its name was known from the start or only from the answer.
KeepsExisting ==
  phase = "running" /\ mode # "clobber" => \A a \in before : file'[a] = file[a]

\* Each run ends, whatever its workers meet: every job sends one result.
AtRest == phase # "running"

=============================================================================
