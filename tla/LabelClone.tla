----------------------------- MODULE LabelClone -----------------------------
(***************************************************************************)
(* cloneLabels: gh label clone lists the labels of one repository and      *)
(* creates them in another.  The command hands the labels one by one, over *)
(* an unbuffered channel, to Workers goroutines of an errgroup.  A worker  *)
(* that meets an error returns it, which cancels the context the others    *)
(* select on, but not the command's own sending.                           *)
(*                                                                         *)
(* Workers are alike, so the model counts those that wait for a label      *)
(* (idle) and those that have returned (gone); each label being created or *)
(* edited stands for a busy one.                                           *)
(***************************************************************************)
EXTENDS Naturals, FiniteSets

CONSTANTS
  Labels,   \* the labels of the source repository
  Workers,  \* goroutines that create them
  Faults    \* a subset of {"refused", "lost"}: how requests may fail

VARIABLES
  force,      \* the --force flag
  dest,       \* what the destination has of each label: "absent", "theirs", "ours"
  phase,      \* of the command: "list", "feed", "wait", "ok" or "error"
  progress,   \* of each label
  idle, gone, \* workers that wait, and workers that have returned
  cancelled,  \* whether the errgroup has cancelled its context
  count       \* successCount

vars == <<force, dest, phase, progress, idle, gone, cancelled, count>>

Busy  == {l \in Labels : progress[l] \in {"creating", "editing"}}
Ended == phase \in {"ok", "error"}

-----------------------------------------------------------------------------
(* The command. *)

Init ==
  /\ force \in BOOLEAN
  /\ dest \in [Labels -> {"absent", "theirs"}]
  /\ phase = "list"
  /\ progress = [l \in Labels |-> "listed"]
  /\ idle = 0 /\ gone = 0
  /\ cancelled = FALSE
  /\ count = 0

ListLabels ==
  /\ phase = "list"
  /\ \/ phase' = "feed" /\ idle' = Workers
     \/ Faults # {} /\ phase' = "error" /\ UNCHANGED idle
  /\ UNCHANGED <<force, dest, progress, gone, cancelled, count>>

\* Slip: a label is handed over whether or not a worker takes it.
FeedBuffered(l) ==
  /\ phase = "feed"
  /\ progress[l] = "listed"
  /\ progress' = [progress EXCEPT ![l] = "creating"]
  /\ UNCHANGED <<force, dest, phase, idle, gone, cancelled, count>>

\* A waiting worker takes the label.  Its select may choose so even when the
\* context is cancelled.
Feed(l) ==
  /\ phase = "feed"
  /\ progress[l] = "listed"
  /\ idle > 0
  /\ idle' = idle - 1
  /\ progress' = [progress EXCEPT ![l] = "creating"]
  /\ UNCHANGED <<force, dest, phase, gone, cancelled, count>>

CloseQueue ==
  /\ phase = "feed"
  /\ \A l \in Labels : progress[l] # "listed"
  /\ phase' = "wait"
  /\ UNCHANGED <<force, dest, progress, idle, gone, cancelled, count>>

\* wg.Wait.
Return ==
  /\ phase = "wait"
  /\ gone = Workers
  /\ phase' = IF cancelled THEN "error" ELSE "ok"
  /\ UNCHANGED <<force, dest, progress, idle, gone, cancelled, count>>

-----------------------------------------------------------------------------
(* A worker. *)

\* It is done with its label and selects again.
SelectAgain(l, from, to) ==
  /\ progress[l] = from
  /\ progress' = [progress EXCEPT ![l] = to]
  /\ idle' = idle + 1
  /\ UNCHANGED <<force, phase, gone, cancelled>>

Cloned(l, from) ==
  /\ SelectAgain(l, from, "done")
  /\ dest' = [dest EXCEPT ![l] = "ours"]
  /\ count' = count + 1

Created(l) == dest[l] = "absent" /\ Cloned(l, "creating")

\* Slip: an existing label is edited without --force.
EditExisting(l) ==
  /\ progress[l] = "creating" /\ dest[l] # "absent"
  /\ progress' = [progress EXCEPT ![l] = "editing"]
  /\ UNCHANGED <<force, dest, phase, idle, gone, cancelled, count>>

\* isLabelAlreadyExistsError: edited with --force, else passed over.
AlreadyExists(l) ==
  /\ progress[l] = "creating" /\ dest[l] # "absent"
  /\ \/ /\ force
        /\ progress' = [progress EXCEPT ![l] = "editing"]
        /\ UNCHANGED <<force, dest, phase, idle, gone, cancelled, count>>
     \/ ~force /\ SelectAgain(l, "creating", "done") /\ UNCHANGED <<dest, count>>

Edited(l) == Cloned(l, "editing")

\* A request is refused; or its answer is lost, and it may have been served.
NotAnswered(l) ==
  \/ "refused" \in Faults /\ UNCHANGED dest
  \/ /\ "lost" \in Faults
     /\ dest[l] = "absent" \/ progress[l] = "editing"
     /\ dest' \in {dest, [dest EXCEPT ![l] = "ours"]}
  \/ "lost" \in Faults /\ UNCHANGED dest

\* Slip: every error is taken for "already exists".
PassOver(l) ==
  /\ l \in Busy
  /\ NotAnswered(l)
  /\ SelectAgain(l, progress[l], "done")
  /\ UNCHANGED count

\* Any other error is returned and cancels the context.
WorkerFails(l) ==
  /\ l \in Busy
  /\ NotAnswered(l)
  /\ progress' = [progress EXCEPT ![l] = "failed"]
  /\ gone' = gone + 1
  /\ cancelled' = TRUE
  /\ UNCHANGED <<force, phase, idle, count>>

\* Slip: a worker does not notice that the channel is closed.
LeaveCancelled ==
  /\ idle > 0
  /\ cancelled
  /\ idle' = idle - 1 /\ gone' = gone + 1
  /\ UNCHANGED <<force, dest, phase, progress, cancelled, count>>

\* The context is cancelled or the channel closed.
Leave ==
  /\ idle > 0
  /\ cancelled \/ phase = "wait"
  /\ idle' = idle - 1 /\ gone' = gone + 1
  /\ UNCHANGED <<force, dest, phase, progress, cancelled, count>>

\* Somebody else creates a label in the destination.
OtherCreates(l) ==
  /\ ~Ended
  /\ dest[l] = "absent"
  /\ dest' = [dest EXCEPT ![l] = "theirs"]
  /\ UNCHANGED <<force, phase, progress, idle, gone, cancelled, count>>

Work(l) == Created(l) \/ AlreadyExists(l) \/ Edited(l) \/ WorkerFails(l)

Command ==
  \/ ListLabels \/ CloseQueue \/ Leave \/ Return
  \/ \E l \in Labels : Feed(l) \/ Work(l)

Next == Command \/ \E l \in Labels : OtherCreates(l)

\* The scheduler runs gh, and a request is answered or given up by the HTTP
\* client.
Spec == Init /\ [][Next]_vars /\ WF_vars(Command)

-----------------------------------------------------------------------------
(* Properties. *)

\* Types, and no worker is lost or duplicated by a hand-over: those that
\* wait, those that are busy and those that have returned are all there are.
TypeOK ==
  /\ force \in BOOLEAN
  /\ dest \in [Labels -> {"absent", "theirs", "ours"}]
  /\ phase \in {"list", "feed", "wait", "ok", "error"}
  /\ progress \in [Labels -> {"listed", "creating", "editing", "done", "failed"}]
  /\ idle \in 0 .. Workers /\ gone \in 0 .. Workers
  /\ cancelled \in BOOLEAN
  /\ count \in 0 .. Cardinality(Labels)
  /\ phase \in {"feed", "wait", "ok"} => idle + gone + Cardinality(Busy) = Workers

\* A command that succeeds has left no label out, has overwritten all of
\* them with --force, and reports the number it created or overwrote.
SuccessMeansCloned ==
  phase = "ok" =>
    /\ \A l \in Labels : dest[l] # "absent" /\ (force => dest[l] = "ours")
    /\ count = Cardinality({l \in Labels : dest[l] = "ours"})

\* Without --force a label that exists in the destination is skipped,
\* also one somebody creates during the command.
KeepsExisting == ~force => \A l \in Labels : dest[l] = "theirs" => dest'[l] = "theirs"

\* The command blocks on its channel for ever: nobody is left to receive.
Blocked == phase = "feed" /\ gone = Workers /\ \E l \in Labels : progress[l] = "listed"

\* The command ends unless an error has made every worker return while
\* there were labels to hand over; nothing else keeps it from ending.
AtRest == Ended \/ (Blocked /\ cancelled)

\* When a label cannot be created the command fails with that error.
FailureReported == cancelled ~> phase = "error"

=============================================================================
