--------------------------- MODULE CodespaceCreate ---------------------------
(***************************************************************************)
(* gh codespace create: the request to create a codespace, which may ask   *)
(* for permissions that the user accepts in the browser or does without,   *)
(* and whose result may take longer than the answer; and, with --status,   *)
(* the polling of the codespace's post-create steps until they have ended. *)
(* Questions about the repository and the machine come before.  How the    *)
(* connection is waited for is in CodespaceConnect.                        *)
(***************************************************************************)
EXTENDS Naturals

CONSTANTS
  MaxSteps,  \* post-create steps
  Faults     \* what may fail: the names in pc, "lost" answers, and "tunnel"

VARIABLES
  permissions,  \* "not_needed", "needed" or "granted"
  created,      \* codespaces created by the command
  provisioned,  \* the codespace is Available
  shown,        \* post-create steps that have begun
  running,      \* the last of them has not ended
  pc,           \* the next request of gh, or its end
  showStatus,   \* --status
  optOut,       \* PermissionsOptOut
  elapsed,      \* the time for polling is over
  seen,         \* the last poll: "none", "running" or "finished"
  breakNext,    \* breakNextState
  stopped,      \* stopPolling was called
  tunnel        \* "open", or "closed": its result is in tunnelClosed

server == <<permissions, created, provisioned, shown, running>>
status == <<seen, breakNext, stopped, tunnel>>
vars   == <<server, pc, showStatus, optOut, elapsed, status>>

Ended == pc \in {"ok", "error"}
Polling == pc \in {"permissions", "provision"}

-----------------------------------------------------------------------------

Init ==
  /\ permissions \in {"not_needed", "needed"}
  /\ created = 0 /\ provisioned = FALSE
  /\ shown = 0 /\ running = FALSE
  /\ pc = "create"
  /\ showStatus \in BOOLEAN
  /\ optOut \in BOOLEAN
  /\ elapsed = FALSE
  /\ seen = "none" /\ breakNext = FALSE /\ stopped = FALSE
  /\ tunnel = "open"

Refused == permissions = "needed" /\ ~optOut

AfterCreation == IF showStatus THEN "connect" ELSE "ok"

\* A codespace is created at once, or the answer is that it will be.
CreateCodespace ==
  /\ pc \in {"create", "create_again"}
  /\ ~Refused
  /\ created' = created + 1
  /\ \/ provisioned' = TRUE /\ pc' = AfterCreation
     \/ provisioned' = FALSE /\ pc' = "provision"
     \/ "lost" \in Faults /\ provisioned' \in BOOLEAN /\ pc' = "error"
  /\ elapsed' = FALSE
  /\ UNCHANGED <<permissions, shown, running, showStatus, optOut, status>>

\* Permissions are asked for once.
PermissionsRequired ==
  /\ pc \in {"create", "create_again"}
  /\ Refused
  /\ pc' = IF pc = "create" THEN "ask" ELSE "error"
  /\ UNCHANGED <<server, showStatus, optOut, elapsed, status>>

\* handleAdditionalPermissions: without a terminal it ends.
Ask ==
  /\ pc = "ask"
  /\ \/ pc' = "permissions" /\ UNCHANGED optOut
     \/ pc' = "create_again" /\ optOut' = TRUE
     \/ pc' = "error" /\ UNCHANGED optOut
  /\ elapsed' = FALSE
  /\ UNCHANGED <<server, showStatus, status>>

\* Slip: the polling has no timeout.
PollPatiently ==
  /\ pc = "permissions"
  /\ permissions = "granted" /\ pc' = "create_again"
  /\ UNCHANGED <<server, showStatus, optOut, elapsed, status>>

\* pollForPermissions, for a minute: the check or the timeout comes first.
PollPermissions ==
  /\ pc = "permissions"
  /\ \/ permissions = "granted" /\ pc' = "create_again"
     \/ elapsed /\ pc' = "error"
  /\ UNCHANGED <<server, showStatus, optOut, elapsed, status>>

\* Slip: a codespace that is not there yet when the time is over is taken.
ProvisionedOrLate ==
  /\ pc = "provision"
  /\ provisioned \/ elapsed
  /\ pc' = AfterCreation
  /\ UNCHANGED <<server, showStatus, optOut, elapsed, status>>

\* Polled each second for two minutes.
PollProvisioning ==
  /\ pc = "provision"
  /\ \/ provisioned /\ pc' = AfterCreation
     \/ elapsed /\ pc' = "error"
  /\ UNCHANGED <<server, showStatus, optOut, elapsed, status>>

\* PollPostCreateStates: the connection, the invoker, the ssh server.
Prepare ==
  /\ pc \in {"connect", "invoker", "ssh_server"}
  /\ pc' = CASE pc = "connect"    -> "invoker"
             [] pc = "invoker"    -> "ssh_server"
             [] pc = "ssh_server" -> "poll"
  /\ UNCHANGED <<server, showStatus, optOut, elapsed, status>>

\* Slip: steps that are still running do not count the second time.
PollerInHurry ==
  /\ seen' = IF running THEN "running" ELSE "finished"
  /\ stopped' = breakNext
  /\ breakNext' = (breakNext \/ ~running)

\* The function that showStatus passes on: it stops at the second poll that
\* finds nothing in progress.
Poller ==
  /\ seen' = IF running THEN "running" ELSE "finished"
  /\ stopped' = (breakNext /\ ~running)
  /\ breakNext' = (breakNext \/ ~running)

\* A tick; a remote command with a cancelled context fails with its error.
Tick ==
  /\ pc = "poll"
  /\ IF stopped
     THEN pc' = "ok" /\ UNCHANGED <<seen, stopped, breakNext>>
     ELSE Poller /\ UNCHANGED pc
  /\ UNCHANGED <<server, showStatus, optOut, elapsed, tunnel>>

\* The context is done: an error, which showStatus ignores.
Cancelled ==
  /\ pc = "poll"
  /\ stopped
  /\ pc' = "ok"
  /\ UNCHANGED <<server, showStatus, optOut, elapsed, status>>

\* The goroutine that forwards the port ends, with an error or the context.
TunnelCloses ==
  /\ pc = "poll"
  /\ tunnel = "open"
  /\ stopped \/ "tunnel" \in Faults
  /\ tunnel' = "closed"
  /\ UNCHANGED <<server, pc, showStatus, optOut, elapsed, seen, breakNext, stopped>>

\* Of what the loop selects from, this may be the first also when the polling
\* was stopped.
TunnelClosed ==
  /\ pc = "poll"
  /\ tunnel = "closed"
  /\ pc' = "error"
  /\ UNCHANGED <<server, showStatus, optOut, elapsed, status>>

RequestFails ==
  /\ ~Ended
  /\ pc \in Faults
  /\ pc' = "error"
  /\ UNCHANGED <<server, showStatus, optOut, elapsed, status>>

Command ==
  \/ CreateCodespace \/ PermissionsRequired \/ Ask
  \/ PollPermissions \/ PollProvisioning
  \/ Prepare \/ Tick \/ Cancelled \/ TunnelClosed

TimePasses ==
  /\ Polling
  /\ ~elapsed
  /\ elapsed' = TRUE
  /\ UNCHANGED <<server, pc, showStatus, optOut, status>>

\* The user accepts in the browser; the codespace is set up, and its steps
\* begin and end.
Service ==
  /\ \/ /\ pc = "permissions" /\ permissions = "needed"
        /\ permissions' = "granted"
        /\ UNCHANGED <<provisioned, shown, running>>
     \/ /\ created > 0 /\ ~provisioned /\ ~Ended
        /\ provisioned' = TRUE
        /\ UNCHANGED <<permissions, shown, running>>
     \/ /\ pc = "poll" /\ ~running /\ shown < MaxSteps
        /\ shown' = shown + 1 /\ running' = TRUE
        /\ UNCHANGED <<permissions, provisioned>>
     \/ /\ pc = "poll" /\ running
        /\ running' = FALSE
        /\ UNCHANGED <<permissions, provisioned, shown>>
  /\ UNCHANGED <<created, pc, showStatus, optOut, elapsed, status>>

Stop == Ended /\ UNCHANGED vars

Next == Command \/ RequestFails \/ TunnelCloses \/ TimePasses \/ Service \/ Stop

\* gh runs, its requests are answered, unless they fail, and time passes; no
\* polling ends only because a request must fail in the end.
Spec == Init /\ [][Next]_vars /\ WF_vars(Command) /\ WF_vars(TimePasses)

-----------------------------------------------------------------------------
(* Properties. *)

\* Types; and the command never requests a second codespace after it has
\* created one, also not when it does not know of it.
TypeOK ==
  /\ permissions \in {"not_needed", "needed", "granted"}
  /\ created \in 0 .. 1
  /\ shown \in 0 .. MaxSteps
  /\ {provisioned, running, showStatus, optOut, elapsed, breakNext, stopped} \subseteq BOOLEAN
  /\ pc \in {"create", "ask", "permissions", "create_again", "provision", "connect",
             "invoker", "ssh_server", "poll", "ok", "error"}
  /\ seen \in {"none", "running", "finished"}
  /\ tunnel \in {"open", "closed"}

\* Success means that one codespace was created and is available, with the
\* permissions that it needs unless the user does without them, and, with
\* --status, that no step was running when the polling was stopped.
SuccessMeansCreated ==
  pc = "ok" => /\ created = 1 /\ provisioned
               /\ permissions = "needed" => optOut
               /\ showStatus => seen = "finished"

\* Steps that never end are polled forever.
AtRest == Ended \/ running

=============================================================================
