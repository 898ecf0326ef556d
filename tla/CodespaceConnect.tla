-------------------------- MODULE CodespaceConnect --------------------------
(***************************************************************************)
(* waitUntilCodespaceConnectionReady: a codespace that is shut down is     *)
(* started, and polled until it can be connected to.  The service takes a  *)
(* request to start and shows it in the codespace's state only later; an   *)
(* idle codespace, or one that its owner stops, shuts down again.          *)
(* The commands that work inside a codespace begin with this.              *)
(***************************************************************************)
EXTENDS Naturals

CONSTANTS
  MaxStops,  \* the codespace shuts down so often during the wait
  Faults     \* the requests that may fail: here, "get_codespace" and "start"

\* "Tunnel" is Available with all that connectionReady asks for.
CodespaceStates == {"Shutdown", "Starting", "Available", "Tunnel"}

VARIABLES
  codespace,  \* its state at the service
  accepted,   \* a request to start it that its state does not show yet
  fetched,    \* the state in the record that gh has
  lastState,  \* of the last attempt that went on waiting
  wait,       \* "look", "start", "get", "ready" or "failed"
  starts,     \* requests to start it
  stops,      \* shutdowns during the wait
  elapsed     \* five minutes have passed

server == <<codespace, accepted, stops>>
waiter == <<fetched, lastState, wait, starts, elapsed>>
vars   == <<server, waiter>>

Waiting == wait \in {"look", "start", "get"}

-----------------------------------------------------------------------------

\* The record was read before, by a selector or by the answer to a request.
Init ==
  /\ codespace \in CodespaceStates
  /\ fetched \in CodespaceStates
  /\ lastState = "none"
  /\ wait = "look"
  /\ accepted = FALSE
  /\ starts = 0 /\ stops = 0
  /\ elapsed = FALSE

\* backoff.Retry: the next attempt, unless they have lasted too long.
Retry == wait' = IF elapsed THEN "failed" ELSE "get"

\* Slip: every attempt that finds the codespace shut down starts it.
LookOnlyAtState ==
  /\ wait = "look"
  /\ CASE fetched = "Tunnel"   -> wait' = "ready" /\ UNCHANGED lastState
       [] fetched = "Shutdown" -> wait' = "start" /\ UNCHANGED lastState
       [] OTHER                -> Retry /\ lastState' = fetched
  /\ UNCHANGED <<fetched, starts, elapsed, server>>

\* The first attempt looks at the given record, the others at that of Get.
\* Only a changed state is reacted to.
Look ==
  /\ wait = "look"
  /\ CASE fetched = "Tunnel" -> wait' = "ready" /\ UNCHANGED lastState
       [] fetched = "Shutdown" /\ fetched # lastState
                             -> wait' = "start" /\ UNCHANGED lastState
       [] OTHER              -> Retry /\ lastState' = fetched
  /\ UNCHANGED <<fetched, starts, elapsed, server>>

\* A conflict, since it runs already, is no error; withRetry sends the request
\* again after a server error, which may find that it was served.
StartCodespace ==
  /\ wait = "start"
  /\ accepted' = (accepted \/ codespace = "Shutdown")
  /\ starts' = starts + 1
  /\ lastState' = fetched
  /\ Retry
  /\ UNCHANGED <<fetched, elapsed, codespace, stops>>

GetCodespace ==
  /\ wait = "get"
  /\ fetched' = codespace
  /\ wait' = "look"
  /\ UNCHANGED <<lastState, starts, elapsed, server>>

\* Failed requests are permanent errors for backoff.Retry.
WaitFails ==
  /\ \/ wait = "get" /\ "get_codespace" \in Faults
     \/ wait = "start" /\ "start" \in Faults
  /\ wait' = "failed"
  /\ UNCHANGED <<fetched, lastState, starts, elapsed, server>>

Command == Look \/ StartCodespace \/ GetCodespace \/ WaitFails

TimePasses ==
  /\ Waiting
  /\ ~elapsed
  /\ elapsed' = TRUE
  /\ UNCHANGED <<fetched, lastState, wait, starts, server>>

\* The service goes on with a start: the state shows it, the machine runs, and
\* its tunnel is set up.
CodespaceProgress ==
  /\ Waiting
  /\ \/ accepted /\ accepted' = FALSE /\ codespace' = "Starting"
     \/ codespace = "Starting" /\ codespace' = "Available" /\ UNCHANGED accepted
     \/ codespace = "Available" /\ codespace' = "Tunnel" /\ UNCHANGED accepted
  /\ UNCHANGED <<stops, waiter>>

CodespaceStops ==
  /\ Waiting
  /\ stops < MaxStops
  /\ codespace # "Shutdown"
  /\ codespace' = "Shutdown"
  /\ stops' = stops + 1
  /\ UNCHANGED <<accepted, waiter>>

Stop == ~Waiting /\ UNCHANGED vars

Next == Command \/ TimePasses \/ CodespaceProgress \/ CodespaceStops \/ Stop

\* gh runs, its requests are answered or given up, and time passes.
Spec == Init /\ [][Next]_vars /\ WF_vars(Command) /\ WF_vars(TimePasses)

-----------------------------------------------------------------------------
(* Properties. *)

TypeOK ==
  /\ codespace \in CodespaceStates /\ fetched \in CodespaceStates
  /\ lastState \in CodespaceStates \cup {"none"}
  /\ accepted \in BOOLEAN /\ elapsed \in BOOLEAN
  /\ wait \in {"look", "start", "get", "ready", "failed"}
  /\ stops \in 0 .. MaxStops /\ starts \in Nat

\* However often it is polled before its state shows the start, a codespace is
\* started once, and once more for each time that it shuts down again.
StartedOncePerStop == starts <= 1 + stops

\* Success means that gh has a record with which it can connect, and that it
\* has asked for a start if it ever saw the codespace shut down.
SuccessMeansConnected ==
  wait = "ready" => /\ fetched = "Tunnel"
                    /\ lastState = "Shutdown" => starts > 0

=============================================================================
