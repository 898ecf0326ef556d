--------------------------- MODULE PortVisibility ---------------------------
(***************************************************************************)
(* gh codespace ports visibility: UpdatePortVisibility for one port after  *)
(* another, each within 30 seconds.  The tunnel service has no request to  *)
(* change a port, so it is deleted, and forwarded again by a goroutine; if *)
(* that fails it is forwarded with its old visibility.                     *)
(*                                                                         *)
(* The goroutine and the code that waits for it never send requests at the *)
(* same time, so step is that of the one that does.  A request given up at *)
(* the deadline may still be served, while the next port is updated.       *)
(***************************************************************************)
EXTENDS Naturals, FiniteSets, Sequences

CONSTANTS
  Ports,
  MaxUpdates,  \* port:visibility arguments
  MaxOthers,   \* ports forwarded by somebody else during the command
  Faults       \* steps whose request may fail, "lost" for answers, "deadline"

Visibilities == {"private", "public"}

VARIABLES
  port,        \* at the service: a visibility, or "none"
  before,      \* when the command began
  updates,     \* the arguments
  allowed,     \* the visibilities that the organization allows
  count,       \* updates that are done
  old,         \* tunnelPort: the visibility of the current port
  step,        \* the next request of the command
  restoring,   \* it is forwarded with its old visibility
  connected,   \* TunnelClient.connected
  timedOut,    \* ports whose update ran out of time
  failedAgain, \* a request failed while it was
  unheard,     \* a deletion was served, and its answer lost
  late,        \* requests served after they were given up
  others       \* ports that somebody else forwarded

service  == <<port, late, others>>
progress == <<updates, allowed, count, old, restoring>>
history  == <<before, timedOut, failedAgain, unheard>>
vars     == <<service, progress, history, step, connected>>

Ended    == step \in {"ok", "error"}
Updating == ~Ended
Current  == updates[count + 1][1]
Wanted   == updates[count + 1][2]
Goal     == IF restoring THEN old ELSE Wanted
Deleted  == step \notin {"get", "delete", "ok", "error"}

-----------------------------------------------------------------------------

Init ==
  /\ port \in [Ports -> Visibilities \cup {"none"}]
  /\ before = port
  /\ \E n \in 1 .. MaxUpdates : updates \in [1 .. n -> Ports \X Visibilities]
  /\ allowed \in SUBSET Visibilities
  /\ count = 0 /\ old = "none"
  /\ step = "get"
  /\ restoring = FALSE /\ connected = FALSE
  /\ timedOut = {} /\ failedAgain = FALSE /\ unheard = FALSE
  /\ late = {} /\ others = {}

\* The end of an update: of all updates, or the next one begins.
Updated ==
  /\ count' = count + 1
  /\ step' = IF count' = Len(updates) THEN "ok" ELSE "get"
  /\ old' = "none"
  /\ UNCHANGED <<restoring, failedAgain, updates, allowed>>

GoTo(s) ==
  /\ step' = s
  /\ UNCHANGED <<count, old, restoring, failedAgain, updates, allowed>>

\* Slip: the second forward is forgotten.
FailedForGood ==
  /\ step' = "error"
  /\ failedAgain' = restoring
  /\ UNCHANGED <<count, old, restoring, updates, allowed>>

\* After a failure the update ends, unless the port is already deleted: then
\* it is forwarded with its old visibility, whose failure is ignored.
Failed ==
  /\ step' = IF Deleted /\ ~restoring THEN "look" ELSE "error"
  /\ restoring' = (Deleted \/ restoring)
  /\ failedAgain' = restoring
  /\ UNCHANGED <<count, old, updates, allowed>>

GetTunnelPort ==
  /\ step = "get"
  /\ \/ port[Current] = "none" /\ Failed
     \/ port[Current] = Wanted /\ Updated
     \/ /\ port[Current] \notin {"none", Wanted}
        /\ old' = port[Current]
        /\ step' = "delete"
        /\ UNCHANGED <<count, restoring, failedAgain, updates, allowed>>
  /\ UNCHANGED <<service, before, timedOut, unheard, connected>>

DeleteTunnelPort ==
  /\ step = "delete"
  /\ port' = [port EXCEPT ![Current] = "none"]
  /\ \/ GoTo("connect") /\ UNCHANGED unheard
     \/ "lost" \in Faults /\ Failed /\ unheard' = TRUE
  /\ UNCHANGED <<before, timedOut, late, others, connected>>

\* connection.Connect does nothing when it is connected.
Connect(from, to) ==
  /\ step = from
  /\ GoTo(to)
  /\ connected' = TRUE
  /\ UNCHANGED <<service, before, timedOut, unheard>>

RefreshPorts == Connect("refresh", "look")

\* ForwardPort: whether the port exists, for its protocol, and whether its
\* visibility is allowed.
LookForPort ==
  /\ step = "look"
  /\ IF Goal \in allowed THEN GoTo("create") ELSE Failed
  /\ UNCHANGED <<service, before, timedOut, unheard, connected>>

Create(p, v) == port' = IF port[p] = "none" THEN [port EXCEPT ![p] = v] ELSE port

\* A conflict, since the port exists, is no error and changes nothing.
CreateTunnelPort ==
  /\ step = "create"
  /\ Create(Current, Goal)
  /\ \/ GoTo("connect_again")
     \/ "lost" \in Faults /\ Failed
  /\ UNCHANGED <<late, others, before, timedOut, unheard, connected>>

\* The last request of ForwardPort: the goroutine sends nil, or the error for
\* which the port was forwarded again is returned.
RefreshAgain ==
  /\ step = "refresh_again"
  /\ IF restoring THEN GoTo("error") ELSE Updated
  /\ UNCHANGED <<service, before, timedOut, unheard, connected>>

\* A request is refused, or fails on its way.
RequestFails ==
  /\ Updating
  /\ step \in Faults
  /\ step \in {"connect", "connect_again"} => ~connected
  /\ Failed
  /\ UNCHANGED <<service, before, timedOut, unheard, connected>>

\* The 30 seconds are over.  The request at hand is given up, and what comes
\* after it fails.  Who waits for the goroutine, though, returns nil, unless
\* the error of the request at hand is received first.
Deadline ==
  /\ Updating
  /\ timedOut' = timedOut \cup {Current}
  /\ late' = CASE step = "delete" -> late \cup {<<"delete", Current, "none">>}
               [] step = "create" -> late \cup {<<"create", Current, Goal>>}
               [] OTHER           -> late
  /\ \/ Deleted /\ ~restoring /\ Updated
     \/ GoTo("error")
  /\ UNCHANGED <<port, others, before, unheard, connected>>

Command ==
  \/ GetTunnelPort \/ DeleteTunnelPort
  \/ Connect("connect", "refresh") \/ RefreshPorts
  \/ LookForPort \/ CreateTunnelPort
  \/ Connect("connect_again", "refresh_again") \/ RefreshAgain
  \/ RequestFails
  \/ "deadline" \in Faults /\ Deadline

LateRequest ==
  /\ Updating
  /\ \E r \in late :
       /\ late' = late \ {r}
       /\ IF r[1] = "delete" THEN port' = [port EXCEPT ![r[2]] = "none"]
                             ELSE Create(r[2], r[3])
  /\ UNCHANGED <<progress, history, step, connected, others>>

\* An editor that is connected to the codespace forwards a port.
OtherForwards ==
  /\ Updating
  /\ \E p \in Ports \ others :
       /\ port[p] = "none"
       /\ others' = others \cup {p}
       /\ port' = [port EXCEPT ![p] = "private"]
  /\ UNCHANGED <<progress, history, step, connected, late>>

Stop == Ended /\ UNCHANGED vars

Next ==
  \/ Command \/ LateRequest \/ Stop
  \/ Cardinality(others) < MaxOthers /\ OtherForwards

\* Goroutines run, and requests are answered or given up.
Spec == Init /\ [][Next]_vars /\ WF_vars(Command)

-----------------------------------------------------------------------------
(* Properties. *)

TypeOK ==
  /\ port \in [Ports -> Visibilities \cup {"none"}]
  /\ before \in [Ports -> Visibilities \cup {"none"}]
  /\ updates \in Seq(Ports \X Visibilities) /\ Len(updates) <= MaxUpdates
  /\ allowed \subseteq Visibilities
  /\ count \in 0 .. Len(updates)
  /\ Updating => count < Len(updates)
  /\ Deleted => old \in Visibilities
  /\ restoring \in BOOLEAN /\ failedAgain \in BOOLEAN /\ connected \in BOOLEAN
  /\ unheard \in BOOLEAN
  /\ timedOut \subseteq Ports /\ others \subseteq Ports

\* The last visibility asked for a port.
Asked(p) == LET last == CHOOSE i \in 1 .. Len(updates) :
                          /\ updates[i][1] = p
                          /\ \A j \in i + 1 .. Len(updates) : updates[j][1] # p
            IN updates[last][2]

AskedPorts == {updates[i][1] : i \in 1 .. Len(updates)}

\* Success means that every port has the visibility that was asked for, unless
\* its time ran out or somebody else has forwarded it.
SuccessMeansVisible ==
  step = "ok" => \A p \in AskedPorts \ (timedOut \cup others) : port[p] = Asked(p)

\* What the caller in ports.go waits for: success, even of an update that took
\* too long, means that the port has the visibility.
VisibilitySet ==
  step = "ok" => \A p \in AskedPorts \ others : port[p] = Asked(p)

\* No port is lost by an update that fails: one that was deleted is back with
\* its old visibility, or with the wanted one, unless the time ran out, a deletion
\* was reported as failed, or the second forward fails, too (as it does if the
\* old visibility is no longer allowed).
PortsKept ==
  Ended => \A p \in Ports :
    \/ before[p] = "none"
    \/ port[p] \in {before[p]} \cup {updates[i][2] : i \in {j \in 1 .. Len(updates) : updates[j][1] = p}}
    \/ p \in timedOut \cup others
    \/ step = "error" /\ p = Current /\ (unheard \/ failedAgain)

=============================================================================
