----------------------- MODULE MachineCommandsProofs ------------------------
(*****************************************************************************)
(* The commands that leave something on a machine, the user's or a codespace: *)
(* codespaces, their ports and key pair, and extensions.  Of each command    *)
(* there is an invariant, whose conjuncts are named; its Init lemma, one lemma *)
(* for each action or group of actions, and its Next lemma show that it is   *)
(* inductive, and its Properties lemma that it implies what Commands states. *)
(*****************************************************************************)
EXTENDS Commands, FiniteSetTheorems, TLAPS

-----------------------------------------------------------------------------
(* The connection to a codespace. *)

LEMMA ConnectAssumption == MaxStops \in Nat
BY CommandsAssumption DEF CommandsAssumption

\* The next start is on its way: gh has seen the codespace shut down after it
\* had seen something else, or is bound to see it so.
StartDue ==
  \/ wait = "start"
  \/ wait = "look" /\ fetched = "Shutdown" /\ lastState # "Shutdown"
  \/ wait = "look" /\ fetched # "Shutdown" /\ codespace = "Shutdown"
  \/ wait = "get" /\ lastState # "Shutdown" /\ codespace = "Shutdown"

\* A start that is due has its own shutdown, or is the first.
StartsInv == starts <= 1 + stops /\ (StartDue => starts <= stops)

WaitInv ==
  /\ wait = "start" => fetched = "Shutdown"
  /\ wait = "ready" => fetched = "Tunnel"
  /\ lastState = "Shutdown" => starts > 0

ConnectInv == Connect!TypeOK /\ StartsInv /\ WaitInv

LEMMA ConnectInit ==
  Connect!Init => ConnectInv
<1> SUFFICES ASSUME Connect!Init PROVE ConnectInv OBVIOUS
<1> USE DEF Connect!Init
<1>1. stops \in 0 .. MaxStops /\ starts \in Nat BY ConnectAssumption, SMT
<1>2. /\ lastState \in Connect!CodespaceStates \cup {"none"}
      /\ accepted \in BOOLEAN /\ elapsed \in BOOLEAN
      /\ wait \in {"look", "start", "get", "ready", "failed"}
  BY Zenon
<1>3. Connect!TypeOK BY <1>1, <1>2 DEF Connect!TypeOK
<1>4. StartsInv BY DEF StartsInv, StartDue
<1>5. WaitInv BY DEF WaitInv
<1> QED BY <1>3, <1>4, <1>5 DEF ConnectInv

LEMMA LookKeeps ==
  ASSUME ConnectInv, Connect!Look
  PROVE  ConnectInv'
<1> USE DEF ConnectInv, Connect!Look, Connect!Retry, Connect!server
<1>1. Connect!TypeOK' BY DEF Connect!TypeOK
<1>2. StartsInv' BY DEF StartsInv, StartDue, Connect!TypeOK
<1>3. WaitInv' BY DEF WaitInv
<1> QED BY <1>1, <1>2, <1>3

\* The start that was due is requested, and lastState remembers it.
LEMMA StartKeeps ==
  ASSUME ConnectInv, Connect!StartCodespace
  PROVE  ConnectInv'
<1> USE DEF ConnectInv, Connect!StartCodespace, Connect!Retry
<1>1. Connect!TypeOK' BY DEF Connect!TypeOK
<1>2. StartsInv'
  <2>1. starts <= stops BY DEF StartsInv, StartDue
  <2>2. lastState' = "Shutdown" BY DEF WaitInv
  <2>3. ~StartDue' BY <2>2 DEF StartDue
  <2> QED BY <2>1, <2>3 DEF StartsInv, Connect!TypeOK
<1>3. WaitInv' BY DEF WaitInv, Connect!TypeOK
<1> QED BY <1>1, <1>2, <1>3

\* What is fetched is the codespace's state: if it is shut down and was not
\* when gh last looked, the start was due already.
LEMMA GetKeeps ==
  ASSUME ConnectInv, Connect!GetCodespace
  PROVE  ConnectInv'
<1> USE DEF ConnectInv, Connect!GetCodespace, Connect!server
<1>1. Connect!TypeOK' BY DEF Connect!TypeOK
<1>2. StartsInv' BY DEF StartsInv, StartDue, Connect!TypeOK
<1>3. WaitInv' BY DEF WaitInv
<1> QED BY <1>1, <1>2, <1>3

LEMMA WaitFailsKeeps ==
  ASSUME ConnectInv, Connect!WaitFails
  PROVE  ConnectInv'
<1> USE DEF ConnectInv, Connect!WaitFails, Connect!server
<1>1. Connect!TypeOK' BY DEF Connect!TypeOK
<1>2. StartsInv' BY DEF StartsInv, StartDue
<1>3. WaitInv' BY DEF WaitInv
<1> QED BY <1>1, <1>2, <1>3

LEMMA TimeKeeps ==
  ASSUME ConnectInv, Connect!TimePasses
  PROVE  ConnectInv'
BY DEF ConnectInv, Connect!TypeOK, StartsInv, StartDue, WaitInv, Connect!TimePasses, Connect!server

\* The service leaves Shutdown and never goes back to it by itself.
LEMMA ProgressKeeps ==
  ASSUME ConnectInv, Connect!CodespaceProgress
  PROVE  ConnectInv'
<1> USE DEF ConnectInv, Connect!CodespaceProgress, Connect!waiter
<1>1. Connect!TypeOK' BY DEF Connect!TypeOK, Connect!CodespaceStates
<1>2. StartsInv' BY DEF StartsInv, StartDue
<1>3. WaitInv' BY DEF WaitInv
<1> QED BY <1>1, <1>2, <1>3

\* A shutdown may make a start due, and pays for it.
LEMMA StopKeeps ==
  ASSUME ConnectInv, Connect!CodespaceStops
  PROVE  ConnectInv'
<1> USE DEF ConnectInv, Connect!CodespaceStops, Connect!waiter
<1>1. Connect!TypeOK' BY ConnectAssumption DEF Connect!TypeOK, Connect!CodespaceStates
<1>2. StartsInv' BY ConnectAssumption DEF StartsInv, Connect!TypeOK
<1>3. WaitInv' BY DEF WaitInv
<1> QED BY <1>1, <1>2, <1>3

LEMMA ConnectNext ==
  ConnectInv /\ [Connect!Next]_(Connect!vars) => ConnectInv'
<1> SUFFICES ASSUME ConnectInv, [Connect!Next]_(Connect!vars) PROVE ConnectInv' OBVIOUS
<1>1. CASE Connect!Look BY <1>1, LookKeeps
<1>2. CASE Connect!StartCodespace BY <1>2, StartKeeps
<1>3. CASE Connect!GetCodespace BY <1>3, GetKeeps
<1>4. CASE Connect!WaitFails BY <1>4, WaitFailsKeeps
<1>5. CASE Connect!TimePasses BY <1>5, TimeKeeps
<1>6. CASE Connect!CodespaceProgress BY <1>6, ProgressKeeps
<1>7. CASE Connect!CodespaceStops BY <1>7, StopKeeps
<1>8. CASE UNCHANGED Connect!vars
  BY <1>8 DEF ConnectInv, Connect!TypeOK, StartsInv, StartDue, WaitInv, Connect!vars,
              Connect!server, Connect!waiter
<1> QED BY <1>1, <1>2, <1>3, <1>4, <1>5, <1>6, <1>7, <1>8
        DEF Connect!Next, Connect!Command, Connect!Stop

LEMMA ConnectProperties ==
  ConnectInv => Connect!TypeOK /\ Connect!SuccessMeansConnected /\ Connect!StartedOncePerStop
BY DEF ConnectInv, StartsInv, WaitInv, Connect!SuccessMeansConnected, Connect!StartedOncePerStop

-----------------------------------------------------------------------------
(* gh codespace ports visibility. *)

LEMMA PortsAssumption == MaxUpdates \in Nat
BY CommandsAssumption DEF CommandsAssumption

AskedOf(p) == {updates[i][2] : i \in {j \in 1 .. Len(updates) : updates[j][1] = p}}

\* Nobody promised anything about this port: it was not forwarded, its time ran
\* out, or somebody else has forwarded it.
FreePort(p) == before[p] = "none" \/ p \in timedOut \cup others

GoodVisibility(p) == FreePort(p) \/ port[p] \in {before[p]} \cup AskedOf(p)

PortSteps == {"get", "delete", "connect", "refresh", "look", "create",
          "connect_again", "refresh_again", "ok", "error"}

PortsTypes ==
  /\ port = [p \in Ports |-> port[p]]
  /\ updates \in Seq(Ports \X Visibility!Visibilities)
  /\ timedOut \subseteq Ports
  /\ step \in PortSteps

PortCountInv == count \in Nat /\ (Visibility!Updating => count < Len(updates))

\* Requests that are served late belong to updates that ran out of time.
PortLateInv == \A r \in late : r[2] \in timedOut

PortOthersInv == \A p \in Ports : step = "ok" \/ p # Visibility!Current => GoodVisibility(p)

\* The port at hand.
CurrentPortInv ==
  /\ step \in {"get", "delete", "connect_again", "refresh_again"} => GoodVisibility(Visibility!Current)
  /\ step \in {"connect", "refresh", "look", "create"} =>
       port[Visibility!Current] = "none" \/ GoodVisibility(Visibility!Current)
  /\ Visibility!Updating /\ step # "get" => FreePort(Visibility!Current) \/ old \in {before[Visibility!Current]} \cup AskedOf(Visibility!Current)
  /\ step = "error" => GoodVisibility(Visibility!Current) \/ unheard \/ failedAgain

PortsInv == PortsTypes /\ PortCountInv /\ PortLateInv /\ PortOthersInv /\ CurrentPortInv

-----------------------------------------------------------------------------
(* What is asked for, and how it lasts. *)

\* While updating there is a port at hand, and a visibility asked for it.
LEMMA AtHand ==
  ASSUME PortsTypes, PortCountInv, Visibility!Updating
  PROVE  /\ Visibility!Current \in Ports /\ Visibility!Wanted \in Visibility!Visibilities
         /\ Visibility!Wanted \in AskedOf(Visibility!Current)
<1>1. count + 1 \in 1 .. Len(updates) BY DEF PortCountInv, PortsTypes
<1>2. updates[count + 1] \in Ports \X Visibility!Visibilities BY <1>1 DEF PortsTypes
<1>3. count + 1 \in {j \in 1 .. Len(updates) : updates[j][1] = Visibility!Current} BY <1>1 DEF Visibility!Current
<1> QED BY <1>2, <1>3 DEF Visibility!Current, Visibility!Wanted, AskedOf

\* A port that a step does not touch remains good.
LEMMA GoodStays ==
  ASSUME NEW p, GoodVisibility(p), UNCHANGED <<before, updates>>,
         timedOut \subseteq timedOut', others \subseteq others',
         port'[p] = port[p]
  PROVE  GoodVisibility(p)'
<1>1. AskedOf(p)' = AskedOf(p) BY DEF AskedOf
<1>2. FreePort(p) => FreePort(p)' BY DEF FreePort
<1> QED BY <1>1, <1>2 DEF GoodVisibility

\* An update that is done leaves every port good, the next one's too.
LEMMA UpdatedPortStep ==
  ASSUME PortsInv, Visibility!Updating, Visibility!Updated, PortsTypes', PortLateInv', \A p \in Ports : GoodVisibility(p)'
  PROVE  PortsInv'
<1>1. count \in Nat /\ count < Len(updates) /\ Len(updates) \in Nat
  BY DEF PortsInv, PortCountInv, PortsTypes
<1>2. /\ count' = count + 1 /\ UNCHANGED updates
      /\ step' = IF count' = Len(updates) THEN "ok" ELSE "get"
  BY DEF Visibility!Updated
<1>3. PortCountInv'
  <2>1. count' \in Nat BY <1>1, <1>2
  <2>2. CASE count' = Len(updates)
    <3>1. step' = "ok" BY <1>2, <2>2
    <3> QED BY <2>1, <3>1 DEF PortCountInv, Visibility!Updating, Visibility!Ended
  <2>3. CASE count' # Len(updates)
    <3>1. count' < Len(updates) BY <1>1, <1>2, <2>3
    <3> QED BY <1>2, <2>1, <3>1 DEF PortCountInv
  <2> QED BY <2>2, <2>3
<1>4. step' \in {"ok", "get"} BY <1>2
<1>5. PortOthersInv' BY DEF PortOthersInv
<1>6. step' = "get" => Visibility!Current' \in Ports
  <2>1. step' = "get" => Visibility!Updating' BY DEF Visibility!Updating, Visibility!Ended
  <2>2. ASSUME Visibility!Updating' PROVE Visibility!Current' \in Ports
    <3>1. count' < Len(updates) BY <1>2, <1>3, <2>2 DEF PortCountInv
    <3>2. count' + 1 \in 1 .. Len(updates) BY <1>1, <1>2, <3>1
    <3>3. updates[count' + 1] \in Ports \X Visibility!Visibilities BY <3>2 DEF PortsInv, PortsTypes
    <3> QED BY <1>2, <3>3 DEF Visibility!Current
  <2> QED BY <2>1, <2>2
<1>7. CurrentPortInv' BY <1>4, <1>6 DEF CurrentPortInv, Visibility!Updating, Visibility!Ended
<1> QED BY <1>3, <1>5, <1>7 DEF PortsInv

\* A step within an update: the other ports stay good.
LEMMA WithinPortStep ==
  ASSUME PortsInv, Visibility!Updating, UNCHANGED <<count, updates>>, step' # "ok",
         PortsTypes', PortLateInv', CurrentPortInv',
         \A p \in Ports : p # Visibility!Current => GoodVisibility(p)'
  PROVE  PortsInv'
<1>1. PortCountInv' BY DEF PortsInv, PortCountInv, Visibility!Updating
<1>2. Visibility!Current' = Visibility!Current BY DEF Visibility!Current
<1>3. PortOthersInv' BY <1>2 DEF PortOthersInv
<1> QED BY <1>1, <1>3 DEF PortsInv

\* A step of an update that changes at most the port at hand.
LEMMA OnlyCurrent ==
  ASSUME PortsInv, Visibility!Updating, UNCHANGED <<before, updates, timedOut, others, late>>,
         \A p \in Ports : p # Visibility!Current => port'[p] = port[p]
  PROVE  /\ PortLateInv' /\ Visibility!Current \in Ports
         /\ \A p \in Ports : p # Visibility!Current => GoodVisibility(p)'
<1>1. PortLateInv' BY DEF PortsInv, PortLateInv
<1>2. Visibility!Current \in Ports BY AtHand DEF PortsInv
<1>3. ASSUME NEW p \in Ports, p # Visibility!Current PROVE GoodVisibility(p)'
  <2>1. GoodVisibility(p) BY <1>3 DEF PortsInv, PortOthersInv
  <2>2. port'[p] = port[p] BY <1>3
  <2> QED BY <2>1, <2>2, GoodStays
<1> QED BY <1>1, <1>2, <1>3

\* A step that changes no port leaves the port at hand good.
LEMMA CurrentStays ==
  ASSUME GoodVisibility(Visibility!Current), UNCHANGED <<before, updates, port, count>>,
         timedOut \subseteq timedOut', others \subseteq others'
  PROVE  GoodVisibility(Visibility!Current)' /\ Visibility!Current' = Visibility!Current
<1>1. PICK p : p = Visibility!Current OBVIOUS
<1>2. GoodVisibility(p)' BY <1>1, GoodStays
<1>3. Visibility!Current' = p BY <1>1 DEF Visibility!Current
<1> QED BY <1>1, <1>2, <1>3

\* The old visibility remains one of the good ones.
OldGood == FreePort(Visibility!Current) \/ old \in {before[Visibility!Current]} \cup AskedOf(Visibility!Current)

LEMMA OldStays ==
  ASSUME OldGood, UNCHANGED <<before, updates, count, old>>,
         timedOut \subseteq timedOut', others \subseteq others'
  PROVE  OldGood'
BY DEF OldGood, FreePort, AskedOf, Visibility!Current

\* A failure: the port at hand is good, or is going to be forwarded once more.
LEMMA FailedPortStep ==
  ASSUME PortsInv, Visibility!Updating, Visibility!Failed, UNCHANGED <<before, timedOut, others, late>>,
         port' = [p \in Ports |-> port'[p]],
         \A p \in Ports : p # Visibility!Current => port'[p] = port[p],
         Visibility!Deleted => port'[Visibility!Current] = "none" \/ GoodVisibility(Visibility!Current)',
         ~Visibility!Deleted => GoodVisibility(Visibility!Current)' \/ unheard'
  PROVE  PortsInv'
<1>1. /\ UNCHANGED <<count, old, updates>>
      /\ step' = IF Visibility!Deleted /\ ~restoring THEN "look" ELSE "error"
      /\ failedAgain' = restoring
  BY DEF Visibility!Failed
<1>2. PortLateInv' /\ \A p \in Ports : p # Visibility!Current => GoodVisibility(p)'
  BY <1>1, OnlyCurrent
<1>3. Visibility!Current' = Visibility!Current BY <1>1 DEF Visibility!Current
<1>4. PortsTypes' BY <1>1 DEF PortsInv, PortsTypes, PortSteps
<1>5. CurrentPortInv'
  <2>1. CASE Visibility!Deleted /\ ~restoring
    <3>1. step' = "look" BY <1>1, <2>1
    <3>2. OldGood BY <2>1 DEF PortsInv, CurrentPortInv, OldGood, Visibility!Deleted, Visibility!Updating, Visibility!Ended
    <3>3. OldGood' BY <1>1, <3>2, OldStays
    <3>4. port'[Visibility!Current] = "none" \/ GoodVisibility(Visibility!Current)' BY <2>1
    <3> QED BY <1>3, <3>1, <3>3, <3>4 DEF CurrentPortInv, OldGood
  <2>2. CASE Visibility!Deleted /\ restoring
    <3>1. step' = "error" /\ failedAgain' BY <1>1, <2>2
    <3> QED BY <3>1 DEF CurrentPortInv, Visibility!Updating, Visibility!Ended
  <2>3. CASE ~Visibility!Deleted
    <3>1. step' = "error" BY <1>1, <2>3
    <3>2. GoodVisibility(Visibility!Current)' \/ unheard' BY <2>3
    <3> QED BY <3>1, <3>2 DEF CurrentPortInv, Visibility!Updating, Visibility!Ended
  <2> QED BY <2>1, <2>2, <2>3
<1>6. step' # "ok" BY <1>1
<1> QED BY <1>1, <1>2, <1>4, <1>5, <1>6, WithinPortStep

-----------------------------------------------------------------------------
(* The requests. *)

LEMMA GetPortStep == ASSUME PortsInv, Visibility!GetTunnelPort PROVE PortsInv'
<1>1. /\ step = "get" /\ UNCHANGED <<port, late, others, before, timedOut, unheard>>
      /\ UNCHANGED updates
  BY DEF Visibility!GetTunnelPort, Visibility!service, Visibility!Failed, Visibility!Updated
<1>2. Visibility!Updating /\ ~Visibility!Deleted BY <1>1 DEF Visibility!Updating, Visibility!Ended, Visibility!Deleted
<1>3. GoodVisibility(Visibility!Current) BY <1>1 DEF PortsInv, CurrentPortInv
<1>4. PortLateInv' /\ Visibility!Current \in Ports /\ \A p \in Ports : p # Visibility!Current => GoodVisibility(p)'
  BY <1>1, <1>2, OnlyCurrent
<1>5. CASE Visibility!Failed
  <2>1. UNCHANGED count BY <1>5 DEF Visibility!Failed
  <2>2. GoodVisibility(Visibility!Current)' BY <1>1, <1>3, <2>1, CurrentStays
  <2>3. port' = [p \in Ports |-> port'[p]] BY <1>1 DEF PortsInv, PortsTypes
  <2> QED BY <1>1, <1>2, <1>5, <2>2, <2>3, FailedPortStep
<1>6. CASE Visibility!Updated
  <2>1. step' \in {"ok", "get"} BY <1>6 DEF Visibility!Updated
  <2>2. PortsTypes' BY <1>1, <2>1 DEF PortsInv, PortsTypes, PortSteps
  <2>3. ASSUME NEW p \in Ports PROVE GoodVisibility(p)'
    <3>1. GoodVisibility(p) BY <1>1, <1>3 DEF PortsInv, PortOthersInv
    <3> QED BY <1>1, <3>1, GoodStays
  <2> QED BY <1>2, <1>4, <1>6, <2>2, <2>3, UpdatedPortStep
<1>7. CASE old' = port[Visibility!Current] /\ step' = "delete" /\ UNCHANGED count
  <2>1. PortsTypes' BY <1>1, <1>7 DEF PortsInv, PortsTypes, PortSteps
  <2>2. GoodVisibility(Visibility!Current)' /\ Visibility!Current' = Visibility!Current BY <1>1, <1>3, <1>7, CurrentStays
  <2>3. FreePort(Visibility!Current)' \/ port'[Visibility!Current] \in ({before[Visibility!Current]} \cup AskedOf(Visibility!Current))'
    BY <1>1, <2>2 DEF GoodVisibility
  <2>4. OldGood' BY <1>1, <1>7, <2>2, <2>3 DEF OldGood
  <2>5. CurrentPortInv' BY <1>7, <2>2, <2>4 DEF CurrentPortInv, OldGood
  <2>6. step' # "ok" BY <1>7
  <2> QED BY <1>1, <1>2, <1>4, <1>7, <2>1, <2>5, <2>6, WithinPortStep
<1> QED BY <1>5, <1>6, <1>7 DEF Visibility!GetTunnelPort

LEMMA DeletePortStep == ASSUME PortsInv, Visibility!DeleteTunnelPort PROVE PortsInv'
<1>1. /\ step = "delete" /\ UNCHANGED <<late, others, before, timedOut>>
      /\ port' = [port EXCEPT ![Visibility!Current] = "none"]
      /\ UNCHANGED <<updates, count, old>>
  BY DEF Visibility!DeleteTunnelPort, Visibility!GoTo, Visibility!Failed
<1>2. Visibility!Updating /\ ~Visibility!Deleted BY <1>1 DEF Visibility!Updating, Visibility!Ended, Visibility!Deleted
<1>3. Visibility!Current \in Ports BY <1>2, AtHand DEF PortsInv
<1>4. /\ port' = [p \in Ports |-> port'[p]]
      /\ port'[Visibility!Current] = "none"
      /\ \A p \in Ports : p # Visibility!Current => port'[p] = port[p]
  BY <1>1, <1>3 DEF PortsInv, PortsTypes
<1>5. PortLateInv' /\ \A p \in Ports : p # Visibility!Current => GoodVisibility(p)'
  BY <1>1, <1>2, <1>4, OnlyCurrent
<1>6. CASE Visibility!Failed /\ unheard'
  BY <1>1, <1>2, <1>4, <1>6, FailedPortStep
<1>7. CASE Visibility!GoTo("connect")
  <2>1. step' = "connect" BY <1>7 DEF Visibility!GoTo
  <2>2. PortsTypes' BY <1>1, <1>4, <2>1 DEF PortsInv, PortsTypes, PortSteps
  <2>3. Visibility!Current' = Visibility!Current BY <1>1 DEF Visibility!Current
  <2>4. OldGood BY <1>1, <1>2 DEF PortsInv, CurrentPortInv, OldGood
  <2>5. OldGood' BY <1>1, <2>4, OldStays
  <2>6. CurrentPortInv' BY <1>4, <2>1, <2>3, <2>5 DEF CurrentPortInv, OldGood
  <2> QED BY <1>1, <1>2, <1>5, <2>1, <2>2, <2>6, WithinPortStep
<1> QED BY <1>6, <1>7 DEF Visibility!DeleteTunnelPort

\* A request of a forward that touches no port.
Forwarding == {"connect", "refresh", "look", "create"}

LEMMA MidPortStep ==
  ASSUME PortsInv, step \in Forwarding, NEW s \in Forwarding, Visibility!GoTo(s),
         UNCHANGED <<port, late, others, before, timedOut>>
  PROVE  PortsInv'
<1>1. step' = s /\ UNCHANGED <<updates, count, old>> BY DEF Visibility!GoTo
<1>2. Visibility!Updating BY DEF Forwarding, Visibility!Updating, Visibility!Ended
<1>3. PortLateInv' /\ \A p \in Ports : p # Visibility!Current => GoodVisibility(p)'
  BY <1>1, <1>2, OnlyCurrent
<1>4. PortsTypes' BY <1>1 DEF PortsInv, PortsTypes, Forwarding, PortSteps
<1>5. Visibility!Current' = Visibility!Current BY <1>1 DEF Visibility!Current
<1>6. OldGood'
  <2>1. OldGood BY <1>2 DEF PortsInv, CurrentPortInv, OldGood, Forwarding
  <2> QED BY <1>1, <2>1, OldStays
<1>7. port'[Visibility!Current] = "none" \/ GoodVisibility(Visibility!Current)'
  <2>1. port[Visibility!Current] = "none" \/ GoodVisibility(Visibility!Current)
    BY DEF PortsInv, CurrentPortInv, Forwarding
  <2>2. CASE GoodVisibility(Visibility!Current) BY <1>1, <2>2, CurrentStays
  <2> QED BY <2>1, <2>2
<1>8. CurrentPortInv' BY <1>1, <1>5, <1>6, <1>7 DEF CurrentPortInv, OldGood, Forwarding
<1> QED BY <1>1, <1>2, <1>3, <1>4, <1>8, WithinPortStep DEF Forwarding

LEMMA ConnectPortStep ==
  ASSUME PortsInv,
         \/ Visibility!Connect("connect", "refresh")
         \/ Visibility!RefreshPorts
         \/ Visibility!LookForPort /\ Visibility!GoTo("create")
  PROVE  PortsInv'
<1>1. UNCHANGED <<port, late, others, before, timedOut>>
  BY DEF Visibility!Connect, Visibility!RefreshPorts, Visibility!LookForPort, Visibility!service
<1>2. CASE Visibility!Connect("connect", "refresh")
  BY <1>1, <1>2, MidPortStep DEF Visibility!Connect, Forwarding
<1>3. CASE Visibility!RefreshPorts
  BY <1>1, <1>3, MidPortStep DEF Visibility!RefreshPorts, Visibility!Connect, Forwarding
<1>4. CASE Visibility!LookForPort /\ Visibility!GoTo("create")
  BY <1>1, <1>4, MidPortStep DEF Visibility!LookForPort, Forwarding
<1> QED BY <1>2, <1>3, <1>4

\* A failure without effect.
LEMMA PlainFailure ==
  ASSUME PortsInv, Visibility!Updating, Visibility!Failed,
         UNCHANGED <<port, late, others, before, timedOut>>
  PROVE  PortsInv'
<1>1. UNCHANGED <<updates, count>> BY DEF Visibility!Failed
<1>2. port' = [p \in Ports |-> port'[p]] BY DEF PortsInv, PortsTypes
<1>3. GoodVisibility(Visibility!Current) => GoodVisibility(Visibility!Current)' BY <1>1, CurrentStays
<1>4. Visibility!Current' = Visibility!Current BY <1>1 DEF Visibility!Current
<1>5. step \in PortSteps BY DEF PortsInv, PortsTypes
<1>6. Visibility!Deleted => port'[Visibility!Current] = "none" \/ GoodVisibility(Visibility!Current)'
  <2>1. Visibility!Deleted => step \in Forwarding \cup {"connect_again", "refresh_again"}
    BY <1>5 DEF Visibility!Deleted, Forwarding, PortSteps
  <2>2. Visibility!Deleted => port[Visibility!Current] = "none" \/ GoodVisibility(Visibility!Current)
    BY <2>1 DEF PortsInv, CurrentPortInv, Forwarding
  <2> QED BY <1>3, <2>2
<1>7. ~Visibility!Deleted => GoodVisibility(Visibility!Current)'
  <2>1. ~Visibility!Deleted => step \in {"get", "delete"}
    BY <1>5 DEF Visibility!Deleted, Visibility!Updating, Visibility!Ended
  <2>2. ~Visibility!Deleted => GoodVisibility(Visibility!Current) BY <2>1 DEF PortsInv, CurrentPortInv
  <2> QED BY <1>3, <2>2
<1> QED BY <1>2, <1>6, <1>7, FailedPortStep

LEMMA CreatePortStep == ASSUME PortsInv, Visibility!CreateTunnelPort PROVE PortsInv'
<1>1. /\ step = "create" /\ UNCHANGED <<late, others, before, timedOut, unheard>>
      /\ UNCHANGED <<updates, count, old>>
      /\ Visibility!Create(Visibility!Current, Visibility!Goal)
  BY DEF Visibility!CreateTunnelPort, Visibility!GoTo, Visibility!Failed
<1>2. Visibility!Updating /\ Visibility!Deleted BY <1>1 DEF Visibility!Updating, Visibility!Ended, Visibility!Deleted
<1>3. Visibility!Current \in Ports /\ Visibility!Wanted \in AskedOf(Visibility!Current) BY <1>2, AtHand DEF PortsInv
<1>4. port = [p \in Ports |-> port[p]] BY DEF PortsInv, PortsTypes
<1>5. /\ port' = [p \in Ports |-> port'[p]]
      /\ port'[Visibility!Current] = IF port[Visibility!Current] = "none" THEN Visibility!Goal ELSE port[Visibility!Current]
      /\ \A p \in Ports : p # Visibility!Current => port'[p] = port[p]
  BY <1>1, <1>3, <1>4 DEF Visibility!Create
<1>6. PortLateInv' /\ \A p \in Ports : p # Visibility!Current => GoodVisibility(p)'
  BY <1>1, <1>2, <1>5, OnlyCurrent
<1>7. Visibility!Current' = Visibility!Current /\ AskedOf(Visibility!Current)' = AskedOf(Visibility!Current)
  BY <1>1 DEF Visibility!Current, AskedOf
<1>8. OldGood BY <1>1, <1>2 DEF PortsInv, CurrentPortInv, OldGood
<1>9. GoodVisibility(Visibility!Current)'
  <2>1. FreePort(Visibility!Current) => FreePort(Visibility!Current)' BY <1>1, <1>7 DEF FreePort
  <2>2. CASE FreePort(Visibility!Current) BY <2>1, <2>2 DEF GoodVisibility
  <2>3. CASE ~FreePort(Visibility!Current) /\ port[Visibility!Current] = "none"
    <3>1. Visibility!Goal \in {before[Visibility!Current]} \cup AskedOf(Visibility!Current)
      BY <1>3, <1>8, <2>3 DEF OldGood, Visibility!Goal
    <3> QED BY <1>1, <1>5, <1>7, <2>3, <3>1 DEF GoodVisibility
  <2>4. CASE ~FreePort(Visibility!Current) /\ port[Visibility!Current] # "none"
    <3>1. GoodVisibility(Visibility!Current) BY <1>1, <2>4 DEF PortsInv, CurrentPortInv
    <3> QED BY <1>1, <1>5, <1>7, <2>4, <3>1 DEF GoodVisibility
  <2> QED BY <2>2, <2>3, <2>4
<1>10. CASE Visibility!Failed BY <1>1, <1>2, <1>5, <1>9, <1>10, FailedPortStep
<1>11. CASE Visibility!GoTo("connect_again")
  <2>1. step' = "connect_again" BY <1>11 DEF Visibility!GoTo
  <2>2. PortsTypes' BY <1>1, <1>5, <2>1 DEF PortsInv, PortsTypes, PortSteps
  <2>3. OldGood' BY <1>1, <1>8, OldStays
  <2>4. CurrentPortInv' BY <1>9, <2>1, <2>3 DEF CurrentPortInv, OldGood
  <2> QED BY <1>1, <1>2, <1>6, <2>1, <2>2, <2>4, WithinPortStep
<1> QED BY <1>10, <1>11 DEF Visibility!CreateTunnelPort

\* The requests after the port is forwarded.
LEMMA AgainPortStep ==
  ASSUME PortsInv, Visibility!Connect("connect_again", "refresh_again") \/ Visibility!RefreshAgain
  PROVE  PortsInv'
<1>1. /\ step \in {"connect_again", "refresh_again"}
      /\ UNCHANGED <<port, late, others, before, timedOut, updates>>
  BY DEF Visibility!Connect, Visibility!RefreshAgain, Visibility!service, Visibility!GoTo, Visibility!Updated
<1>2. Visibility!Updating BY <1>1 DEF Visibility!Updating, Visibility!Ended
<1>3. GoodVisibility(Visibility!Current) BY <1>1 DEF PortsInv, CurrentPortInv
<1>4. PortLateInv' /\ \A p \in Ports : p # Visibility!Current => GoodVisibility(p)'
  BY <1>1, <1>2, OnlyCurrent
<1>5. ASSUME NEW s \in {"refresh_again", "error"}, Visibility!GoTo(s) PROVE PortsInv'
  <2>1. step' = s /\ UNCHANGED <<count, old>> BY <1>5 DEF Visibility!GoTo
  <2>2. PortsTypes' BY <1>1, <2>1 DEF PortsInv, PortsTypes, PortSteps
  <2>3. GoodVisibility(Visibility!Current)' BY <1>1, <1>3, <2>1, CurrentStays
  <2>4. OldGood BY <1>1, <1>2 DEF PortsInv, CurrentPortInv, OldGood
  <2>5. OldGood' BY <1>1, <2>1, <2>4, OldStays
  <2>6. CurrentPortInv' BY <2>1, <2>3, <2>5 DEF CurrentPortInv, OldGood
  <2> QED BY <1>1, <1>2, <1>4, <2>1, <2>2, <2>6, WithinPortStep
<1>6. CASE Visibility!Updated
  <2>1. step' \in {"ok", "get"} BY <1>6 DEF Visibility!Updated
  <2>2. PortsTypes' BY <1>1, <2>1 DEF PortsInv, PortsTypes, PortSteps
  <2>3. ASSUME NEW p \in Ports PROVE GoodVisibility(p)'
    <3>1. GoodVisibility(p) BY <1>1, <1>3 DEF PortsInv, PortOthersInv
    <3> QED BY <1>1, <3>1, GoodStays
  <2> QED BY <1>2, <1>4, <1>6, <2>2, <2>3, UpdatedPortStep
<1> QED BY <1>5, <1>6 DEF Visibility!Connect, Visibility!RefreshAgain

LEMMA FailsPortStep == ASSUME PortsInv, Visibility!RequestFails PROVE PortsInv'
<1>1. Visibility!Updating /\ Visibility!Failed /\ UNCHANGED <<port, late, others, before, timedOut>>
  BY DEF Visibility!RequestFails, Visibility!service
<1> QED BY <1>1, PlainFailure

LEMMA LookPortStep == ASSUME PortsInv, Visibility!LookForPort PROVE PortsInv'
<1>1. CASE Visibility!GoTo("create") BY <1>1, ConnectPortStep
<1>2. CASE Visibility!Failed
  <2>1. Visibility!Updating BY DEF Visibility!LookForPort, Visibility!Updating, Visibility!Ended
  <2>2. UNCHANGED <<port, late, others, before, timedOut>>
    BY DEF Visibility!LookForPort, Visibility!service
  <2> QED BY <1>2, <2>1, <2>2, PlainFailure
<1> QED BY <1>1, <1>2 DEF Visibility!LookForPort

\* Whatever is left of an update that ran out of time, its port is free.
LEMMA DeadlinePortStep == ASSUME PortsInv, Visibility!Deadline PROVE PortsInv'
<1>1. /\ Visibility!Updating /\ timedOut' = timedOut \cup {Visibility!Current}
      /\ UNCHANGED <<port, others, before, unheard, updates>>
  BY DEF Visibility!Deadline, Visibility!Updated, Visibility!GoTo
<1>2. Visibility!Current \in Ports BY <1>1, AtHand DEF PortsInv
<1>3. PortLateInv'
  <2>1. \A r \in late : r[2] \in timedOut' BY <1>1 DEF PortsInv, PortLateInv
  <2>2. late' = late \/ \E a, v : late' = late \cup {<<a, Visibility!Current, v>>}
    BY DEF Visibility!Deadline
  <2> QED BY <1>1, <2>1, <2>2 DEF PortLateInv
<1>4. ASSUME NEW p \in Ports PROVE GoodVisibility(p)'
  <2>1. CASE p = Visibility!Current BY <1>1, <2>1 DEF GoodVisibility, FreePort
  <2>2. CASE p # Visibility!Current
    <3>1. GoodVisibility(p) BY <2>2 DEF PortsInv, PortOthersInv
    <3> QED BY <1>1, <3>1, GoodStays
  <2> QED BY <2>1, <2>2
<1>5. CASE Visibility!Updated
  <2>1. step' \in {"ok", "get"} BY <1>5 DEF Visibility!Updated
  <2>2. PortsTypes' BY <1>1, <1>2, <2>1 DEF PortsInv, PortsTypes, PortSteps
  <2> QED BY <1>1, <1>3, <1>4, <1>5, <2>2, UpdatedPortStep
<1>6. CASE Visibility!GoTo("error")
  <2>1. step' = "error" /\ UNCHANGED count BY <1>6 DEF Visibility!GoTo
  <2>2. PortsTypes' BY <1>1, <1>2, <2>1 DEF PortsInv, PortsTypes, PortSteps
  <2>3. Visibility!Current' = Visibility!Current BY <1>1, <2>1 DEF Visibility!Current
  <2>4. GoodVisibility(Visibility!Current)' BY <1>2, <1>4, <2>3
  <2>5. CurrentPortInv' BY <2>1, <2>4 DEF CurrentPortInv, Visibility!Updating, Visibility!Ended
  <2> QED BY <1>1, <1>3, <1>4, <2>1, <2>2, <2>5, WithinPortStep
<1> QED BY <1>5, <1>6 DEF Visibility!Deadline

-----------------------------------------------------------------------------
(* What happens beside the command. *)

\* A step from outside changes free ports only.
LEMMA OutsidePortStep ==
  ASSUME PortsInv, Visibility!Updating,
         UNCHANGED <<Visibility!progress, step, before, timedOut, unheard, failedAgain>>,
         others \subseteq others', port' = [p \in Ports |-> port'[p]], PortLateInv',
         \A p \in Ports : port'[p] = port[p] \/ FreePort(p)'
  PROVE  PortsInv'
<1>1. UNCHANGED <<updates, count, old>> BY DEF Visibility!progress
<1>2. Visibility!Current' = Visibility!Current /\ Visibility!Current \in Ports
  BY <1>1, AtHand DEF PortsInv, Visibility!Current
<1>3. ASSUME NEW p \in Ports, GoodVisibility(p) PROVE GoodVisibility(p)'
  <2>1. CASE FreePort(p)' BY <2>1 DEF GoodVisibility
  <2>2. CASE port'[p] = port[p] BY <1>1, <1>3, <2>2, GoodStays
  <2> QED BY <2>1, <2>2
<1>4. PortsTypes' BY <1>1 DEF PortsInv, PortsTypes
<1>5. OldGood => OldGood' BY <1>1, OldStays
<1>6. GoodVisibility(Visibility!Current) => GoodVisibility(Visibility!Current)' BY <1>2, <1>3
<1>7. port[Visibility!Current] = "none" => port'[Visibility!Current] = "none" \/ GoodVisibility(Visibility!Current)'
  BY <1>2 DEF GoodVisibility
<1>8. step # "ok" /\ step # "error" BY DEF Visibility!Updating, Visibility!Ended
<1>9. CurrentPortInv'
  <2>1. step \in {"get", "delete", "connect_again", "refresh_again"} =>
          GoodVisibility(Visibility!Current)'
    BY <1>6 DEF PortsInv, CurrentPortInv
  <2>2. step \in {"connect", "refresh", "look", "create"} =>
          port'[Visibility!Current] = "none" \/ GoodVisibility(Visibility!Current)'
    BY <1>6, <1>7 DEF PortsInv, CurrentPortInv
  <2>3. step # "get" => OldGood' BY <1>5 DEF PortsInv, CurrentPortInv, OldGood
  <2> QED BY <1>2, <1>8, <2>1, <2>2, <2>3 DEF CurrentPortInv, OldGood
<1>10. \A p \in Ports : p # Visibility!Current => GoodVisibility(p)'
  BY <1>3 DEF PortsInv, PortOthersInv
<1> QED BY <1>1, <1>4, <1>8, <1>9, <1>10, WithinPortStep

LEMMA LatePortStep == ASSUME PortsInv, Visibility!LateRequest PROVE PortsInv'
<1>1. PICK r \in late :
        /\ late' = late \ {r}
        /\ IF r[1] = "delete" THEN port' = [port EXCEPT ![r[2]] = "none"]
                              ELSE Visibility!Create(r[2], r[3])
  BY DEF Visibility!LateRequest
<1>2. Visibility!Updating /\ UNCHANGED <<Visibility!progress, step, others, before, timedOut, unheard, failedAgain>>
  BY DEF Visibility!LateRequest, Visibility!history
<1>3. r[2] \in timedOut /\ r[2] \in Ports BY DEF PortsInv, PortLateInv, PortsTypes
<1>4. PortLateInv' BY <1>1, <1>2 DEF PortsInv, PortLateInv
<1>5. port = [p \in Ports |-> port[p]] BY DEF PortsInv, PortsTypes
<1>6. /\ port' = [p \in Ports |-> port'[p]]
      /\ \A p \in Ports : p # r[2] => port'[p] = port[p]
  BY <1>1, <1>3, <1>5 DEF Visibility!Create
<1>7. FreePort(r[2])' BY <1>2, <1>3 DEF FreePort
<1>8. \A p \in Ports : port'[p] = port[p] \/ FreePort(p)' BY <1>6, <1>7
<1> QED BY <1>2, <1>4, <1>6, <1>8, OutsidePortStep

LEMMA OtherPortStep == ASSUME PortsInv, Visibility!OtherForwards PROVE PortsInv'
<1>1. PICK q \in Ports \ others :
        /\ others' = others \cup {q}
        /\ port' = [port EXCEPT ![q] = "private"]
  BY DEF Visibility!OtherForwards
<1>2. Visibility!Updating /\ UNCHANGED <<Visibility!progress, step, late, before, timedOut, unheard, failedAgain>>
  BY DEF Visibility!OtherForwards, Visibility!history
<1>3. PortLateInv' BY <1>2 DEF PortsInv, PortLateInv
<1>4. port = [p \in Ports |-> port[p]] BY DEF PortsInv, PortsTypes
<1>5. /\ port' = [p \in Ports |-> port'[p]]
      /\ \A p \in Ports : p # q => port'[p] = port[p]
  BY <1>1, <1>4
<1>6. \A p \in Ports : port'[p] = port[p] \/ FreePort(p)' BY <1>1, <1>5 DEF FreePort
<1> QED BY <1>1, <1>2, <1>3, <1>5, <1>6, OutsidePortStep

-----------------------------------------------------------------------------
(* The invariant, and the theorem. *)

LEMMA PortsInit == Visibility!Init => PortsInv
<1> SUFFICES ASSUME Visibility!Init PROVE PortsInv OBVIOUS
<1>1. PICK n \in 1 .. MaxUpdates : updates \in [1 .. n -> Ports \X Visibility!Visibilities]
  BY DEF Visibility!Init
<1>2. n \in Nat \ {0} BY <1>1
<1>3. updates \in Seq(Ports \X Visibility!Visibilities) /\ Len(updates) = n BY <1>1, <1>2
<1>4. PortsTypes BY <1>3 DEF Visibility!Init, PortsTypes, PortSteps
<1>5. PortCountInv BY <1>2, <1>3 DEF Visibility!Init, PortCountInv
<1>6. \A p : GoodVisibility(p) BY DEF Visibility!Init, GoodVisibility
<1> QED BY <1>4, <1>5, <1>6 DEF Visibility!Init, PortsInv, PortLateInv, PortOthersInv, CurrentPortInv, Visibility!Updating, Visibility!Ended

LEMMA PortsNext == PortsInv /\ [Visibility!Next]_(Visibility!vars) => PortsInv'
<1> SUFFICES ASSUME PortsInv, [Visibility!Next]_(Visibility!vars) PROVE PortsInv' OBVIOUS
<1>1. CASE Visibility!Command
  BY <1>1, GetPortStep, DeletePortStep, ConnectPortStep, LookPortStep, CreatePortStep, AgainPortStep,
     FailsPortStep, DeadlinePortStep
  DEF Visibility!Command
<1>2. CASE UNCHANGED Visibility!vars
  <2>1. UNCHANGED <<port, late, others, before, updates, timedOut, step, count,
                    old, unheard, failedAgain>>
    BY <1>2 DEF Visibility!vars, Visibility!service, Visibility!progress, Visibility!history
  <2>2. AskedOf(Visibility!Current)' = AskedOf(Visibility!Current) /\ Visibility!Current' = Visibility!Current
    BY <2>1 DEF AskedOf, Visibility!Current
  <2>3. GoodVisibility(Visibility!Current)' <=> GoodVisibility(Visibility!Current) BY <2>1, <2>2 DEF GoodVisibility, FreePort
  <2>4. CurrentPortInv' BY <2>1, <2>2, <2>3 DEF PortsInv, CurrentPortInv, Visibility!Updating, Visibility!Ended, FreePort
  <2>5. ASSUME NEW p \in Ports, GoodVisibility(p) PROVE GoodVisibility(p)' BY <2>1, <2>5, GoodStays
  <2>6. PortOthersInv' BY <2>1, <2>2, <2>5 DEF PortsInv, PortOthersInv
  <2>7. PortsTypes' BY <2>1 DEF PortsInv, PortsTypes
  <2>8. PortCountInv' /\ PortLateInv' BY <2>1 DEF PortsInv, PortCountInv, PortLateInv, Visibility!Updating, Visibility!Ended
  <2> QED BY <2>4, <2>6, <2>7, <2>8 DEF PortsInv
<1> QED BY <1>1, <1>2, LatePortStep, OtherPortStep DEF Visibility!Next, Visibility!Stop

LEMMA PortsInvKept == PortsInv => Visibility!PortsKept
<1> SUFFICES ASSUME PortsInv, Visibility!Ended, NEW p \in Ports
             PROVE  \/ before[p] = "none"
                    \/ port[p] \in {before[p]} \cup AskedOf(p)
                    \/ p \in timedOut \cup others
                    \/ step = "error" /\ p = Visibility!Current /\ (unheard \/ failedAgain)
  BY DEF Visibility!PortsKept, AskedOf
<1>1. CASE GoodVisibility(p) BY <1>1 DEF GoodVisibility, FreePort
<1>2. CASE ~GoodVisibility(p)
  <2>1. step = "error" /\ p = Visibility!Current BY <1>2 DEF PortsInv, PortOthersInv, Visibility!Ended
  <2>2. unheard \/ failedAgain BY <1>2, <2>1 DEF PortsInv, CurrentPortInv
  <2> QED BY <2>1, <2>2
<1> QED BY <1>1, <1>2

Exempt(p) == p \in timedOut \cup others

LastPort(i, p) == updates[i][1] = p /\ \A j \in 1 .. count : j > i => updates[j][1] # p

\* PortsTypes, also of the requests that are served late.
PortTypes ==
  /\ port \in [Ports -> Visibility!Visibilities \cup {"none"}]
  /\ before \in [Ports -> Visibility!Visibilities \cup {"none"}]
  /\ Len(updates) <= MaxUpdates /\ allowed \subseteq Visibility!Visibilities
  /\ {restoring, failedAgain, connected, unheard} \subseteq BOOLEAN
  /\ others \subseteq Ports
  /\ \A r \in late : r[1] = "delete" \/ r[3] \in Visibility!Visibilities
  /\ step \notin {"get", "ok", "error"} => old \in Visibility!Visibilities
  /\ step \in {"get", "delete", "ok"} => ~restoring
  /\ step = "ok" => count = Len(updates)
  /\ step = "error" => count < Len(updates)

\* The port at hand is forwarded as asked before the update is done.
HandInv ==
  ~restoring =>
    /\ step \in {"connect", "refresh", "look", "create"} =>
         port[Visibility!Current] = "none" \/ Exempt(Visibility!Current)
    /\ step \in {"connect_again", "refresh_again"} =>
         port[Visibility!Current] = Visibility!Wanted \/ Exempt(Visibility!Current)

\* After each update every port is as it was last asked to be.
DoneInv ==
  step # "error" =>
    \A p \in Ports :
      \/ \A i \in 1 .. count : updates[i][1] # p
      \/ \E i \in 1 .. count :
           /\ LastPort(i, p)
           /\ \/ Exempt(p)
              \/ p = Visibility!Current /\ step \notin {"get", "ok"}
              \/ port[p] = updates[i][2]

VisibleInv == PortTypes /\ HandInv /\ DoneInv

\* An update that is done: of the others, the last that was asked is the same.
LEMMA UpdatedDone ==
  ASSUME PortsInv, VisibleInv, Visibility!Updating, Visibility!Updated, UNCHANGED port,
         timedOut \subseteq timedOut', others \subseteq others',
         port[Visibility!Current] = Visibility!Wanted \/ Visibility!Current \in timedOut' \cup others'
  PROVE  DoneInv'
<1> USE DEF VisibleInv, PortsInv
<1>1. count \in Nat /\ count < Len(updates) /\ Len(updates) \in Nat
  BY DEF PortCountInv, PortsTypes
<1>2. count' = count + 1 /\ UNCHANGED updates BY DEF Visibility!Updated
<1>3. step # "error" /\ step # "ok" BY DEF Visibility!Updating, Visibility!Ended
<1> SUFFICES ASSUME NEW p \in Ports, \E i \in 1 .. count' : updates[i][1] = p
             PROVE  \E i \in 1 .. count' :
                      /\ LastPort(i, p)'
                      /\ Exempt(p)' \/ port[p] = updates[i][2]
  BY <1>2 DEF DoneInv
<1>4. CASE p = Visibility!Current
  <2>1. PICK i \in 1 .. count' : i = count + 1 BY <1>1, <1>2
  <2>2. \A j \in 1 .. count' : ~(j > i) BY <1>1, <1>2, <2>1
  <2>3. LastPort(i, p)' BY <1>2, <1>4, <2>1, <2>2 DEF LastPort, Visibility!Current
  <2> QED BY <1>4, <2>1, <2>3 DEF Visibility!Wanted, Exempt
<1>5. CASE p # Visibility!Current
  <2>1. \E i \in 1 .. count : updates[i][1] = p BY <1>1, <1>2, <1>5 DEF Visibility!Current
  <2>2. PICK i \in 1 .. count : LastPort(i, p) /\ (Exempt(p) \/ port[p] = updates[i][2])
    BY <1>3, <1>5, <2>1 DEF DoneInv
  <2>3. i \in 1 .. count' BY <1>1, <1>2
  <2>4. LastPort(i, p)'
    <3>1. \A j \in 1 .. count' : j \in 1 .. count \/ j = count + 1 BY <1>1, <1>2
    <3> QED BY <1>2, <1>5, <2>2, <3>1 DEF LastPort, Visibility!Current
  <2> QED BY <2>2, <2>3, <2>4 DEF Exempt
<1> QED BY <1>4, <1>5

\* A step within an update.
LEMMA WithinDone ==
  ASSUME VisibleInv, step \notin {"error", "ok"}, step' \notin {"get", "ok"},
         UNCHANGED <<count, updates>>,
         timedOut \subseteq timedOut', others \subseteq others',
         \A p \in Ports : p # Visibility!Current => port'[p] = port[p]
  PROVE  DoneInv'
<1> USE DEF VisibleInv
<1> SUFFICES ASSUME step' # "error", NEW p \in Ports,
                    \E i \in 1 .. count : updates[i][1] = p
             PROVE  \E i \in 1 .. count :
                      /\ LastPort(i, p)'
                      /\ Exempt(p)' \/ p = Visibility!Current' \/ port'[p] = updates[i][2]
  BY DEF DoneInv
<1>1. PICK i \in 1 .. count :
        LastPort(i, p) /\ (Exempt(p) \/ p = Visibility!Current \/ port[p] = updates[i][2])
  BY DEF DoneInv
<1>2. LastPort(i, p)' BY <1>1 DEF LastPort
<1>3. Exempt(p) => Exempt(p)' BY DEF Exempt
<1>4. Visibility!Current' = Visibility!Current BY DEF Visibility!Current
<1> QED BY <1>1, <1>2, <1>3, <1>4

\* Somebody else's step touches only ports that are exempt from then on.
LEMMA OutsideVisible ==
  ASSUME PortsInv, VisibleInv, Visibility!LateRequest \/ Visibility!OtherForwards
  PROVE  VisibleInv'
<1> USE DEF VisibleInv
<1>1. /\ UNCHANGED <<updates, allowed, count, old, restoring, before, timedOut, failedAgain,
                     unheard, step, connected>>
      /\ late' \subseteq late /\ others \subseteq others' /\ step \notin {"ok", "error"}
  BY DEF Visibility!LateRequest, Visibility!OtherForwards, Visibility!progress, Visibility!history, Visibility!Updating, Visibility!Ended
<1>2. \E q \in Ports : /\ q \in timedOut \cup others'
                       /\ port' \in [Ports -> Visibility!Visibilities \cup {"none"}]
                       /\ \A p \in Ports : p # q => port'[p] = port[p]
      /\ others' \subseteq Ports
  <2>1. CASE Visibility!LateRequest
    <3> PICK r \in late : /\ others' = others
                          /\ IF r[1] = "delete" THEN port' = [port EXCEPT ![r[2]] = "none"]
                             ELSE Visibility!Create(r[2], r[3])
      BY <2>1 DEF Visibility!LateRequest
    <3>1. r[2] \in Ports /\ r[2] \in timedOut BY DEF PortsInv, PortLateInv, PortsTypes
    <3>2. port' = port \/ \E v \in Visibility!Visibilities \cup {"none"} : port' = [port EXCEPT ![r[2]] = v]
      BY DEF Visibility!Create, PortTypes
    <3>3. port \in [Ports -> Visibility!Visibilities \cup {"none"}] /\ others \subseteq Ports BY DEF PortTypes
    <3> QED BY <3>1, <3>2, <3>3
  <2>2. CASE Visibility!OtherForwards
    <3> PICK q \in Ports : others' = others \cup {q} /\ port' = [port EXCEPT ![q] = "private"]
      BY <2>2 DEF Visibility!OtherForwards
    <3>1. port \in [Ports -> Visibility!Visibilities \cup {"none"}] /\ others \subseteq Ports BY DEF PortTypes
    <3>2. "private" \in Visibility!Visibilities BY DEF Visibility!Visibilities
    <3> QED BY <3>1, <3>2
  <2> QED BY <2>1, <2>2
<1>3. PICK q \in Ports : /\ q \in timedOut \cup others'
                         /\ port' \in [Ports -> Visibility!Visibilities \cup {"none"}]
                         /\ \A p \in Ports : p # q => port'[p] = port[p]
  BY <1>2
<1>4. PortTypes' BY <1>1, <1>2, <1>3 DEF PortTypes
<1>5. Visibility!Current' = Visibility!Current /\ Visibility!Wanted' = Visibility!Wanted BY <1>1 DEF Visibility!Current, Visibility!Wanted
<1>6. HandInv'
  <2>1. Visibility!Current \in Ports BY <1>1, AtHand DEF PortsInv, Visibility!Updating, Visibility!Ended
  <2>2. CASE Visibility!Current = q BY <1>1, <1>3, <1>5, <2>2 DEF HandInv, Exempt
  <2>3. CASE Visibility!Current # q BY <1>1, <1>3, <1>5, <2>1, <2>3 DEF HandInv, Exempt
  <2> QED BY <2>2, <2>3
<1>7. DoneInv'
  <2> SUFFICES ASSUME NEW p \in Ports, \E i \in 1 .. count : updates[i][1] = p
               PROVE  \E i \in 1 .. count :
                        /\ LastPort(i, p)'
                        /\ \/ Exempt(p)'
                           \/ p = Visibility!Current' /\ step' \notin {"get", "ok"}
                           \/ port'[p] = updates[i][2]
    BY <1>1 DEF DoneInv
  <2>1. PICK i \in 1 .. count : /\ LastPort(i, p)
                                /\ \/ Exempt(p)
                                   \/ p = Visibility!Current /\ step \notin {"get", "ok"}
                                   \/ port[p] = updates[i][2]
    BY <1>1 DEF DoneInv
  <2>2. LastPort(i, p)' BY <1>1, <2>1 DEF LastPort
  <2>3. CASE p = q BY <1>1, <1>3, <2>2, <2>3 DEF Exempt
  <2>4. CASE p # q BY <1>1, <1>3, <1>5, <2>1, <2>2, <2>4 DEF Exempt
  <2> QED BY <2>3, <2>4
<1> QED BY <1>4, <1>6, <1>7

\* A failure: the port may have been deleted, and its old visibility is known.
LEMMA FailedVisible ==
  ASSUME PortsInv, VisibleInv, Visibility!Updating, Visibility!Failed,
         UNCHANGED <<before, timedOut, late, others, connected>>,
         port' \in [Ports -> Visibility!Visibilities \cup {"none"}], unheard' \in BOOLEAN,
         \A p \in Ports : p # Visibility!Current => port'[p] = port[p]
  PROVE  VisibleInv'
<1> USE DEF VisibleInv
<1>1. /\ step' \in {"look", "error"} /\ (step' = "look" => Visibility!Deleted)
      /\ restoring' = (Visibility!Deleted \/ restoring) /\ failedAgain' = restoring
      /\ UNCHANGED <<count, old, updates, allowed>>
  BY DEF Visibility!Failed
<1>2. restoring \in BOOLEAN /\ connected \in BOOLEAN BY DEF PortTypes
<1>3. PortTypes'
  <2>1. step' = "look" => old \in Visibility!Visibilities
    BY <1>1 DEF PortTypes, Visibility!Deleted
  <2>2. restoring' \in BOOLEAN /\ failedAgain' \in BOOLEAN BY <1>1, <1>2
  <2>3. count < Len(updates) BY DEF PortsInv, PortCountInv
  <2> QED BY <1>1, <1>2, <2>1, <2>2, <2>3 DEF PortTypes
<1>4. HandInv' BY <1>1, <1>2 DEF HandInv
<1>5. DoneInv' BY <1>1, WithinDone DEF Visibility!Updating, Visibility!Ended
<1> QED BY <1>3, <1>4, <1>5

\* One of the requests after the deletion is answered.
LEMMA MidVisible ==
  ASSUME PortsInv, VisibleInv, NEW s \in PortSteps \ {"get", "delete", "ok", "error"}, Visibility!GoTo(s),
         Visibility!Updating, step # "get",
         connected' \in BOOLEAN, UNCHANGED <<before, timedOut, late, others, unheard>>,
         port' \in [Ports -> Visibility!Visibilities \cup {"none"}],
         \A p \in Ports : p # Visibility!Current => port'[p] = port[p],
         HandInv'
  PROVE  VisibleInv'
<1> USE DEF VisibleInv
<1>1. step' = s /\ UNCHANGED <<count, old, restoring, failedAgain, updates, allowed>>
  BY DEF Visibility!GoTo
<1>2. step \notin {"get", "ok", "error"} /\ s \notin {"get", "delete", "ok", "error"}
  BY DEF Visibility!Updating, Visibility!Ended
<1>3. PortTypes' BY <1>1, <1>2 DEF PortTypes
<1>4. DoneInv' BY <1>1, <1>2, WithinDone
<1> QED BY <1>3, <1>4

\* An update that is done.
LEMMA DoneVisible ==
  ASSUME PortsInv, VisibleInv, Visibility!Updating, Visibility!Updated, ~restoring,
         UNCHANGED <<before, timedOut, others, port, unheard>>,
         connected' \in BOOLEAN, \A r \in late' : r[1] = "delete" \/ r[3] \in Visibility!Visibilities,
         port[Visibility!Current] = Visibility!Wanted \/ Exempt(Visibility!Current)
  PROVE  VisibleInv'
<1> USE DEF VisibleInv
<1>1. /\ step' = IF count' = Len(updates) THEN "ok" ELSE "get"
      /\ UNCHANGED <<restoring, failedAgain, updates, allowed>>
  BY DEF Visibility!Updated
<1>2. PortTypes' BY <1>1 DEF PortTypes
<1>3. HandInv' BY <1>1 DEF HandInv
<1>4. DoneInv' BY UpdatedDone DEF Exempt
<1> QED BY <1>2, <1>3, <1>4

LEMMA GetVisible == ASSUME PortsInv, VisibleInv, Visibility!GetTunnelPort PROVE VisibleInv'
<1> USE DEF VisibleInv
<1>1. /\ step = "get" /\ Visibility!Updating /\ Visibility!Current \in Ports /\ ~restoring
      /\ UNCHANGED <<port, late, others, before, timedOut, unheard, connected>>
  BY AtHand DEF Visibility!GetTunnelPort, Visibility!service, Visibility!Updating, Visibility!Ended, PortsInv, PortTypes
<1>2. /\ port \in [Ports -> Visibility!Visibilities \cup {"none"}] /\ unheard \in BOOLEAN
      /\ connected \in BOOLEAN /\ \A r \in late : r[1] = "delete" \/ r[3] \in Visibility!Visibilities
  BY DEF PortTypes
<1>3. CASE Visibility!Failed BY <1>1, <1>2, <1>3, FailedVisible
<1>4. CASE port[Visibility!Current] = Visibility!Wanted /\ Visibility!Updated BY <1>1, <1>2, <1>4, DoneVisible
<1>5. CASE /\ port[Visibility!Current] \notin {"none", Visibility!Wanted} /\ old' = port[Visibility!Current] /\ step' = "delete"
           /\ UNCHANGED <<count, restoring, failedAgain, updates, allowed>>
  <2>1. PortTypes' BY <1>1, <1>2, <1>5 DEF PortTypes
  <2>2. HandInv' BY <1>5 DEF HandInv
  <2>3. DoneInv' BY <1>1, <1>5, WithinDone
  <2> QED BY <2>1, <2>2, <2>3
<1> QED BY <1>3, <1>4, <1>5 DEF Visibility!GetTunnelPort

LEMMA DeleteVisible == ASSUME PortsInv, VisibleInv, Visibility!DeleteTunnelPort PROVE VisibleInv'
<1> USE DEF VisibleInv
<1>1. /\ step = "delete" /\ Visibility!Updating /\ Visibility!Current \in Ports /\ ~restoring
      /\ port' = [port EXCEPT ![Visibility!Current] = "none"]
      /\ UNCHANGED <<late, others, before, timedOut, connected>>
  BY AtHand DEF Visibility!DeleteTunnelPort, Visibility!Updating, Visibility!Ended, PortsInv, PortTypes
<1>2. /\ port \in [Ports -> Visibility!Visibilities \cup {"none"}] /\ unheard \in BOOLEAN
      /\ connected \in BOOLEAN
  BY DEF PortTypes
<1>3. /\ port' \in [Ports -> Visibility!Visibilities \cup {"none"}] /\ port'[Visibility!Current] = "none"
      /\ \A p \in Ports : p # Visibility!Current => port'[p] = port[p]
  BY <1>1, <1>2
<1>4. CASE Visibility!GoTo("connect") /\ UNCHANGED unheard
  <2>1. /\ step' = "connect" /\ UNCHANGED <<count, updates, restoring>>
    BY <1>4 DEF Visibility!GoTo
  <2>2. HandInv' BY <1>1, <1>3, <2>1 DEF HandInv, Visibility!Current
  <2>3. "connect" \in PortSteps \ {"get", "delete", "ok", "error"} BY DEF PortSteps
  <2> QED BY <1>1, <1>2, <1>3, <1>4, <2>2, <2>3, MidVisible
<1>5. CASE Visibility!Failed /\ unheard' = TRUE BY <1>1, <1>2, <1>3, <1>5, FailedVisible
<1> QED BY <1>4, <1>5 DEF Visibility!DeleteTunnelPort

LEMMA ConnectVisible ==
  ASSUME PortsInv, VisibleInv,
         Visibility!Connect("connect", "refresh") \/ Visibility!RefreshPorts \/ Visibility!Connect("connect_again", "refresh_again")
  PROVE  VisibleInv'
<1> USE DEF VisibleInv
<1>1. PICK from, to :
        /\ Visibility!Connect(from, to)
        /\ <<from, to>> \in {<<"connect", "refresh">>, <<"refresh", "look">>,
                              <<"connect_again", "refresh_again">>}
  BY DEF Visibility!RefreshPorts
<1>2. /\ step = from /\ step' = to /\ connected' = TRUE /\ Visibility!GoTo(to)
      /\ UNCHANGED <<count, restoring, updates, port, late, others, before, timedOut, unheard>>
  BY <1>1 DEF Visibility!Connect, Visibility!GoTo, Visibility!service
<1>3. Visibility!Updating /\ step # "get" /\ to \in PortSteps \ {"get", "delete", "ok", "error"}
  BY <1>1, <1>2 DEF Visibility!Updating, Visibility!Ended, PortSteps
<1>4. Visibility!Current' = Visibility!Current /\ Visibility!Wanted' = Visibility!Wanted /\ (Exempt(Visibility!Current)' <=> Exempt(Visibility!Current))
  BY <1>2 DEF Visibility!Current, Visibility!Wanted, Exempt
<1>5. HandInv' BY <1>1, <1>2, <1>4 DEF HandInv
<1>6. port' \in [Ports -> Visibility!Visibilities \cup {"none"}] BY <1>2 DEF PortTypes
<1> QED BY <1>2, <1>3, <1>5, <1>6, MidVisible

LEMMA LookVisible == ASSUME PortsInv, VisibleInv, Visibility!LookForPort PROVE VisibleInv'
<1> USE DEF VisibleInv
<1>1. /\ step = "look" /\ Visibility!Updating
      /\ UNCHANGED <<port, late, others, before, timedOut, unheard, connected>>
      /\ Visibility!GoTo("create") \/ Visibility!Failed
  BY DEF Visibility!LookForPort, Visibility!service, Visibility!Updating, Visibility!Ended
<1>2. /\ port \in [Ports -> Visibility!Visibilities \cup {"none"}] /\ unheard \in BOOLEAN
      /\ connected \in BOOLEAN
  BY DEF PortTypes
<1>3. CASE Visibility!GoTo("create")
  <2>1. /\ step' = "create" /\ UNCHANGED <<count, updates, restoring>>
    BY <1>3 DEF Visibility!GoTo
  <2>2. HandInv' BY <1>1, <2>1 DEF HandInv, Visibility!Current, Exempt
  <2>3. "create" \in PortSteps \ {"get", "delete", "ok", "error"} BY DEF PortSteps
  <2> QED BY <1>1, <1>2, <1>3, <2>2, <2>3, MidVisible
<1>4. CASE Visibility!Failed BY <1>1, <1>2, <1>4, FailedVisible
<1> QED BY <1>1, <1>3, <1>4

LEMMA CreateVisible == ASSUME PortsInv, VisibleInv, Visibility!CreateTunnelPort PROVE VisibleInv'
<1> USE DEF VisibleInv
<1>1. /\ step = "create" /\ Visibility!Updating /\ Visibility!Current \in Ports /\ Visibility!Wanted \in Visibility!Visibilities
      /\ Visibility!Create(Visibility!Current, Visibility!Goal)
      /\ UNCHANGED <<late, others, before, timedOut, unheard, connected>>
      /\ Visibility!GoTo("connect_again") \/ Visibility!Failed
  BY AtHand DEF Visibility!CreateTunnelPort, Visibility!Updating, Visibility!Ended, PortsInv
<1>2. /\ port \in [Ports -> Visibility!Visibilities \cup {"none"}] /\ unheard \in BOOLEAN
      /\ connected \in BOOLEAN /\ Visibility!Goal \in Visibility!Visibilities
  BY <1>1 DEF PortTypes, Visibility!Goal
<1>3. /\ port' \in [Ports -> Visibility!Visibilities \cup {"none"}]
      /\ \A p \in Ports : p # Visibility!Current => port'[p] = port[p]
      /\ port[Visibility!Current] = "none" => port'[Visibility!Current] = Visibility!Goal
  BY <1>1, <1>2 DEF Visibility!Create
<1>4. CASE Visibility!GoTo("connect_again")
  <2>1. /\ step' = "connect_again" /\ UNCHANGED <<count, updates, restoring>>
    BY <1>4 DEF Visibility!GoTo
  <2>2. HandInv' BY <1>1, <1>3, <2>1 DEF HandInv, Visibility!Current, Visibility!Wanted, Visibility!Goal, Exempt
  <2>3. "connect_again" \in PortSteps \ {"get", "delete", "ok", "error"} BY DEF PortSteps
  <2> QED BY <1>1, <1>2, <1>3, <1>4, <2>2, <2>3, MidVisible
<1>5. CASE Visibility!Failed BY <1>1, <1>2, <1>3, <1>5, FailedVisible
<1> QED BY <1>1, <1>4, <1>5

\* The update ends with an error.
LEMMA GivenUpVisible ==
  ASSUME PortsInv, VisibleInv, Visibility!Updating, Visibility!GoTo("error"), UNCHANGED <<before, port, others, unheard, connected>>,
         \A r \in late' : r[1] = "delete" \/ r[3] \in Visibility!Visibilities
  PROVE  VisibleInv'
BY DEF PortsInv, PortCountInv, VisibleInv, Visibility!GoTo, PortTypes, HandInv, DoneInv

LEMMA AgainVisible == ASSUME PortsInv, VisibleInv, Visibility!RefreshAgain PROVE VisibleInv'
<1> USE DEF VisibleInv
<1>1. /\ step = "refresh_again" /\ Visibility!Updating
      /\ UNCHANGED <<port, late, others, before, timedOut, unheard, connected>>
      /\ connected \in BOOLEAN /\ \A r \in late : r[1] = "delete" \/ r[3] \in Visibility!Visibilities
  BY DEF Visibility!RefreshAgain, Visibility!service, Visibility!Updating, Visibility!Ended, PortTypes
<1>2. CASE restoring BY <1>1, <1>2, GivenUpVisible DEF Visibility!RefreshAgain
<1>3. CASE ~restoring
  <2>1. port[Visibility!Current] = Visibility!Wanted \/ Exempt(Visibility!Current) BY <1>1, <1>3 DEF HandInv
  <2> QED BY <1>1, <1>3, <2>1, DoneVisible DEF Visibility!RefreshAgain
<1> QED BY <1>2, <1>3

\* When the time is over the port is exempt.
LEMMA DeadlineVisible == ASSUME PortsInv, VisibleInv, Visibility!Deadline PROVE VisibleInv'
<1> USE DEF VisibleInv
<1>1. /\ Visibility!Updating /\ timedOut' = timedOut \cup {Visibility!Current}
      /\ UNCHANGED <<port, others, before, unheard, connected>>
      /\ Visibility!Current \in Ports /\ Visibility!Wanted \in Visibility!Visibilities
  BY AtHand DEF Visibility!Deadline, PortsInv
<1>2. \A r \in late' : r[1] = "delete" \/ r[3] \in Visibility!Visibilities
  <2>1. step = "create" => Visibility!Goal \in Visibility!Visibilities BY <1>1 DEF PortTypes, Visibility!Goal
  <2>2. \A r \in late' : \/ r \in late
                         \/ r[1] = "delete"
                         \/ step = "create" /\ r[3] = Visibility!Goal
    BY DEF Visibility!Deadline
  <2> QED BY <2>1, <2>2 DEF PortTypes
<1>3. CASE Visibility!GoTo("error") BY <1>1, <1>2, <1>3, GivenUpVisible
<1>4. CASE ~restoring /\ Visibility!Updated
  <2>1. /\ step' = IF count' = Len(updates) THEN "ok" ELSE "get"
        /\ UNCHANGED <<restoring, failedAgain, updates, allowed>>
    BY <1>4 DEF Visibility!Updated
  <2>2. PortTypes' BY <1>1, <1>2, <1>4, <2>1 DEF PortTypes
  <2>3. HandInv' BY <2>1 DEF HandInv
  <2>4. DoneInv' BY <1>1, <1>4, UpdatedDone
  <2> QED BY <2>2, <2>3, <2>4
<1> QED BY <1>3, <1>4 DEF Visibility!Deadline

LEMMA VisibleInit == Visibility!Init => VisibleInv
<1> SUFFICES ASSUME Visibility!Init PROVE VisibleInv OBVIOUS
<1> USE DEF Visibility!Init
<1>1. PICK n \in 1 .. MaxUpdates : updates \in [1 .. n -> Ports \X Visibility!Visibilities] OBVIOUS
<1>2. Len(updates) = n BY <1>1, PortsAssumption
<1>3. PortTypes
  <2>1. Len(updates) <= MaxUpdates BY <1>2, PortsAssumption
  <2>2. {restoring, failedAgain, connected, unheard} \subseteq BOOLEAN /\ ~restoring OBVIOUS
  <2>3. before \in [Ports -> Visibility!Visibilities \cup {"none"}] /\ step = "get" OBVIOUS
  <2> QED BY <2>1, <2>2, <2>3 DEF PortTypes
<1>4. HandInv BY DEF HandInv
<1>5. DoneInv BY DEF DoneInv
<1> QED BY <1>3, <1>4, <1>5 DEF VisibleInv

LEMMA VisibleNext == PortsInv /\ VisibleInv /\ [Visibility!Next]_(Visibility!vars) => VisibleInv'
<1> SUFFICES ASSUME PortsInv, VisibleInv, [Visibility!Next]_(Visibility!vars) PROVE VisibleInv' OBVIOUS
<1>1. CASE UNCHANGED Visibility!vars
  BY <1>1 DEF Visibility!vars, Visibility!service, Visibility!progress, Visibility!history, VisibleInv, PortTypes, HandInv, DoneInv, Exempt,
              LastPort, Visibility!Current, Visibility!Wanted
<1>2. CASE Visibility!RequestFails
  <2>1. /\ port \in [Ports -> Visibility!Visibilities \cup {"none"}] /\ unheard \in BOOLEAN
    BY DEF VisibleInv, PortTypes
  <2> QED BY <1>2, <2>1, FailedVisible DEF Visibility!RequestFails, Visibility!service
<1> QED BY <1>1, <1>2, OutsideVisible, GetVisible, DeleteVisible, ConnectVisible, LookVisible,
           CreateVisible, AgainVisible, DeadlineVisible
        DEF Visibility!Next, Visibility!Command, Visibility!Stop

\* The last visibility asked for a port is the one that Asked chooses.
LEMMA VisibleProperties == PortsInv /\ VisibleInv => Visibility!TypeOK /\ Visibility!SuccessMeansVisible
<1> SUFFICES ASSUME PortsInv, VisibleInv PROVE Visibility!TypeOK /\ Visibility!SuccessMeansVisible OBVIOUS
<1> USE DEF PortsInv, VisibleInv
<1>1. Visibility!TypeOK
  <2>1. count \in Nat /\ Len(updates) \in Nat /\ (Visibility!Updating => count < Len(updates))
    BY DEF PortCountInv, PortsTypes
  <2>2. count \in 0 .. Len(updates) BY <2>1 DEF PortTypes, Visibility!Updating, Visibility!Ended
  <2>3. Visibility!Deleted => old \in Visibility!Visibilities BY DEF PortTypes, Visibility!Deleted
  <2> QED BY <2>1, <2>2, <2>3 DEF Visibility!TypeOK, PortTypes, PortsTypes
<1>2. ASSUME step = "ok", NEW p \in Visibility!AskedPorts \ (timedOut \cup others)
      PROVE  port[p] = Visibility!Asked(p)
  <2>1. count = Len(updates) BY <1>2 DEF PortTypes
  <2>2. PICK i \in 1 .. count : LastPort(i, p) /\ port[p] = updates[i][2]
    <3>1. PICK k \in 1 .. count : updates[k][1] = p BY <1>2, <2>1 DEF Visibility!AskedPorts
    <3>2. p \in Ports BY <2>1, <3>1 DEF PortsTypes
    <3> QED BY <1>2, <3>1, <3>2 DEF DoneInv, Exempt
  <2> DEFINE IsLast(l) == /\ updates[l][1] = p
                          /\ \A j \in l + 1 .. Len(updates) : updates[j][1] # p
             last == CHOOSE l \in 1 .. Len(updates) : IsLast(l)
  <2>3. Len(updates) \in Nat BY DEF PortsTypes
  <2>4. IsLast(i) BY <2>1, <2>2, <2>3 DEF LastPort
  <2>5. last \in 1 .. Len(updates) /\ IsLast(last) BY <2>1, <2>4
  <2>6. last = i
    <3>1. ~(last > i) BY <2>1, <2>2, <2>5 DEF LastPort
    <3>2. ~(i > last) BY <2>1, <2>2, <2>3, <2>5 DEF LastPort
    <3> HIDE DEF last
    <3> QED BY <2>1, <2>3, <2>5, <3>1, <3>2
  <2> QED BY <2>2, <2>6 DEF Visibility!Asked
<1> QED BY <1>1, <1>2 DEF Visibility!SuccessMeansVisible

VisibilityInv == PortsInv /\ VisibleInv

LEMMA VisibilityInit == Visibility!Init => VisibilityInv
BY PortsInit, VisibleInit DEF VisibilityInv

LEMMA VisibilityNext == VisibilityInv /\ [Visibility!Next]_(Visibility!vars) => VisibilityInv'
BY PortsNext, VisibleNext DEF VisibilityInv

LEMMA VisibilityProperties ==
  VisibilityInv => Visibility!TypeOK /\ Visibility!SuccessMeansVisible /\ Visibility!PortsKept
BY PortsInvKept, VisibleProperties DEF VisibilityInv

-----------------------------------------------------------------------------
(* gh codespace create. *)

LEMMA CreateAssumption == MaxSteps \in Nat
BY CommandsAssumption DEF CommandsAssumption

BeforeCreation == {"create", "ask", "permissions", "create_again"}
ShowingProgress == {"connect", "invoker", "ssh_server", "poll"}

\* A second codespace is never requested; what follows the creation has one.
CreatedInv ==
  /\ pc \in BeforeCreation => created = 0
  /\ pc \in ShowingProgress \cup {"provision", "ok"} => created = 1

\* A codespace that was created has the permissions it needs, or does without.
PermittedInv ==
  pc \in ShowingProgress \cup {"provision", "ok"} => ~Create!Refused

\* What is used after the creation is available, and the polling of steps is
\* stopped by a poll that has found none.
ReadyInv ==
  /\ pc \in ShowingProgress \cup {"ok"} => provisioned
  /\ pc \in ShowingProgress => showStatus
  /\ stopped => seen = "finished"
  /\ pc = "ok" /\ showStatus => stopped

CreateInv == Create!TypeOK /\ CreatedInv /\ PermittedInv /\ ReadyInv

LEMMA CreateInit == Create!Init => CreateInv
<1> SUFFICES ASSUME Create!Init PROVE CreateInv OBVIOUS
<1> USE DEF Create!Init
<1>1. Create!TypeOK
  <2>1. created \in 0 .. 1 /\ shown \in 0 .. MaxSteps BY CreateAssumption
  <2> QED BY <2>1 DEF Create!TypeOK
<1>2. CreatedInv /\ PermittedInv /\ ReadyInv
  BY DEF CreatedInv, PermittedInv, ReadyInv, BeforeCreation, ShowingProgress
<1> QED BY <1>1, <1>2 DEF CreateInv

LEMMA CreationKeeps == ASSUME CreateInv, Create!CreateCodespace PROVE CreateInv'
<1> USE DEF CreateInv
<1>1. /\ pc \in {"create", "create_again"} /\ ~Create!Refused
      /\ created' = created + 1 /\ provisioned' \in BOOLEAN
      /\ UNCHANGED <<permissions, shown, running, showStatus, optOut, seen, breakNext, stopped,
                     tunnel>>
      /\ elapsed' = FALSE
  BY DEF Create!CreateCodespace, Create!status
<1>2. pc' \in {"connect", "provision", "ok", "error"}
  BY DEF Create!CreateCodespace, Create!AfterCreation
<1>3. /\ pc' \in {"connect", "ok"} => provisioned'
      /\ pc' = "connect" => showStatus
      /\ pc' = "ok" => ~showStatus
  <2>1. CASE showStatus BY <2>1 DEF Create!CreateCodespace, Create!AfterCreation
  <2>2. CASE ~showStatus BY <2>2 DEF Create!CreateCodespace, Create!AfterCreation
  <2> QED BY <2>1, <2>2
<1>4. created' = 1 BY <1>1 DEF CreatedInv, BeforeCreation
<1>5. Create!TypeOK'
  <2>1. created' \in 0 .. 1 BY <1>4
  <2>2. {provisioned', running', showStatus', optOut', elapsed', breakNext', stopped'}
          \subseteq BOOLEAN
    BY <1>1 DEF Create!TypeOK
  <2>3. permissions' \in {"not_needed", "needed", "granted"} /\ shown' \in 0 .. MaxSteps
        /\ seen' \in {"none", "running", "finished"} /\ tunnel' \in {"open", "closed"}
    BY <1>1 DEF Create!TypeOK
  <2> QED BY <1>2, <2>1, <2>2, <2>3 DEF Create!TypeOK
<1>6. CreatedInv' /\ PermittedInv'
  BY <1>1, <1>2, <1>4 DEF CreatedInv, PermittedInv, BeforeCreation, ShowingProgress, Create!Refused
<1>7. ReadyInv' BY <1>1, <1>2, <1>3 DEF ReadyInv, ShowingProgress
<1> QED BY <1>5, <1>6, <1>7

LEMMA PermissionsKeep ==
  ASSUME CreateInv, Create!PermissionsRequired \/ Create!Ask \/ Create!PollPermissions
  PROVE  CreateInv'
<1> USE DEF CreateInv
<1>1. /\ pc \in BeforeCreation /\ pc' \in {"ask", "permissions", "create_again", "error"}
      /\ optOut' \in {optOut, TRUE} /\ elapsed' \in {elapsed, FALSE}
      /\ UNCHANGED <<permissions, created, provisioned, shown, running, showStatus, seen,
                     breakNext, stopped, tunnel>>
  <2>1. CASE Create!PermissionsRequired BY <2>1 DEF Create!PermissionsRequired, BeforeCreation, Create!server, Create!status
  <2>2. CASE Create!Ask BY <2>2 DEF Create!Ask, BeforeCreation, Create!server, Create!status
  <2>3. CASE Create!PollPermissions BY <2>3 DEF Create!PollPermissions, BeforeCreation, Create!server, Create!status
  <2> QED BY <2>1, <2>2, <2>3
<1>2. Create!TypeOK' BY <1>1 DEF Create!TypeOK
<1>3. CreatedInv' /\ PermittedInv' /\ ReadyInv'
  BY <1>1 DEF CreatedInv, PermittedInv, ReadyInv, BeforeCreation, ShowingProgress
<1> QED BY <1>2, <1>3

LEMMA ShowingKeeps ==
  ASSUME CreateInv,
         \/ Create!PollProvisioning \/ Create!Prepare \/ Create!Tick \/ Create!Cancelled \/ Create!TunnelClosed
         \/ Create!RequestFails \/ Create!TunnelCloses \/ Create!TimePasses
  PROVE  CreateInv'
<1> USE DEF CreateInv
<1>1. UNCHANGED <<permissions, created, provisioned, shown, running, showStatus, optOut>>
  BY DEF Create!PollProvisioning, Create!Prepare, Create!Tick, Create!Cancelled, Create!TunnelClosed, Create!RequestFails,
         Create!TunnelCloses, Create!TimePasses, Create!server
<1>2. CASE Create!PollProvisioning
  <2>1. /\ pc = "provision" /\ pc' \in {"connect", "ok", "error"}
        /\ pc' \in {"connect", "ok"} => provisioned
        /\ pc' = "connect" => showStatus
        /\ pc' = "ok" => ~showStatus
        /\ UNCHANGED <<elapsed, seen, breakNext, stopped, tunnel>>
    BY <1>2 DEF Create!PollProvisioning, Create!AfterCreation, Create!status
  <2>2. Create!TypeOK' BY <1>1, <2>1 DEF Create!TypeOK
  <2>3. CreatedInv' /\ PermittedInv' /\ ReadyInv'
    BY <1>1, <2>1 DEF CreatedInv, PermittedInv, ReadyInv, BeforeCreation, ShowingProgress, Create!Refused
  <2> QED BY <2>2, <2>3
<1>3. CASE Create!Prepare \/ Create!TunnelClosed \/ Create!RequestFails \/ Create!TunnelCloses \/ Create!TimePasses
  <2>1. /\ pc' \in {pc, "error"} \/ (pc \in ShowingProgress /\ pc' \in ShowingProgress)
        /\ elapsed' \in {elapsed, TRUE} /\ tunnel' \in {tunnel, "closed"}
        /\ UNCHANGED <<seen, breakNext, stopped>>
    <3>1. CASE Create!Prepare BY <3>1 DEF Create!Prepare, ShowingProgress, Create!status
    <3>2. CASE Create!TunnelClosed \/ Create!RequestFails BY <3>2 DEF Create!TunnelClosed, Create!RequestFails, Create!status
    <3>3. CASE Create!TunnelCloses \/ Create!TimePasses BY <3>3 DEF Create!TunnelCloses, Create!TimePasses, Create!status
    <3> QED BY <1>3, <3>1, <3>2, <3>3
  <2>2. Create!TypeOK' BY <1>1, <2>1 DEF Create!TypeOK, ShowingProgress
  <2>3. CreatedInv' /\ PermittedInv' /\ ReadyInv'
    BY <1>1, <2>1 DEF CreatedInv, PermittedInv, ReadyInv, BeforeCreation, ShowingProgress, Create!Refused
  <2> QED BY <2>2, <2>3
<1>4. CASE Create!Tick \/ Create!Cancelled
  <2>1. /\ pc = "poll" /\ pc' \in {"poll", "ok"} /\ UNCHANGED <<elapsed, tunnel>>
        /\ pc' = "ok" => stopped /\ UNCHANGED <<seen, breakNext, stopped>>
    BY <1>4 DEF Create!Tick, Create!Cancelled, Create!status
  <2>2. /\ {breakNext', stopped'} \subseteq BOOLEAN
        /\ seen' \in {"none", "running", "finished"}
        /\ stopped' => seen' = "finished"
    <3>1. CASE UNCHANGED <<seen, breakNext, stopped>> BY <3>1 DEF Create!TypeOK, ReadyInv
    <3>2. CASE Create!Poller BY <3>2 DEF Create!Poller, Create!TypeOK
    <3> QED BY <1>4, <3>1, <3>2 DEF Create!Tick, Create!Cancelled, Create!status
  <2>3. Create!TypeOK' BY <1>1, <2>1, <2>2 DEF Create!TypeOK
  <2>4. CreatedInv' /\ PermittedInv'
    BY <1>1, <2>1 DEF CreatedInv, PermittedInv, BeforeCreation, ShowingProgress, Create!Refused
  <2>5. ReadyInv' BY <1>1, <2>1, <2>2 DEF ReadyInv, ShowingProgress
  <2> QED BY <2>3, <2>4, <2>5
<1> QED BY <1>2, <1>3, <1>4

\* The service grants what was needed, only while gh asks for it, and makes
\* available what was created.
LEMMA ServiceKeeps == ASSUME CreateInv, Create!Service PROVE CreateInv'
<1> USE DEF CreateInv
<1>1. /\ UNCHANGED <<created, pc, showStatus, optOut, elapsed, seen, breakNext, stopped, tunnel>>
      /\ \/ UNCHANGED permissions
         \/ pc = "permissions" /\ permissions' = "granted"
      /\ provisioned' \in BOOLEAN /\ (provisioned => provisioned')
      /\ running' \in BOOLEAN
      /\ shown' \in 0 .. MaxSteps
  <2>1. UNCHANGED <<created, pc, showStatus, optOut, elapsed, seen, breakNext, stopped, tunnel>>
    BY DEF Create!Service, Create!status
  <2>2. provisioned \in BOOLEAN /\ running \in BOOLEAN /\ shown \in 0 .. MaxSteps
    BY DEF Create!TypeOK
  <2>3. CASE pc = "permissions" /\ permissions' = "granted" /\ UNCHANGED <<provisioned, shown, running>>
    BY <2>1, <2>2, <2>3
  <2>4. CASE provisioned' = TRUE /\ UNCHANGED <<permissions, shown, running>>
    BY <2>1, <2>2, <2>4
  <2>5. CASE /\ shown < MaxSteps /\ shown' = shown + 1 /\ running' = TRUE
             /\ UNCHANGED <<permissions, provisioned>>
    <3>1. shown' \in 0 .. MaxSteps BY <2>2, <2>5, CreateAssumption
    <3> QED BY <2>1, <2>2, <2>5, <3>1
  <2>6. CASE running' = FALSE /\ UNCHANGED <<permissions, provisioned, shown>>
    BY <2>1, <2>2, <2>6
  <2> QED BY <2>3, <2>4, <2>5, <2>6 DEF Create!Service
<1>2. Create!TypeOK' BY <1>1 DEF Create!TypeOK
<1>3. CreatedInv' /\ PermittedInv' /\ ReadyInv'
  BY <1>1 DEF CreatedInv, PermittedInv, ReadyInv, BeforeCreation, ShowingProgress, Create!Refused
<1> QED BY <1>2, <1>3

LEMMA CreateNext == CreateInv /\ [Create!Next]_(Create!vars) => CreateInv'
<1> SUFFICES ASSUME CreateInv, [Create!Next]_(Create!vars) PROVE CreateInv' OBVIOUS
<1>1. CASE UNCHANGED Create!vars
  BY <1>1 DEF Create!vars, Create!server, Create!status, CreateInv, Create!TypeOK, CreatedInv, PermittedInv, ReadyInv,
              Create!Refused
<1> QED BY <1>1, CreationKeeps, PermissionsKeep, ShowingKeeps, ServiceKeeps
        DEF Create!Next, Create!Command, Create!Stop

LEMMA CreateProperties == CreateInv => Create!TypeOK /\ Create!SuccessMeansCreated
BY DEF CreateInv, CreatedInv, PermittedInv, ReadyInv, Create!Refused, Create!SuccessMeansCreated

-----------------------------------------------------------------------------
(* gh codespace delete. *)

\* What is chosen was asked for, and nothing asked for is forgotten.
ChosenInv ==
  /\ given \ (chosen \cup undecided) \subseteq listed
  /\ pc = "list" => chosen = {}
  /\ pc \in {"delete", "ok"} => undecided = {} /\ chosen # {}
  /\ \A c \in chosen : force \/ c \notin listed \/ c \in confirmed

\* What has been deleted does not come back.
JobInv ==
  \A c \in Codespaces :
    /\ job[c] = "deleted" => c \notin there
    /\ job[c] # "none" => c \in chosen /\ pc \in {"delete", "ok", "error"}
    /\ pc \in {"delete", "ok"} /\ c \in chosen => job[c] # "none"
    /\ pc = "ok" /\ c \in chosen => job[c] = "deleted"

DeleteInv == Delete!TypeOK /\ ChosenInv /\ JobInv

LEMMA DeleteInit == Delete!Init => DeleteInv
BY DEF Delete!Init, DeleteInv, Delete!TypeOK, ChosenInv, JobInv

LEMMA ChoosingKeeps ==
  ASSUME DeleteInv, Delete!List \/ (\E c \in Codespaces : Delete!Confirm(c)) \/ Delete!Others
  PROVE  DeleteInv'
<1> USE DEF DeleteInv
<1>1. CASE Delete!List
  <2> USE <1>1 DEF Delete!List, Delete!service
  <2>1. Delete!TypeOK' BY DEF Delete!TypeOK, ChosenInv
  <2>2. ChosenInv' /\ JobInv' BY DEF ChosenInv, JobInv
  <2> QED BY <2>1, <2>2
<1>2. CASE \E c \in Codespaces : Delete!Confirm(c)
  <2> PICK c \in Codespaces : Delete!Confirm(c) BY <1>2
  <2>1. /\ pc = "confirm" /\ c \in undecided /\ undecided' = undecided \ {c}
        /\ UNCHANGED <<there, unsaved, given, force, listed, job>>
        /\ \/ /\ chosen' = chosen \cup {c} /\ UNCHANGED pc
              /\ \/ (force \/ c \notin listed) /\ UNCHANGED confirmed
                 \/ confirmed' = confirmed \cup {c}
           \/ c \in listed /\ UNCHANGED <<chosen, confirmed>> /\ pc' \in {pc, "error"}
    BY DEF Delete!Confirm, Delete!service
  <2>2. Delete!TypeOK' BY <2>1 DEF Delete!TypeOK
  <2>3. ChosenInv' BY <2>1 DEF ChosenInv
  <2>4. JobInv' BY <2>1 DEF JobInv
  <2> QED BY <2>2, <2>3, <2>4
<1>3. CASE Delete!Others
  <2> USE <1>3 DEF Delete!Others, Delete!choice
  <2>1. Delete!TypeOK' BY DEF Delete!TypeOK
  <2>2. ChosenInv' /\ JobInv' BY DEF ChosenInv, JobInv
  <2> QED BY <2>1, <2>2
<1> QED BY <1>1, <1>2, <1>3

LEMMA DeletingKeeps ==
  ASSUME DeleteInv, Delete!Start \/ Delete!Return \/ \E c \in Codespaces : Delete!Delete(c)
  PROVE  DeleteInv'
<1> USE DEF DeleteInv
<1>1. CASE Delete!Start
  <2> USE <1>1 DEF Delete!Start, Delete!service, Delete!choice
  <2>1. Delete!TypeOK' BY DEF Delete!TypeOK
  <2>2. ChosenInv' BY DEF ChosenInv
  <2>3. JobInv' BY DEF JobInv, Delete!TypeOK
  <2> QED BY <2>1, <2>2, <2>3
<1>2. CASE Delete!Return
  <2> USE <1>2 DEF Delete!Return, Delete!service, Delete!choice
  <2>1. Delete!TypeOK' BY DEF Delete!TypeOK
  <2>2. ChosenInv' BY DEF ChosenInv
  <2>3. JobInv' BY DEF JobInv, Delete!TypeOK
  <2> QED BY <2>1, <2>2, <2>3
<1>3. CASE \E c \in Codespaces : Delete!Delete(c)
  <2> PICK c \in Codespaces : Delete!Delete(c) BY <1>3
  <2>1. /\ job[c] = "request"
        /\ \E s \in {"deleted", "failed"} :
             job' = [job EXCEPT ![c] = s] /\ (s = "deleted" => c \notin there')
        /\ there' \subseteq there
        /\ UNCHANGED <<unsaved, given, force, listed, undecided, confirmed, chosen, pc>>
    BY DEF Delete!Delete, Delete!choice
  <2>2. Delete!TypeOK' BY <2>1 DEF Delete!TypeOK
  <2>3. ChosenInv' BY <2>1 DEF ChosenInv
  <2>4. JobInv'
    <3>1. pc # "ok" BY <2>1 DEF JobInv
    <3> QED BY <2>1, <3>1 DEF JobInv, Delete!TypeOK
  <2> QED BY <2>2, <2>3, <2>4
<1> QED BY <1>1, <1>2, <1>3

LEMMA DeleteNext == DeleteInv /\ [Delete!Next]_(Delete!vars) => DeleteInv'
<1> SUFFICES ASSUME DeleteInv, [Delete!Next]_(Delete!vars) PROVE DeleteInv' OBVIOUS
<1>1. CASE UNCHANGED Delete!vars
  BY <1>1 DEF Delete!vars, Delete!service, Delete!choice, DeleteInv, Delete!TypeOK, ChosenInv, JobInv
<1> QED BY <1>1, ChoosingKeeps, DeletingKeeps DEF Delete!Next, Delete!Command, Delete!Stop

LEMMA DeleteProperties == DeleteInv => Delete!TypeOK /\ Delete!SuccessMeansDeleted
BY DEF DeleteInv, Delete!SuccessMeansDeleted, ChosenInv, JobInv, Delete!TypeOK

LEMMA DeleteKeepsExisting == DeleteInv /\ [Delete!Next]_(Delete!vars) => Delete!KeepsExisting
BY DEF DeleteInv, Delete!KeepsExisting, ChosenInv, JobInv, Delete!TypeOK

-----------------------------------------------------------------------------
(* The key pair of gh codespace ssh. *)

LEMMA KeysAssumption == MaxCommands \in Nat
BY CommandsAssumption DEF CommandsAssumption

Private == keyFile["codespaces.auto"]
Public  == keyFile["codespaces.auto.pub"]

KeyTypes ==
  /\ keyFile \in [Keys!AutoFiles \cup Keys!OldFiles -> Nat]
  /\ \A f \in Keys!AutoFiles \cup Keys!OldFiles : keyFile[f] <= pairs
  /\ pairs \in Nat \ {0, 1} /\ count \in 0 .. MaxCommands
  /\ pc \in {"idle", "look", "old_public", "old_private", "generate", "keygen",
             "public", "use"}
  /\ asked \in {"none", "auto"}
  /\ selected \in {"none", "auto", "own", "error", "killed"}
  /\ damaged \in BOOLEAN

\* A command makes one pair at most.
PairsInv ==
  /\ pairs <= count + 2
  /\ pc \in {"look", "old_public", "old_private", "generate", "keygen"} => pairs <= count + 1

\* The old files are of pair 1 as long as they are there; between the two
\* renamings the automatic public key is of that pair.
OldInv ==
  /\ \A f \in Keys!OldFiles : keyFile[f] \in {0, 1}
  /\ pc = "old_private" => keyFile["codespaces"] = 1 /\ Public = 1

\* Until something is damaged: the automatic private key has its public key,
\* but for the moments between their making or renaming; and where gh has looked
\* for the pair it renames an old one only if there is none.
MatchInv ==
  ~damaged =>
    /\ pc \notin {"public", "old_private"} /\ Private # 0 => Private = Public
    /\ pc \in {"old_public", "old_private"} /\ asked = "none" => Private = 0
    /\ pc = "public" => Private = pairs
    /\ pc = "use" => Private # 0

KeygenInv == pc = "keygen" => Private = 0

SelectedInv ==
  selected = "auto" => pc = "idle" /\ (~damaged => Private # 0 /\ Private = Public)

KeysInv == KeyTypes /\ PairsInv /\ OldInv /\ MatchInv /\ KeygenInv /\ SelectedInv

LEMMA KeysInit == Keys!Init => KeysInv
<1> SUFFICES ASSUME Keys!Init PROVE KeysInv OBVIOUS
<1>1. PICK files \in SUBSET (Keys!AutoFiles \cup Keys!OldFiles) :
        keyFile = [f \in Keys!AutoFiles \cup Keys!OldFiles |->
                     IF f \notin files THEN 0 ELSE IF f \in Keys!OldFiles THEN 1 ELSE 2]
  BY DEF Keys!Init
<1>2. /\ keyFile \in [Keys!AutoFiles \cup Keys!OldFiles -> {0, 1, 2}]
      /\ \A f \in Keys!OldFiles : keyFile[f] \in {0, 1}
      /\ Private \in {0, 2} /\ Public \in {0, 2}
  BY <1>1 DEF Keys!AutoFiles, Keys!OldFiles, Private, Public
<1>3. KeyTypes
  <2>1. \A n \in {0, 1, 2} : n \in Nat /\ n <= 2 OBVIOUS
  <2>2. count \in 0 .. MaxCommands /\ pairs = 2 BY KeysAssumption DEF Keys!Init
  <2>3. damaged \in BOOLEAN BY DEF Keys!Init
  <2> QED BY <1>2, <2>1, <2>2, <2>3 DEF Keys!Init, KeyTypes
<1>4. PairsInv /\ KeygenInv /\ SelectedInv BY DEF Keys!Init, PairsInv, KeygenInv, SelectedInv
<1>5. OldInv BY <1>2 DEF Keys!Init, OldInv
<1>6. MatchInv BY <1>2 DEF Keys!Init, MatchInv, Keys!Exists, Private, Public
<1> QED BY <1>3, <1>4, <1>5, <1>6 DEF KeysInv

\* Steps that leave the files alone.
LEMMA KeyStepsKeep ==
  ASSUME KeysInv, Keys!Begin \/ Keys!Look \/ Keys!Generate \/ Keys!Use \/ Keys!Kill
  PROVE  KeysInv'
<1> USE KeysAssumption DEF KeysInv, Keys!keys, Keys!GoTo, Keys!Done
<1>1. CASE Keys!Begin
  <2> USE <1>1 DEF Keys!Begin
  <2>1. KeyTypes' /\ PairsInv' BY DEF KeyTypes, PairsInv
  <2>2. OldInv' /\ MatchInv' /\ KeygenInv' /\ SelectedInv'
    BY DEF OldInv, MatchInv, KeygenInv, SelectedInv, Private, Public
  <2> QED BY <2>1, <2>2
<1>2. CASE Keys!Look
  <2> USE <1>2 DEF Keys!Look
  <2>1. KeyTypes' /\ PairsInv' BY DEF KeyTypes, PairsInv
  <2>2. OldInv' /\ MatchInv' /\ KeygenInv' /\ SelectedInv'
    BY DEF OldInv, KeyTypes, MatchInv, KeygenInv, SelectedInv, Private, Public, Keys!Exists, Keys!AutoFiles
  <2> QED BY <2>1, <2>2
<1>3. CASE Keys!Generate
  <2> USE <1>3 DEF Keys!Generate
  <2>1. KeyTypes' /\ PairsInv' BY DEF KeyTypes, PairsInv
  <2>2. OldInv' /\ MatchInv' /\ KeygenInv' /\ SelectedInv'
    BY DEF OldInv, MatchInv, KeygenInv, SelectedInv, Private, Public, Keys!Exists
  <2> QED BY <2>1, <2>2
<1>4. CASE Keys!Use
  <2> USE <1>4 DEF Keys!Use
  <2>1. KeyTypes' /\ PairsInv' BY DEF KeyTypes, PairsInv
  <2>2. OldInv' /\ MatchInv' /\ KeygenInv' /\ SelectedInv'
    BY DEF OldInv, MatchInv, KeygenInv, SelectedInv, Private, Public
  <2> QED BY <2>1, <2>2
<1>5. CASE Keys!Kill
  <2> USE <1>5 DEF Keys!Kill
  <2>1. KeyTypes' /\ PairsInv' BY DEF KeyTypes, PairsInv
  <2>2. OldInv' /\ MatchInv' /\ KeygenInv' /\ SelectedInv'
    BY DEF OldInv, MatchInv, KeygenInv, SelectedInv, Private, Public, Keys!Damages, Keys!Exists
  <2> QED BY <2>1, <2>2
<1> QED BY <1>1, <1>2, <1>3, <1>4, <1>5

\* The two renamings.
LEMMA RenamingKeeps ==
  ASSUME KeysInv, Keys!RenamePublic \/ Keys!RenamePrivate
  PROVE  KeysInv'
<1> USE DEF KeysInv, Keys!AutoFiles, Keys!OldFiles
<1>1. CASE Keys!CannotMove /\ pc \in {"old_public", "old_private"}
  <2> USE <1>1 DEF Keys!CannotMove, Keys!keys
  <2>1. KeyTypes' /\ PairsInv' BY DEF KeyTypes, PairsInv
  <2>2. OldInv' /\ MatchInv' /\ KeygenInv' /\ SelectedInv'
    BY DEF OldInv, MatchInv, KeygenInv, SelectedInv, Private, Public, Keys!Damages, Keys!Exists
  <2> QED BY <2>1, <2>2
<1>2. CASE Keys!RenamePublic /\ ~Keys!CannotMove
  <2>1. pc = "old_public" BY <1>2 DEF Keys!RenamePublic
  <2>2. CASE Keys!GoTo("generate")
    <3> USE <2>1, <2>2 DEF Keys!GoTo, Keys!keys
    <3>1. KeyTypes' /\ PairsInv' BY DEF KeyTypes, PairsInv
    <3>2. OldInv' /\ MatchInv' /\ KeygenInv' /\ SelectedInv'
      BY DEF OldInv, MatchInv, KeygenInv, SelectedInv, Private, Public
    <3> QED BY <3>1, <3>2
  <2>3. CASE /\ keyFile["codespaces"] # 0 /\ keyFile["codespaces.pub"] # 0
             /\ Keys!Move("codespaces.pub", "codespaces.auto.pub") /\ pc' = "old_private"
    <3>1. /\ keyFile' = [keyFile EXCEPT !["codespaces.pub"] = 0,
                                        !["codespaces.auto.pub"] = keyFile["codespaces.pub"]]
          /\ UNCHANGED <<pairs, asked, selected, damaged, count>>
      BY <2>3 DEF Keys!Move
    <3>2. KeyTypes' /\ PairsInv' BY <2>1, <2>3, <3>1 DEF KeyTypes, PairsInv
    <3>3. KeygenInv' /\ SelectedInv' BY <2>1, <2>3, <3>1 DEF KeygenInv, SelectedInv
    <3>4. /\ Private' = Private /\ Public' = keyFile["codespaces.pub"]
          /\ keyFile'["codespaces"] = keyFile["codespaces"] /\ keyFile'["codespaces.pub"] = 0
      BY <3>1 DEF KeyTypes, Private, Public
    <3>5. MatchInv' /\ OldInv' BY <2>1, <2>3, <3>1, <3>4 DEF MatchInv, OldInv
    <3> QED BY <3>2, <3>3, <3>5
  <2> QED BY <1>2, <2>2, <2>3 DEF Keys!RenamePublic, Keys!Exists
<1>3. CASE Keys!RenamePrivate /\ ~Keys!CannotMove
  <2>1. /\ pc = "old_private" /\ pc' = "use"
        /\ keyFile' = [keyFile EXCEPT !["codespaces"] = 0,
                                      !["codespaces.auto"] = keyFile["codespaces"]]
        /\ UNCHANGED <<pairs, asked, selected, damaged, count>>
    BY <1>3 DEF Keys!RenamePrivate, Keys!Move
  <2>2. KeyTypes' /\ PairsInv' BY <2>1 DEF KeyTypes, PairsInv
  <2>3. KeygenInv' /\ SelectedInv' BY <2>1 DEF KeygenInv, SelectedInv
  <2>4. MatchInv' /\ OldInv' BY <2>1 DEF MatchInv, OldInv, KeyTypes, Private, Public
  <2> QED BY <2>2, <2>3, <2>4
<1> QED BY <1>1, <1>2, <1>3 DEF Keys!RenamePublic, Keys!RenamePrivate

LEMMA KeygenKeeps ==
  ASSUME KeysInv, Keys!Keygen \/ Keys!KeygenPublic
  PROVE  KeysInv'
<1> USE KeysAssumption DEF KeysInv, Keys!Done, Keys!AutoFiles, Keys!OldFiles, Keys!keys
<1>1. CASE Keys!Keygen
  <2> USE <1>1 DEF Keys!Keygen
  <2>1. KeyTypes'
    <3>1. CASE UNCHANGED keyFile BY <3>1 DEF KeyTypes
    <3>2. CASE keyFile' = [keyFile EXCEPT !["codespaces.auto"] = pairs + 1] /\ pairs' = pairs + 1
      BY <3>2 DEF KeyTypes
    <3> QED BY <3>1, <3>2
  <2>2. PairsInv' BY DEF KeyTypes, PairsInv
  <2>3. KeygenInv' /\ SelectedInv' BY DEF KeygenInv, SelectedInv
  <2>4. MatchInv' /\ OldInv' BY DEF MatchInv, OldInv, KeyTypes, Private, Public, Keys!Damages
  <2> QED BY <2>1, <2>2, <2>3, <2>4
<1>2. CASE Keys!KeygenPublic
  <2> USE <1>2 DEF Keys!KeygenPublic
  <2>1. KeyTypes'
    <3>1. /\ pairs' = pairs /\ UNCHANGED <<asked, count>>
          /\ pc' \in {"idle", "use"} /\ selected' \in {selected, "error"}
          /\ damaged' \in BOOLEAN
      BY DEF KeyTypes
    <3>2. /\ keyFile' \in [Keys!AutoFiles \cup Keys!OldFiles -> Nat]
          /\ \A f \in Keys!AutoFiles \cup Keys!OldFiles : keyFile'[f] <= pairs
      <4>1. CASE UNCHANGED keyFile BY <4>1 DEF KeyTypes
      <4>2. CASE keyFile' = [keyFile EXCEPT !["codespaces.auto.pub"] = pairs]
        BY <4>2 DEF KeyTypes
      <4> QED BY <4>1, <4>2
    <3>3. /\ pc' \in {"idle", "use"} /\ selected' \in {"none", "auto", "own", "error", "killed"}
          /\ damaged' \in BOOLEAN
      BY <3>1 DEF KeyTypes
    <3>4. pairs \in Nat \ {0, 1} /\ count \in 0 .. MaxCommands /\ asked \in {"none", "auto"}
      BY DEF KeyTypes
    <3> HIDE <1>2 DEF Keys!KeygenPublic, Keys!Done, Keys!keys
    <3> QED BY <3>1, <3>2, <3>3, <3>4 DEF KeyTypes
  <2>2. PairsInv' BY DEF KeyTypes, PairsInv
  <2>3. KeygenInv' /\ SelectedInv' BY DEF KeygenInv, SelectedInv
  <2>4. MatchInv' /\ OldInv'
    <3>1. CASE keyFile' = [keyFile EXCEPT !["codespaces.auto.pub"] = pairs] /\ pc' = "use"
               /\ damaged' = damaged
      BY <3>1 DEF MatchInv, OldInv, KeyTypes, Private, Public
    <3>2. CASE UNCHANGED keyFile /\ pc' = "idle" /\ damaged'
      BY <3>2 DEF MatchInv, OldInv, Private, Public
    <3> QED BY <3>1, <3>2 DEF Keys!Damages
  <2> QED BY <2>1, <2>2, <2>3, <2>4
<1> QED BY <1>1, <1>2

LEMMA KeysNext == KeysInv /\ [Keys!Next]_(Keys!vars) => KeysInv'
<1> SUFFICES ASSUME KeysInv, [Keys!Next]_(Keys!vars) PROVE KeysInv' OBVIOUS
<1>1. CASE UNCHANGED Keys!vars
  BY <1>1 DEF Keys!vars, Keys!keys, KeysInv, KeyTypes, PairsInv, OldInv, MatchInv, KeygenInv,
              SelectedInv, Private, Public
<1> QED BY <1>1, KeyStepsKeep, RenamingKeeps, KeygenKeeps DEF Keys!Next, Keys!Command, Keys!Stop

LEMMA KeysProperties == KeysInv => Keys!TypeOK /\ Keys!SuccessMeansPair
<1> SUFFICES ASSUME KeysInv PROVE Keys!TypeOK /\ Keys!SuccessMeansPair OBVIOUS
<1>1. keyFile \in [Keys!AutoFiles \cup Keys!OldFiles -> 0 .. pairs] BY DEF KeysInv, KeyTypes
<1>2. Keys!TypeOK BY <1>1, KeysAssumption DEF KeysInv, KeyTypes, PairsInv, Keys!TypeOK
<1>3. Keys!SuccessMeansPair
  BY DEF KeysInv, SelectedInv, Keys!SuccessMeansPair, Private, Public, Keys!Exists
<1> QED BY <1>2, <1>3

LEMMA KeysKeepExisting == KeysInv /\ [Keys!Next]_(Keys!vars) => Keys!KeepsExisting
<1> SUFFICES ASSUME KeysInv, [Keys!Next]_(Keys!vars),
                    NEW f \in {"codespaces", "codespaces.auto"}, keyFile[f] # 0,
                    ~(f = "codespaces.auto" /\ pc = "old_private" /\ (asked = "auto" \/ damaged))
             PROVE  \E g \in {"codespaces", "codespaces.auto"} : keyFile'[g] = keyFile[f]
  BY DEF Keys!KeepsExisting, Keys!Exists
<1> USE DEF KeysInv, KeyTypes, Keys!AutoFiles, Keys!OldFiles
<1>1. CASE UNCHANGED keyFile BY <1>1
<1>2. CASE Keys!RenamePublic /\ ~UNCHANGED keyFile
  <2>1. keyFile' = [keyFile EXCEPT !["codespaces.pub"] = 0,
                                   !["codespaces.auto.pub"] = keyFile["codespaces.pub"]]
    BY <1>2 DEF Keys!RenamePublic, Keys!Move, Keys!CannotMove, Keys!GoTo, Keys!keys
  <2> QED BY <2>1
<1>3. CASE Keys!RenamePrivate /\ ~UNCHANGED keyFile
  <2>1. pc = "old_private"
        /\ keyFile' = [keyFile EXCEPT !["codespaces"] = 0,
                                      !["codespaces.auto"] = keyFile["codespaces"]]
    BY <1>3 DEF Keys!RenamePrivate, Keys!Move, Keys!CannotMove, Keys!keys
  <2> QED BY <2>1 DEF MatchInv, Private
<1>4. CASE Keys!Keygen /\ ~UNCHANGED keyFile
  <2>1. pc = "keygen" /\ keyFile' = [keyFile EXCEPT !["codespaces.auto"] = pairs + 1]
    BY <1>4 DEF Keys!Keygen, Keys!keys
  <2> QED BY <2>1 DEF KeygenInv, Private
<1>5. CASE Keys!KeygenPublic /\ ~UNCHANGED keyFile
  <2>1. keyFile' = [keyFile EXCEPT !["codespaces.auto.pub"] = pairs]
    BY <1>5 DEF Keys!KeygenPublic, Keys!keys
  <2> QED BY <2>1
<1> QED BY <1>1, <1>2, <1>3, <1>4, <1>5
    DEF Keys!Next, Keys!Command, Keys!Stop, Keys!vars, Keys!keys, Keys!Begin, Keys!Look, Keys!Generate, Keys!Use, Keys!Kill, Keys!GoTo

-----------------------------------------------------------------------------
(* gh extension install, upgrade, remove, exec. *)

LEMMA ExtensionAssumption ==
  /\ MaxVersion \in Nat \ {0} /\ MaxCommands \in Nat
  /\ Usable \subseteq Owners /\ "none" \notin Owners /\ "torn" \notin Owners
BY CommandsAssumption DEF CommandsAssumption

ExtensionStages == {"install", "local", "link", "repository", "release", "prepare", "open", "copy",
           "open_manifest", "write_manifest", "commit", "clone", "checkout", "pin", "upgrade",
           "pull", "reset", "remove", "remove_rest", "migrate", "migrate_rest", "done"}

\* The binary and its manifest are written.
Writing == {"open", "copy", "open_manifest", "write_manifest"}

\* The update state has been removed by the command.
Cleaned == Writing \cup {"clone", "checkout", "pin", "remove_rest", "migrate_rest"}

DirTypes ==
  /\ dir.local => ~dir.made
  /\ dir.clone # Extension!NoClone => dir.binary = 0 /\ dir.manifest = Extension!NoManifest

StageTypes ==
  /\ pc \in ExtensionStages
  /\ outcome \in {"none", "ok", "kept", "up_to_date", "error", "killed"}
  /\ op \in {"none", "install", "local", "upgrade", "remove"}
  /\ pc # "done" => outcome = "none"

RemoteTypes ==
  /\ head \in [Owners -> Extension!Versions] /\ releasing \subseteq Owners
  /\ count \in 0 .. MaxCommands

ArgumentTypes ==
  /\ who \in Owners \cup {"none"}
  /\ pinTo \in 0 .. MaxVersion /\ version \in 0 .. MaxVersion

CheckTypes ==
  /\ {stateOf, checking} \subseteq Owners \cup {"none", "torn"}
  /\ {late, stale, force, protected} \subseteq BOOLEAN

ExtensionTypes ==
  dir \in Extension!Dirs /\ DirTypes /\ StageTypes /\ RemoteTypes /\ ArgumentTypes /\ CheckTypes

ShapeInv ==
  /\ dir.local => dir = [Extension!Nothing EXCEPT !.local = TRUE]
  /\ ~dir.local /\ ~dir.made => dir = Extension!Nothing
  /\ dir.clone # Extension!NoClone => /\ dir.clone.owner \in Owners
                            /\ dir.clone.commit # 0 /\ dir.clone.tracked # 0

\* A manifest is not of a version that is not released; one beside another
\* binary is of an older version than the latest, and so not up to date.
ManifestInv ==
  dir.manifest.owner \in Owners =>
    /\ dir.manifest.tag # 0 /\ dir.manifest.tag <= Extension!Latest(dir.manifest.owner)
    /\ dir.binary \notin {0, dir.manifest.tag} =>
         dir.manifest.tag < Extension!Latest(dir.manifest.owner)

\* What the binary is written over: nothing, or an older version of it.
Building ==
  /\ ~dir.local /\ dir.clone = Extension!NoClone
  /\ \/ dir.manifest \in {Extension!NoManifest, Extension!Torn}
     \/ dir.manifest.owner = who /\ dir.manifest.tag < Extension!Latest(who)

\* What is known at each step.
StageInv ==
  /\ pc = "install" => op = "install" /\ who \in Owners
  /\ pc \in {"local", "link"} => op = "local" /\ ~force
  /\ pc \in {"repository", "commit", "clone"} => op = "install" /\ who \in Owners
  /\ pc \in {"link", "repository", "commit", "clone"} => dir = Extension!Nothing
  /\ pc \in Writing \cup {"release", "prepare"} =>
       op \in {"install", "upgrade"} /\ who \in Owners /\ Extension!Latest(who) # 0 /\ Building
  /\ pc \in Writing \cup {"prepare"} =>
       version # 0 /\ version <= Extension!Latest(who) /\ (pinTo # 0 => version = pinTo)
  /\ pc \in Writing => dir.made
  /\ pc \in {"open_manifest", "write_manifest"} => dir.binary = version
  /\ pc \in {"checkout", "pin"} =>
       /\ op = "install" /\ pinTo # 0
       /\ dir.made /\ ~dir.local /\ dir.clone.owner = who /\ who \in Owners
  /\ pc = "pin" => dir.clone.commit = pinTo
  /\ pc = "upgrade" => op = "upgrade"
  /\ pc \in {"pull", "reset"} =>
       /\ op = "upgrade" /\ dir.clone.owner = who /\ who \in Owners
       /\ dir.made /\ ~dir.local /\ version <= head[who]
  /\ pc = "reset" => force
  /\ pc \in {"migrate", "migrate_rest"} =>
       op = "upgrade" /\ who \in Owners /\ Extension!Latest(who) # 0
  /\ pc \in {"remove", "remove_rest"} => op = "remove"

\* What is not to be changed is found out before anything is.
ProtectInv ==
  protected =>
    /\ pc \in {"install", "local", "upgrade", "done"}
    /\ pc = "install" => Extension!Listed /\ (dir.local \/ ~force)
    /\ pc = "local" => Extension!Listed
    /\ pc = "upgrade" => dir.local \/ (Extension!IsPinned /\ ~force)

\* A check that has not met with a change is of what is installed; once the
\* command has removed the update state, there is no other.
CheckInv ==
  /\ Extension!UpdateStateIsOwn
  /\ checking # "none" /\ ~late => checking = Extension!Owner
  /\ pc \in Cleaned => (stateOf = "none" \/ stale) /\ (checking = "none" \/ late)

ExtensionInv ==
  /\ ExtensionTypes /\ ShapeInv /\ ManifestInv /\ StageInv /\ ProtectInv /\ CheckInv
  /\ Extension!SuccessMeansInstalled

\* What is derived from the repositories, and what from the directory.
LEMMA RemoteSame ==
  UNCHANGED Extension!remote => \A o \in Owners : Extension!Latest(o)' = Extension!Latest(o)
BY DEF Extension!remote, Extension!Latest

LEMMA DirSame ==
  UNCHANGED <<Extension!remote, dir>> =>
    /\ (Extension!Listed' <=> Extension!Listed) /\ (Extension!IsBinary' <=> Extension!IsBinary) /\ Extension!Owner' = Extension!Owner
    /\ Extension!CurrentVersion' = Extension!CurrentVersion /\ (Extension!IsPinned' <=> Extension!IsPinned)
    /\ (Extension!Whole' <=> Extension!Whole) /\ (ShapeInv' <=> ShapeInv)
    /\ (ManifestInv' <=> ManifestInv)
BY DEF Extension!remote, Extension!Listed, Extension!IsBinary, Extension!Owner, Extension!CurrentVersion, Extension!IsPinned, Extension!Whole, ShapeInv, Building, ManifestInv, Extension!Latest

LEMMA SuccessSame ==
  UNCHANGED <<dir, op, who, pinTo, version, force, outcome>> =>
    (Extension!SuccessMeansInstalled => Extension!SuccessMeansInstalled')
<1> SUFFICES ASSUME UNCHANGED <<dir, op, who, pinTo, version, force, outcome>>, Extension!SuccessMeansInstalled
             PROVE  Extension!SuccessMeansInstalled'
  OBVIOUS
<1>1. Extension!IsBinary' = Extension!IsBinary
  BY DEF Extension!IsBinary
<1>2. Extension!Whole' = Extension!Whole /\ Extension!Owner' = Extension!Owner /\ Extension!CurrentVersion' = Extension!CurrentVersion /\ Extension!IsPinned' = Extension!IsPinned
  BY <1>1, Zenon DEF Extension!Whole, Extension!Owner, Extension!CurrentVersion, Extension!IsPinned
<1> QED
  BY <1>1, <1>2, Zenon DEF Extension!SuccessMeansInstalled

LEMMA LatestType ==
  ASSUME ExtensionInv, NEW o \in Owners
  PROVE  Extension!Latest(o) \in 0 .. MaxVersion /\ head[o] \in 1 .. MaxVersion
BY ExtensionAssumption DEF ExtensionInv, ExtensionTypes, DirTypes, StageTypes, RemoteTypes, ArgumentTypes, CheckTypes, Extension!Latest, Extension!Versions

\* There is a latest version of what is listed and not local.
LEMMA LatestVersionType ==
  ASSUME ExtensionInv
  PROVE  /\ Extension!LatestVersion \in 0 .. MaxVersion
         /\ Extension!LatestVersion # 0 => Extension!Owner \in Owners /\ ~dir.local /\ dir.made
<1> USE ExtensionAssumption DEF ExtensionInv
<1>1. CASE Extension!Owner \notin Owners
  BY <1>1 DEF Extension!LatestVersion
<1>2. CASE Extension!Owner \in Owners
  <2>1. Extension!LatestVersion \in 0 .. MaxVersion
    BY <1>2, LatestType DEF Extension!LatestVersion
  <2>2. ~dir.local /\ dir.made
    BY <1>2 DEF Extension!Owner, Extension!IsBinary, ShapeInv, Extension!Nothing, Extension!NoManifest, Extension!NoClone
  <2> QED
    BY <1>2, <2>1, <2>2
<1> QED
  BY <1>1, <1>2

LEMMA CheckValidKeeps ==
  ASSUME ExtensionInv, Extension!CheckValid
  PROVE  ExtensionInv'
<1> USE ExtensionAssumption DEF ExtensionInv, Extension!CheckValid, Extension!Reads, Extension!remote, Extension!checker, Extension!command, Extension!Return, Extension!GoTo, ExtensionTypes, DirTypes, StageTypes, RemoteTypes, ArgumentTypes, CheckTypes
<1>1. ExtensionTypes'
  <2>1. dir' \in Extension!Dirs
    BY DEF StageInv, Building, Writing, Extension!Dirs, Extension!Manifests, Extension!Clones, Extension!Versions, Extension!Broken, Extension!Nothing, Extension!NoManifest, Extension!NoClone, Extension!Torn, Extension!CloneOf
  <2>2. DirTypes'
    BY <2>1 DEF StageInv, Building, ShapeInv, Writing, Extension!Dirs, Extension!Manifests, Extension!Clones, Extension!Versions, Extension!Broken, Extension!Nothing, Extension!NoManifest, Extension!NoClone, Extension!Torn, Extension!CloneOf
  <2>3. StageTypes' /\ RemoteTypes'
    BY DEF ExtensionStages
  <2>4. ArgumentTypes' /\ CheckTypes'
    OBVIOUS
  <2> QED
    BY <2>1, <2>2, <2>3, <2>4
<1>2. ShapeInv'
  BY <1>1 DEF ShapeInv, StageInv, Extension!Dirs, Extension!Manifests, Extension!Clones, Extension!Versions, Extension!Broken, Extension!Nothing, Extension!NoManifest, Extension!NoClone, Extension!Torn, Extension!CloneOf
<1>3. ManifestInv'
  BY DEF ManifestInv, StageInv, Building, Writing, Extension!Latest, Extension!Dirs, Extension!Manifests, Extension!Clones, Extension!Versions, Extension!Broken, Extension!Nothing, Extension!NoManifest, Extension!NoClone, Extension!Torn, Extension!CloneOf
<1>4. StageInv'
  BY DEF StageInv, ShapeInv, ManifestInv, Building, Writing, Extension!Latest, Extension!Listed, Extension!Dirs, Extension!Manifests, Extension!Clones, Extension!Versions, Extension!Broken, Extension!Nothing, Extension!NoManifest, Extension!NoClone, Extension!Torn, Extension!CloneOf
<1>5. ProtectInv'
  BY DEF ProtectInv, StageInv, Extension!Listed, Extension!IsPinned, Extension!IsBinary
<1>6. CheckInv'
  BY DEF CheckInv, Extension!UpdateStateIsOwn, Cleaned, Writing, Extension!Owner, Extension!IsBinary
<1>7. Extension!SuccessMeansInstalled'
  BY DEF Extension!SuccessMeansInstalled, StageInv, Extension!Whole, Extension!IsBinary, Extension!Owner, Extension!CurrentVersion, Extension!IsPinned
<1> QED
  BY <1>1, <1>2, <1>3, <1>4, <1>5, <1>6, <1>7

LEMMA RepositoryKeeps ==
  ASSUME ExtensionInv, Extension!Repository
  PROVE  ExtensionInv'
<1> USE ExtensionAssumption DEF ExtensionInv, Extension!Repository, Extension!Reads, Extension!remote, Extension!checker, Extension!command, Extension!Return, Extension!GoTo, ExtensionTypes, DirTypes, StageTypes, RemoteTypes, ArgumentTypes, CheckTypes
<1>1. ExtensionTypes'
  <2>1. dir' \in Extension!Dirs
    BY DEF StageInv, Building, Writing, Extension!Dirs, Extension!Manifests, Extension!Clones, Extension!Versions, Extension!Broken, Extension!Nothing, Extension!NoManifest, Extension!NoClone, Extension!Torn, Extension!CloneOf
  <2>2. DirTypes'
    BY <2>1 DEF StageInv, Building, ShapeInv, Writing, Extension!Dirs, Extension!Manifests, Extension!Clones, Extension!Versions, Extension!Broken, Extension!Nothing, Extension!NoManifest, Extension!NoClone, Extension!Torn, Extension!CloneOf
  <2>3. StageTypes' /\ RemoteTypes' /\ ArgumentTypes' /\ CheckTypes'
    BY DEF ExtensionStages, Extension!Choose
  <2> QED
    BY <2>1, <2>2, <2>3
<1>2. ShapeInv'
  BY <1>1 DEF ShapeInv, StageInv, Extension!Dirs, Extension!Manifests, Extension!Clones, Extension!Versions, Extension!Broken, Extension!Nothing, Extension!NoManifest, Extension!NoClone, Extension!Torn, Extension!CloneOf
<1>3. ManifestInv'
  BY DEF ManifestInv, StageInv, Building, Writing, Extension!Latest, Extension!Dirs, Extension!Manifests, Extension!Clones, Extension!Versions, Extension!Broken, Extension!Nothing, Extension!NoManifest, Extension!NoClone, Extension!Torn, Extension!CloneOf
<1>4. StageInv'
  BY DEF StageInv, ShapeInv, ManifestInv, Building, Writing, Extension!Latest, Extension!Listed, Extension!Dirs, Extension!Manifests, Extension!Clones, Extension!Versions, Extension!Broken, Extension!Nothing, Extension!NoManifest, Extension!NoClone, Extension!Torn, Extension!CloneOf
<1>5. ProtectInv'
  BY DEF ProtectInv, Extension!Listed, Extension!IsPinned, Extension!IsBinary
<1>6. CheckInv'
  BY DEF CheckInv, Extension!UpdateStateIsOwn, Cleaned, Writing, Extension!Owner, Extension!IsBinary
<1>7. Extension!SuccessMeansInstalled'
  BY DEF Extension!SuccessMeansInstalled, StageInv, Extension!Whole, Extension!IsBinary, Extension!Owner, Extension!CurrentVersion, Extension!IsPinned
<1> QED
  BY <1>1, <1>2, <1>3, <1>4, <1>5, <1>6, <1>7

LEMMA ReleaseKeeps ==
  ASSUME ExtensionInv, Extension!Release
  PROVE  ExtensionInv'
<1> USE ExtensionAssumption DEF ExtensionInv, Extension!Release, Extension!Reads, Extension!remote, Extension!checker, Extension!command, Extension!Return, Extension!GoTo, ExtensionTypes, DirTypes, StageTypes, RemoteTypes, ArgumentTypes, CheckTypes
<1>1. ExtensionTypes'
  <2>1. dir' \in Extension!Dirs
    BY DEF StageInv, Building, Writing, Extension!Dirs, Extension!Manifests, Extension!Clones, Extension!Versions, Extension!Broken, Extension!Nothing, Extension!NoManifest, Extension!NoClone, Extension!Torn, Extension!CloneOf
  <2>2. DirTypes'
    BY <2>1 DEF StageInv, Building, ShapeInv, Writing, Extension!Dirs, Extension!Manifests, Extension!Clones, Extension!Versions, Extension!Broken, Extension!Nothing, Extension!NoManifest, Extension!NoClone, Extension!Torn, Extension!CloneOf
  <2>3. StageTypes' /\ RemoteTypes' /\ ArgumentTypes' /\ CheckTypes'
    BY LatestType, LatestVersionType DEF ExtensionStages, Extension!Choose, StageInv, ExtensionStages
  <2> QED
    BY <2>1, <2>2, <2>3
<1>2. ShapeInv'
  BY <1>1 DEF ShapeInv, StageInv, Extension!Dirs, Extension!Manifests, Extension!Clones, Extension!Versions, Extension!Broken, Extension!Nothing, Extension!NoManifest, Extension!NoClone, Extension!Torn, Extension!CloneOf
<1>3. ManifestInv'
  BY DEF ManifestInv, StageInv, Building, Writing, Extension!Latest, Extension!Dirs, Extension!Manifests, Extension!Clones, Extension!Versions, Extension!Broken, Extension!Nothing, Extension!NoManifest, Extension!NoClone, Extension!Torn, Extension!CloneOf
<1>4. StageInv'
  BY LatestType, LatestVersionType DEF Extension!Choose, StageInv, ShapeInv, ManifestInv, Building, Writing, Extension!Latest, Extension!Listed, Extension!Dirs, Extension!Manifests, Extension!Clones, Extension!Versions, Extension!Broken, Extension!Nothing, Extension!NoManifest, Extension!NoClone, Extension!Torn, Extension!CloneOf
<1>5. ProtectInv'
  BY DEF ProtectInv, Extension!Listed, Extension!IsPinned, Extension!IsBinary
<1>6. CheckInv'
  BY DEF CheckInv, Extension!UpdateStateIsOwn, Cleaned, Writing, Extension!Owner, Extension!IsBinary
<1>7. Extension!SuccessMeansInstalled'
  BY DEF Extension!SuccessMeansInstalled, StageInv, Extension!Whole, Extension!IsBinary, Extension!Owner, Extension!CurrentVersion, Extension!IsPinned
<1> QED
  BY <1>1, <1>2, <1>3, <1>4, <1>5, <1>6, <1>7

LEMMA UpgradeKeeps ==
  ASSUME ExtensionInv, Extension!Upgrade
  PROVE  ExtensionInv'
<1> USE ExtensionAssumption DEF ExtensionInv, Extension!Upgrade, Extension!Reads, Extension!remote, Extension!checker, Extension!command, Extension!Return, Extension!GoTo, ExtensionTypes, DirTypes, StageTypes, RemoteTypes, ArgumentTypes, CheckTypes
<1>1. ExtensionTypes'
  <2>1. dir' \in Extension!Dirs
    BY DEF StageInv, Building, Writing, Extension!Dirs, Extension!Manifests, Extension!Clones, Extension!Versions, Extension!Broken, Extension!Nothing, Extension!NoManifest, Extension!NoClone, Extension!Torn, Extension!CloneOf
  <2>2. DirTypes'
    BY <2>1 DEF StageInv, Building, ShapeInv, Writing, Extension!Dirs, Extension!Manifests, Extension!Clones, Extension!Versions, Extension!Broken, Extension!Nothing, Extension!NoManifest, Extension!NoClone, Extension!Torn, Extension!CloneOf
  <2>3. StageTypes' /\ RemoteTypes' /\ ArgumentTypes' /\ CheckTypes'
    BY LatestType, LatestVersionType DEF ExtensionStages, Extension!Choose, StageInv, ExtensionStages
  <2> QED
    BY <2>1, <2>2, <2>3
<1>2. ShapeInv'
  BY <1>1 DEF ShapeInv, StageInv, Extension!Dirs, Extension!Manifests, Extension!Clones, Extension!Versions, Extension!Broken, Extension!Nothing, Extension!NoManifest, Extension!NoClone, Extension!Torn, Extension!CloneOf
<1>3. ManifestInv'
  BY DEF ManifestInv, StageInv, Building, Writing, Extension!Latest, Extension!Dirs, Extension!Manifests, Extension!Clones, Extension!Versions, Extension!Broken, Extension!Nothing, Extension!NoManifest, Extension!NoClone, Extension!Torn, Extension!CloneOf
<1>4. StageInv'
  <2>1. CASE pc' = "done"
    BY <2>1 DEF StageInv, Writing
  <2>2. CASE pc' # "done"
    <3>1. Extension!LatestVersion # 0 /\ Extension!Owner \in Owners /\ ~dir.local /\ dir.made
      BY <2>2, LatestVersionType
    <3>2. who' = Extension!Owner /\ version' = Extension!LatestVersion /\ op' = "upgrade" /\ pinTo' = pinTo /\ Extension!UpdateAvailable
      BY <2>2, <3>1 DEF StageInv
    <3>3. CASE pc' = "release"
      <4>1. Extension!IsBinary /\ dir.manifest.owner = Extension!Owner /\ dir.manifest.tag < Extension!Latest(Extension!Owner) /\ Extension!Latest(Extension!Owner) # 0
        BY <3>1, <3>2, <3>3, LatestType DEF Extension!Owner, Extension!IsBinary, ManifestInv, Extension!UpdateAvailable, Extension!CurrentVersion, Extension!LatestVersion, Extension!Dirs, Extension!Manifests, Extension!Clones
      <4>2. dir.clone = Extension!NoClone
        BY <3>1, <4>1 DEF Extension!NoManifest
      <4>3. Building'
        BY <3>1, <3>2, <4>1, <4>2 DEF Building, Extension!Latest
      <4>4. Extension!Latest(who)' # 0
        BY <3>2, <4>1 DEF Extension!Latest
      <4> QED
        BY <3>1, <3>2, <3>3, <4>3, <4>4 DEF StageInv, Writing
    <3>4. CASE pc' = "migrate"
      BY <3>1, <3>2, <3>4, LatestType, RemoteSame DEF StageInv, Writing
    <3>5. CASE pc' \in {"pull", "reset"}
      BY <3>1, <3>2, <3>5, LatestType DEF StageInv, Writing, Extension!LatestVersion, Extension!Owner, Extension!IsBinary
    <3> QED
      BY <2>2, <3>3, <3>4, <3>5
  <2> QED
    BY <2>1, <2>2
<1>5. ProtectInv'
  BY LatestVersionType, DirSame DEF ProtectInv
<1>6. CheckInv'
  BY DEF CheckInv, Extension!UpdateStateIsOwn, Cleaned, Writing, Extension!Owner, Extension!IsBinary
<1>7. Extension!SuccessMeansInstalled'
  <2>1. outcome' # "ok"
    OBVIOUS
  <2>2. ASSUME outcome' = "up_to_date"
        PROVE  dir'.clone.commit # 0 \/ (Extension!IsBinary /\ dir.binary \in {0, dir.manifest.tag})'
    <3>1. Extension!LatestVersion # 0 /\ ~Extension!UpdateAvailable /\ dir' = dir
      BY <2>2
    <3>2. Extension!Owner \in Owners /\ ~dir.local /\ dir.made
      BY <3>1, LatestVersionType
    <3>3. CASE Extension!IsBinary
      <4>1. dir.manifest.owner \in Owners /\ Extension!Owner = dir.manifest.owner
        BY <3>2, <3>3 DEF Extension!Owner
      <4>2. dir.manifest.tag # 0 /\ dir.manifest.tag = Extension!Latest(dir.manifest.owner)
        BY <3>1, <3>2, <3>3, <4>1 DEF Extension!UpdateAvailable, Extension!CurrentVersion, Extension!LatestVersion, ManifestInv
      <4>3. ~(dir.manifest.tag < Extension!Latest(dir.manifest.owner))
        BY <4>1, <4>2, LatestType
      <4> QED
        BY <3>1, <3>3, <4>1, <4>3 DEF ManifestInv, Extension!IsBinary
    <3>4. CASE ~Extension!IsBinary
      BY <3>1, <3>2, <3>4 DEF Extension!Owner, ShapeInv, Extension!NoClone
    <3> QED
      BY <3>3, <3>4
  <2> QED
    BY <2>1, <2>2 DEF Extension!SuccessMeansInstalled
<1> QED
  BY <1>1, <1>2, <1>3, <1>4, <1>5, <1>6, <1>7

LEMMA LinkKeeps ==
  ASSUME ExtensionInv, Extension!Link
  PROVE  ExtensionInv'
<1> USE ExtensionAssumption DEF ExtensionInv, Extension!Link, Extension!Clean, Extension!remote, Extension!checker, Extension!command, Extension!Return, Extension!GoTo, ExtensionTypes, DirTypes, StageTypes, RemoteTypes, ArgumentTypes, CheckTypes
<1>1. ExtensionTypes'
  <2>1. dir' \in Extension!Dirs
    BY DEF StageInv, Building, Writing, Extension!Dirs, Extension!Manifests, Extension!Clones, Extension!Versions, Extension!Broken, Extension!Nothing, Extension!NoManifest, Extension!NoClone, Extension!Torn, Extension!CloneOf
  <2>2. DirTypes'
    BY <2>1 DEF StageInv, Building, ShapeInv, Writing, Extension!Dirs, Extension!Manifests, Extension!Clones, Extension!Versions, Extension!Broken, Extension!Nothing, Extension!NoManifest, Extension!NoClone, Extension!Torn, Extension!CloneOf
  <2>3. StageTypes' /\ RemoteTypes' /\ ArgumentTypes' /\ CheckTypes'
    BY DEF ExtensionStages, Extension!Choose
  <2> QED
    BY <2>1, <2>2, <2>3
<1>2. ShapeInv'
  BY <1>1 DEF ShapeInv, StageInv, Extension!Dirs, Extension!Manifests, Extension!Clones, Extension!Versions, Extension!Broken, Extension!Nothing, Extension!NoManifest, Extension!NoClone, Extension!Torn, Extension!CloneOf
<1>3. ManifestInv'
  BY DEF ManifestInv, StageInv, Building, Writing, Extension!Latest, Extension!Dirs, Extension!Manifests, Extension!Clones, Extension!Versions, Extension!Broken, Extension!Nothing, Extension!NoManifest, Extension!NoClone, Extension!Torn, Extension!CloneOf
<1>4. StageInv'
  BY DEF StageInv, ShapeInv, ManifestInv, Building, Writing, Extension!Latest, Extension!Listed, Extension!Dirs, Extension!Manifests, Extension!Clones, Extension!Versions, Extension!Broken, Extension!Nothing, Extension!NoManifest, Extension!NoClone, Extension!Torn, Extension!CloneOf
<1>5. ProtectInv'
  BY DEF ProtectInv, Extension!Listed, Extension!IsPinned, Extension!IsBinary
<1>6. CheckInv'
  BY DEF CheckInv, Extension!UpdateStateIsOwn, Cleaned, Writing, Extension!Owner, Extension!IsBinary
<1>7. Extension!SuccessMeansInstalled'
  BY DEF Extension!SuccessMeansInstalled, StageInv, Extension!Whole, Extension!IsBinary, Extension!Owner, Extension!CurrentVersion, Extension!IsPinned
<1> QED
  BY <1>1, <1>2, <1>3, <1>4, <1>5, <1>6, <1>7

LEMMA PrepareKeeps ==
  ASSUME ExtensionInv, Extension!Prepare
  PROVE  ExtensionInv'
<1> USE ExtensionAssumption DEF ExtensionInv, Extension!Prepare, Extension!Clean, Extension!remote, Extension!checker, Extension!command, Extension!Return, Extension!GoTo, ExtensionTypes, DirTypes, StageTypes, RemoteTypes, ArgumentTypes, CheckTypes
<1>1. ExtensionTypes'
  <2>1. dir' \in Extension!Dirs
    BY DEF StageInv, Building, Writing, Extension!Dirs, Extension!Manifests, Extension!Clones, Extension!Versions, Extension!Broken, Extension!Nothing, Extension!NoManifest, Extension!NoClone, Extension!Torn, Extension!CloneOf
  <2>2. DirTypes'
    BY <2>1 DEF StageInv, Building, ShapeInv, Writing, Extension!Dirs, Extension!Manifests, Extension!Clones, Extension!Versions, Extension!Broken, Extension!Nothing, Extension!NoManifest, Extension!NoClone, Extension!Torn, Extension!CloneOf
  <2>3. StageTypes' /\ RemoteTypes' /\ ArgumentTypes' /\ CheckTypes'
    BY DEF ExtensionStages, Extension!Choose
  <2> QED
    BY <2>1, <2>2, <2>3
<1>2. ShapeInv'
  BY <1>1 DEF ShapeInv, StageInv, Extension!Dirs, Extension!Manifests, Extension!Clones, Extension!Versions, Extension!Broken, Extension!Nothing, Extension!NoManifest, Extension!NoClone, Extension!Torn, Extension!CloneOf
<1>3. ManifestInv'
  BY DEF ManifestInv, StageInv, Building, Writing, Extension!Latest, Extension!Dirs, Extension!Manifests, Extension!Clones, Extension!Versions, Extension!Broken, Extension!Nothing, Extension!NoManifest, Extension!NoClone, Extension!Torn, Extension!CloneOf
<1>4. StageInv'
  BY DEF StageInv, ShapeInv, ManifestInv, Building, Writing, Extension!Latest, Extension!Listed, Extension!Dirs, Extension!Manifests, Extension!Clones, Extension!Versions, Extension!Broken, Extension!Nothing, Extension!NoManifest, Extension!NoClone, Extension!Torn, Extension!CloneOf
<1>5. ProtectInv'
  BY DEF ProtectInv, Extension!Listed, Extension!IsPinned, Extension!IsBinary
<1>6. CheckInv'
  BY DEF CheckInv, Extension!UpdateStateIsOwn, Cleaned, Writing, Extension!Owner, Extension!IsBinary
<1>7. Extension!SuccessMeansInstalled'
  BY DEF Extension!SuccessMeansInstalled, StageInv, Extension!Whole, Extension!IsBinary, Extension!Owner, Extension!CurrentVersion, Extension!IsPinned
<1> QED
  BY <1>1, <1>2, <1>3, <1>4, <1>5, <1>6, <1>7

LEMMA CommitKeeps ==
  ASSUME ExtensionInv, Extension!Commit
  PROVE  ExtensionInv'
<1> USE ExtensionAssumption DEF ExtensionInv, Extension!Commit, Extension!Clean, Extension!remote, Extension!checker, Extension!command, Extension!Return, Extension!GoTo, ExtensionTypes, DirTypes, StageTypes, RemoteTypes, ArgumentTypes, CheckTypes
<1>1. ExtensionTypes'
  <2>1. dir' \in Extension!Dirs
    BY DEF StageInv, Building, Writing, Extension!Dirs, Extension!Manifests, Extension!Clones, Extension!Versions, Extension!Broken, Extension!Nothing, Extension!NoManifest, Extension!NoClone, Extension!Torn, Extension!CloneOf
  <2>2. DirTypes'
    BY <2>1 DEF StageInv, Building, ShapeInv, Writing, Extension!Dirs, Extension!Manifests, Extension!Clones, Extension!Versions, Extension!Broken, Extension!Nothing, Extension!NoManifest, Extension!NoClone, Extension!Torn, Extension!CloneOf
  <2>3. StageTypes' /\ RemoteTypes' /\ ArgumentTypes' /\ CheckTypes'
    BY DEF ExtensionStages, Extension!Choose
  <2> QED
    BY <2>1, <2>2, <2>3
<1>2. ShapeInv'
  BY <1>1 DEF ShapeInv, StageInv, Extension!Dirs, Extension!Manifests, Extension!Clones, Extension!Versions, Extension!Broken, Extension!Nothing, Extension!NoManifest, Extension!NoClone, Extension!Torn, Extension!CloneOf
<1>3. ManifestInv'
  BY DEF ManifestInv, StageInv, Building, Writing, Extension!Latest, Extension!Dirs, Extension!Manifests, Extension!Clones, Extension!Versions, Extension!Broken, Extension!Nothing, Extension!NoManifest, Extension!NoClone, Extension!Torn, Extension!CloneOf
<1>4. StageInv'
  BY DEF StageInv, ShapeInv, ManifestInv, Building, Writing, Extension!Latest, Extension!Listed, Extension!Dirs, Extension!Manifests, Extension!Clones, Extension!Versions, Extension!Broken, Extension!Nothing, Extension!NoManifest, Extension!NoClone, Extension!Torn, Extension!CloneOf
<1>5. ProtectInv'
  BY DEF ProtectInv, Extension!Listed, Extension!IsPinned, Extension!IsBinary
<1>6. CheckInv'
  BY DEF CheckInv, Extension!UpdateStateIsOwn, Cleaned, Writing, Extension!Owner, Extension!IsBinary
<1>7. Extension!SuccessMeansInstalled'
  BY DEF Extension!SuccessMeansInstalled, StageInv, Extension!Whole, Extension!IsBinary, Extension!Owner, Extension!CurrentVersion, Extension!IsPinned
<1> QED
  BY <1>1, <1>2, <1>3, <1>4, <1>5, <1>6, <1>7

LEMMA RemoveKeeps ==
  ASSUME ExtensionInv, Extension!Remove
  PROVE  ExtensionInv'
<1> USE ExtensionAssumption DEF ExtensionInv, Extension!Remove, Extension!Clean, Extension!remote, Extension!checker, Extension!command, Extension!Return, Extension!GoTo, ExtensionTypes, DirTypes, StageTypes, RemoteTypes, ArgumentTypes, CheckTypes
<1>1. ExtensionTypes'
  <2>1. dir' \in Extension!Dirs
    <3>1. Extension!NoManifest \in Extension!Manifests
      BY DEF Extension!NoManifest, Extension!Manifests
    <3>2. Extension!NoClone \in Extension!Clones
      BY DEF Extension!NoClone, Extension!Clones
    <3>3. [dir EXCEPT !.binary = 0] \in Extension!Dirs /\ [dir EXCEPT !.manifest = Extension!NoManifest] \in Extension!Dirs /\ [dir EXCEPT !.clone = Extension!NoClone] \in Extension!Dirs
      BY <3>1, <3>2 DEF Extension!Dirs, Extension!Manifests, Extension!Clones, Extension!Broken
    <3> QED
      BY <3>3
  <2>2. DirTypes'
    BY <2>1 DEF StageInv, Building, ShapeInv, Writing, Extension!Dirs, Extension!Manifests, Extension!Clones, Extension!Versions, Extension!Broken, Extension!Nothing, Extension!NoManifest, Extension!NoClone, Extension!Torn, Extension!CloneOf
  <2>3. StageTypes' /\ RemoteTypes' /\ ArgumentTypes' /\ CheckTypes'
    BY DEF ExtensionStages, Extension!Choose
  <2> QED
    BY <2>1, <2>2, <2>3
<1>2. ShapeInv'
  BY <1>1 DEF ShapeInv, StageInv, Extension!Dirs, Extension!Manifests, Extension!Clones, Extension!Versions, Extension!Broken, Extension!Nothing, Extension!NoManifest, Extension!NoClone, Extension!Torn, Extension!CloneOf
<1>3. ManifestInv'
  BY DEF ManifestInv, StageInv, Building, Writing, Extension!Latest, Extension!Dirs, Extension!Manifests, Extension!Clones, Extension!Versions, Extension!Broken, Extension!Nothing, Extension!NoManifest, Extension!NoClone, Extension!Torn, Extension!CloneOf
<1>4. StageInv'
  BY DEF StageInv, ShapeInv, ManifestInv, Building, Writing, Extension!Latest, Extension!Listed, Extension!Dirs, Extension!Manifests, Extension!Clones, Extension!Versions, Extension!Broken, Extension!Nothing, Extension!NoManifest, Extension!NoClone, Extension!Torn, Extension!CloneOf
<1>5. ProtectInv'
  BY DEF ProtectInv, Extension!Listed, Extension!IsPinned, Extension!IsBinary
<1>6. CheckInv'
  BY DEF CheckInv, Extension!UpdateStateIsOwn, Cleaned, Writing, Extension!Owner, Extension!IsBinary
<1>7. Extension!SuccessMeansInstalled'
  BY DEF Extension!SuccessMeansInstalled, StageInv, Extension!Whole, Extension!IsBinary, Extension!Owner, Extension!CurrentVersion, Extension!IsPinned
<1> QED
  BY <1>1, <1>2, <1>3, <1>4, <1>5, <1>6, <1>7

LEMMA OpenBinaryKeeps ==
  ASSUME ExtensionInv, Extension!OpenBinary
  PROVE  ExtensionInv'
<1> USE ExtensionAssumption DEF ExtensionInv, Extension!OpenBinary, Extension!Writes, Extension!remote, Extension!checker, Extension!command, Extension!Return, Extension!GoTo, ExtensionTypes, DirTypes, StageTypes, RemoteTypes, ArgumentTypes, CheckTypes
<1>0. ~dir'.local /\ dir'.made /\ dir'.clone = Extension!NoClone
  BY DEF StageInv, Building, Writing, Extension!Dirs, Extension!Manifests, Extension!Clones
<1>1. ExtensionTypes'
  <2>1. dir' \in Extension!Dirs
    BY DEF StageInv, Building, Writing, Extension!Dirs, Extension!Manifests, Extension!Clones, Extension!Versions, Extension!Broken, Extension!Nothing, Extension!NoManifest, Extension!NoClone, Extension!Torn, Extension!CloneOf
  <2>2. DirTypes'
    BY <2>1 DEF StageInv, Building, ShapeInv, Writing, Extension!Dirs, Extension!Manifests, Extension!Clones, Extension!Versions, Extension!Broken, Extension!Nothing, Extension!NoManifest, Extension!NoClone, Extension!Torn, Extension!CloneOf
  <2>3. StageTypes' /\ RemoteTypes' /\ ArgumentTypes' /\ CheckTypes'
    BY DEF ExtensionStages, Extension!Choose
  <2> QED
    BY <2>1, <2>2, <2>3
<1>2. ShapeInv'
  BY <1>0 DEF ShapeInv
<1>3. ManifestInv'
  BY DEF ManifestInv, StageInv, Building, Writing, Extension!Latest, Extension!Dirs, Extension!Manifests, Extension!Clones, Extension!Versions, Extension!Broken, Extension!Nothing, Extension!NoManifest, Extension!NoClone, Extension!Torn, Extension!CloneOf
<1>4. StageInv'
  BY DEF StageInv, ShapeInv, ManifestInv, Building, Writing, Extension!Latest, Extension!Listed, Extension!Dirs, Extension!Manifests, Extension!Clones, Extension!Versions, Extension!Broken, Extension!Nothing, Extension!NoManifest, Extension!NoClone, Extension!Torn, Extension!CloneOf
<1>5. ProtectInv'
  BY DEF ProtectInv, Extension!Listed, Extension!IsPinned, Extension!IsBinary
<1>6. CheckInv'
  BY DEF CheckInv, Extension!UpdateStateIsOwn, Cleaned, Writing, Extension!Owner, Extension!IsBinary
<1>7. Extension!SuccessMeansInstalled'
  BY DEF Extension!SuccessMeansInstalled, StageInv, Extension!Whole, Extension!IsBinary, Extension!Owner, Extension!CurrentVersion, Extension!IsPinned
<1> QED
  BY <1>1, <1>2, <1>3, <1>4, <1>5, <1>6, <1>7

LEMMA CopyBinaryKeeps ==
  ASSUME ExtensionInv, Extension!CopyBinary
  PROVE  ExtensionInv'
<1> USE ExtensionAssumption DEF ExtensionInv, Extension!CopyBinary, Extension!Writes, Extension!remote, Extension!checker, Extension!command, Extension!Return, Extension!GoTo, ExtensionTypes, DirTypes, StageTypes, RemoteTypes, ArgumentTypes, CheckTypes
<1>0. ~dir'.local /\ dir'.made /\ dir'.clone = Extension!NoClone
  BY DEF StageInv, Building, Writing, Extension!Dirs, Extension!Manifests, Extension!Clones
<1>1. ExtensionTypes'
  <2>1. dir' \in Extension!Dirs
    BY DEF StageInv, Building, Writing, Extension!Dirs, Extension!Manifests, Extension!Clones, Extension!Versions, Extension!Broken, Extension!Nothing, Extension!NoManifest, Extension!NoClone, Extension!Torn, Extension!CloneOf
  <2>2. DirTypes'
    BY <2>1 DEF StageInv, Building, ShapeInv, Writing, Extension!Dirs, Extension!Manifests, Extension!Clones, Extension!Versions, Extension!Broken, Extension!Nothing, Extension!NoManifest, Extension!NoClone, Extension!Torn, Extension!CloneOf
  <2>3. StageTypes' /\ RemoteTypes' /\ ArgumentTypes' /\ CheckTypes'
    BY DEF ExtensionStages, Extension!Choose
  <2> QED
    BY <2>1, <2>2, <2>3
<1>2. ShapeInv'
  BY <1>0 DEF ShapeInv
<1>3. ManifestInv'
  BY DEF ManifestInv, StageInv, Building, Writing, Extension!Latest, Extension!Dirs, Extension!Manifests, Extension!Clones, Extension!Versions, Extension!Broken, Extension!Nothing, Extension!NoManifest, Extension!NoClone, Extension!Torn, Extension!CloneOf
<1>4. StageInv'
  BY DEF StageInv, ShapeInv, ManifestInv, Building, Writing, Extension!Latest, Extension!Listed, Extension!Dirs, Extension!Manifests, Extension!Clones, Extension!Versions, Extension!Broken, Extension!Nothing, Extension!NoManifest, Extension!NoClone, Extension!Torn, Extension!CloneOf
<1>5. ProtectInv'
  BY DEF ProtectInv, Extension!Listed, Extension!IsPinned, Extension!IsBinary
<1>6. CheckInv'
  BY DEF CheckInv, Extension!UpdateStateIsOwn, Cleaned, Writing, Extension!Owner, Extension!IsBinary
<1>7. Extension!SuccessMeansInstalled'
  BY DEF Extension!SuccessMeansInstalled, StageInv, Extension!Whole, Extension!IsBinary, Extension!Owner, Extension!CurrentVersion, Extension!IsPinned
<1> QED
  BY <1>1, <1>2, <1>3, <1>4, <1>5, <1>6, <1>7

LEMMA OpenManifestKeeps ==
  ASSUME ExtensionInv, Extension!OpenManifest
  PROVE  ExtensionInv'
<1> USE ExtensionAssumption DEF ExtensionInv, Extension!OpenManifest, Extension!Writes, Extension!remote, Extension!checker, Extension!command, Extension!Return, Extension!GoTo, ExtensionTypes, DirTypes, StageTypes, RemoteTypes, ArgumentTypes, CheckTypes
<1>0. ~dir'.local /\ dir'.made /\ dir'.clone = Extension!NoClone
  BY DEF StageInv, Building, Writing, Extension!Dirs, Extension!Manifests, Extension!Clones
<1>1. ExtensionTypes'
  <2>1. dir' \in Extension!Dirs
    <3>1. Extension!Torn \in Extension!Manifests
      BY DEF Extension!Torn, Extension!Manifests
    <3> QED
      BY <3>1 DEF Extension!Dirs, Extension!Manifests, Extension!Clones
  <2>2. DirTypes'
    BY <2>1 DEF StageInv, Building, ShapeInv, Writing, Extension!Dirs, Extension!Manifests, Extension!Clones, Extension!Versions, Extension!Broken, Extension!Nothing, Extension!NoManifest, Extension!NoClone, Extension!Torn, Extension!CloneOf
  <2>3. StageTypes' /\ RemoteTypes' /\ ArgumentTypes' /\ CheckTypes'
    BY DEF ExtensionStages, Extension!Choose
  <2> QED
    BY <2>1, <2>2, <2>3
<1>2. ShapeInv'
  BY <1>0 DEF ShapeInv
<1>3. ManifestInv'
  BY DEF ManifestInv, StageInv, Building, Writing, Extension!Latest, Extension!Dirs, Extension!Manifests, Extension!Clones, Extension!Versions, Extension!Broken, Extension!Nothing, Extension!NoManifest, Extension!NoClone, Extension!Torn, Extension!CloneOf
<1>4. StageInv'
  BY DEF StageInv, ShapeInv, ManifestInv, Building, Writing, Extension!Latest, Extension!Listed, Extension!Dirs, Extension!Manifests, Extension!Clones, Extension!Versions, Extension!Broken, Extension!Nothing, Extension!NoManifest, Extension!NoClone, Extension!Torn, Extension!CloneOf
<1>5. ProtectInv'
  BY DEF ProtectInv, Extension!Listed, Extension!IsPinned, Extension!IsBinary
<1>6. CheckInv'
  BY DEF CheckInv, Extension!UpdateStateIsOwn, Cleaned, Writing, Extension!Owner, Extension!IsBinary
<1>7. Extension!SuccessMeansInstalled'
  BY DEF Extension!SuccessMeansInstalled, StageInv, Extension!Whole, Extension!IsBinary, Extension!Owner, Extension!CurrentVersion, Extension!IsPinned
<1> QED
  BY <1>1, <1>2, <1>3, <1>4, <1>5, <1>6, <1>7

LEMMA WriteManifestKeeps ==
  ASSUME ExtensionInv, Extension!WriteManifest
  PROVE  ExtensionInv'
<1> USE ExtensionAssumption DEF ExtensionInv, Extension!WriteManifest, Extension!Writes, Extension!remote, Extension!checker, Extension!command, Extension!Return, Extension!GoTo, ExtensionTypes, DirTypes, StageTypes, RemoteTypes, ArgumentTypes, CheckTypes
<1>0. ~dir'.local /\ dir'.made /\ dir'.clone = Extension!NoClone
  BY DEF StageInv, Building, Writing, Extension!Dirs, Extension!Manifests, Extension!Clones
<1>1. ExtensionTypes'
  <2>1. dir' \in Extension!Dirs
    BY DEF StageInv, Building, Writing, Extension!Dirs, Extension!Manifests, Extension!Clones, Extension!Versions, Extension!Broken, Extension!Nothing, Extension!NoManifest, Extension!NoClone, Extension!Torn, Extension!CloneOf
  <2>2. DirTypes'
    BY <2>1 DEF StageInv, Building, ShapeInv, Writing, Extension!Dirs, Extension!Manifests, Extension!Clones, Extension!Versions, Extension!Broken, Extension!Nothing, Extension!NoManifest, Extension!NoClone, Extension!Torn, Extension!CloneOf
  <2>3. StageTypes' /\ RemoteTypes' /\ ArgumentTypes' /\ CheckTypes'
    BY DEF ExtensionStages, Extension!Choose
  <2> QED
    BY <2>1, <2>2, <2>3
<1>2. ShapeInv'
  BY <1>0 DEF ShapeInv
<1>3. ManifestInv'
  BY DEF ManifestInv, StageInv, Building, Writing, Extension!Latest, Extension!Dirs, Extension!Manifests, Extension!Clones, Extension!Versions, Extension!Broken, Extension!Nothing, Extension!NoManifest, Extension!NoClone, Extension!Torn, Extension!CloneOf
<1>4. StageInv'
  BY DEF StageInv, ShapeInv, ManifestInv, Building, Writing, Extension!Latest, Extension!Listed, Extension!Dirs, Extension!Manifests, Extension!Clones, Extension!Versions, Extension!Broken, Extension!Nothing, Extension!NoManifest, Extension!NoClone, Extension!Torn, Extension!CloneOf
<1>5. ProtectInv'
  BY DEF ProtectInv, Extension!Listed, Extension!IsPinned, Extension!IsBinary
<1>6. CheckInv'
  BY DEF CheckInv, Extension!UpdateStateIsOwn, Cleaned, Writing, Extension!Owner, Extension!IsBinary
<1>7. Extension!SuccessMeansInstalled'
  <2>0. who \in Owners /\ version # 0 /\ (pinTo # 0 => version = pinTo) /\ dir.binary = version /\ op \in {"install", "upgrade"}
    BY DEF StageInv, Writing
  <2>1. dir'.manifest = [owner |-> who, tag |-> version, pinned |-> pinTo # 0] /\ dir'.binary = dir.binary
    BY DEF Extension!Dirs, Extension!Manifests, Extension!Clones
  <2>2. Extension!IsBinary' /\ Extension!Owner' = who' /\ Extension!Whole' /\ Extension!CurrentVersion' = version' /\ op' = op /\ (pinTo' # 0 => version' = pinTo') /\ version' \in 0 .. MaxVersion
    BY <2>0, <2>1, <1>0 DEF Extension!IsBinary, Extension!Owner, Extension!Whole, Extension!CurrentVersion
  <2>3. (Extension!IsPinned = (pinTo # 0))'
    <3>1. dir'.manifest.pinned = (pinTo # 0) /\ pinTo' = pinTo
      BY <2>1
    <3> QED
      BY <3>1, <2>2 DEF Extension!IsPinned
  <2> QED
    <3>1. outcome' = "ok"
      OBVIOUS
    <3>2. CASE op' = "install"
      BY <2>0, <2>2, <2>3, <3>1, <3>2 DEF Extension!SuccessMeansInstalled
    <3>3. CASE op' = "upgrade"
      BY <2>0, <2>2, <3>1, <3>3 DEF Extension!SuccessMeansInstalled
    <3> QED
      BY <2>0, <2>2, <3>2, <3>3
<1> QED
  BY <1>1, <1>2, <1>3, <1>4, <1>5, <1>6, <1>7

LEMMA CloneKeeps ==
  ASSUME ExtensionInv, Extension!Clone
  PROVE  ExtensionInv'
<1> USE ExtensionAssumption DEF ExtensionInv, Extension!Clone, Extension!Writes, Extension!remote, Extension!checker, Extension!command, Extension!Return, Extension!GoTo, ExtensionTypes, StageTypes, RemoteTypes, ArgumentTypes, CheckTypes
<1>0. /\ ~dir'.local /\ dir'.made /\ dir'.manifest = Extension!NoManifest /\ dir'.binary = 0
      /\ dir'.clone = [owner |-> who, commit |-> head[who], tracked |-> head[who], detached |-> FALSE, pin |-> 0]
      /\ head[who] \in 1 .. MaxVersion /\ who \in Owners /\ op = "install"
  BY LatestType DEF Extension!CloneOf, Extension!Nothing, StageInv
<1>1. ExtensionTypes'
  <2>1. dir' \in Extension!Dirs
    <3>1. dir'.clone \in Extension!Clones
      <4> HIDE DEF Extension!Clone, ExtensionInv
      <4>1. PICK h \in 0 .. MaxVersion : h = head[who]
        BY <1>0
      <4>2. [owner |-> who, commit |-> h, tracked |-> h, detached |-> FALSE, pin |-> 0] \in Extension!Clones
        BY <1>0, <4>1 DEF Extension!Clones
      <4> QED
        BY <1>0, <4>1, <4>2
    <3>2. Extension!NoManifest \in Extension!Manifests
      BY DEF Extension!NoManifest, Extension!Manifests
    <3>3. PICK c : c = dir'.clone
      OBVIOUS
    <3>4. dir' = [made |-> TRUE, local |-> FALSE, binary |-> 0, manifest |-> Extension!NoManifest, clone |-> c]
      BY <1>0, <3>3 DEF Extension!CloneOf, Extension!Nothing
    <3>5. 0 \in 0 .. Extension!Broken
      BY DEF Extension!Broken
    <3> HIDE DEF Extension!Clone
    <3> QED
      BY <3>1, <3>2, <3>3, <3>4, <3>5 DEF Extension!Dirs
  <2>2. DirTypes'
    BY <2>1 DEF DirTypes, StageInv, Building, ShapeInv, Writing, Extension!Dirs, Extension!Manifests, Extension!Clones, Extension!Versions, Extension!Broken, Extension!Nothing, Extension!NoManifest, Extension!NoClone, Extension!Torn, Extension!CloneOf
  <2>3. StageTypes' /\ RemoteTypes' /\ ArgumentTypes' /\ CheckTypes'
    BY DEF ExtensionStages, Extension!Choose
  <2> QED
    BY <2>1, <2>2, <2>3
<1>2. ShapeInv'
  BY <1>1 DEF ShapeInv, StageInv, Extension!Dirs, Extension!Manifests, Extension!Clones, Extension!Versions, Extension!Broken, Extension!Nothing, Extension!NoManifest, Extension!NoClone, Extension!Torn, Extension!CloneOf
<1>3. ManifestInv'
  BY DEF ManifestInv, StageInv, Building, Writing, Extension!Latest, Extension!Dirs, Extension!Manifests, Extension!Clones, Extension!Versions, Extension!Broken, Extension!Nothing, Extension!NoManifest, Extension!NoClone, Extension!Torn, Extension!CloneOf
<1>4. StageInv'
  BY DEF StageInv, ShapeInv, ManifestInv, Building, Writing, Extension!Latest, Extension!Listed, Extension!Dirs, Extension!Manifests, Extension!Clones, Extension!Versions, Extension!Broken, Extension!Nothing, Extension!NoManifest, Extension!NoClone, Extension!Torn, Extension!CloneOf
<1>5. ProtectInv'
  BY DEF ProtectInv, Extension!Listed, Extension!IsPinned, Extension!IsBinary
<1>6. CheckInv'
  BY DEF CheckInv, Extension!UpdateStateIsOwn, Cleaned, Writing, Extension!Owner, Extension!IsBinary
<1>7. Extension!SuccessMeansInstalled'
  <2>1. CASE pinTo # 0
    BY <2>1, <1>0 DEF Extension!SuccessMeansInstalled
  <2> HIDE DEF Extension!Clone, ExtensionTypes, StageTypes, RemoteTypes, ArgumentTypes, CheckTypes
  <2>2. CASE pinTo = 0
    <3>0. op' = op /\ pinTo' = pinTo /\ who' = who /\ outcome' = "ok"
      BY <2>2 DEF Extension!Clone
    <3>1. op' = "install" /\ ~Extension!IsBinary' /\ Extension!Owner' = who' /\ Extension!Whole' /\ pinTo' = 0
      BY <2>2, <3>0, <1>0, ExtensionAssumption DEF Extension!IsBinary, Extension!Owner, Extension!Whole, Extension!NoManifest
    <3>2. ~Extension!IsPinned'
      BY <3>1, <1>0 DEF Extension!IsPinned
    <3>3. (Extension!IsPinned = (pinTo # 0))'
      BY <3>1, <3>2 DEF Extension!IsPinned
    <3> QED
      BY <3>0, <3>1, <3>3 DEF Extension!SuccessMeansInstalled
  <2> QED
    BY <2>1, <2>2
<1> QED
  BY <1>1, <1>2, <1>3, <1>4, <1>5, <1>6, <1>7

LEMMA CheckoutCommitKeeps ==
  ASSUME ExtensionInv, Extension!CheckoutCommit
  PROVE  ExtensionInv'
<1> USE ExtensionAssumption DEF ExtensionInv, Extension!CheckoutCommit, Extension!Writes, Extension!remote, Extension!checker, Extension!command, Extension!Return, Extension!GoTo, ExtensionTypes, DirTypes, StageTypes, RemoteTypes, ArgumentTypes, CheckTypes
<1>0. /\ ~dir'.local /\ dir'.made /\ dir'.manifest = dir.manifest /\ dir'.binary = dir.binary
      /\ dir'.clone.owner = who /\ dir'.clone.commit = pinTo /\ dir'.clone.tracked = dir.clone.tracked
      /\ who \in Owners /\ op = "install" /\ pinTo # 0 /\ dir.clone.owner = who
  BY DEF StageInv, Extension!Dirs, Extension!Manifests, Extension!Clones
<1>1. ExtensionTypes'
  <2>1. dir' \in Extension!Dirs
    BY DEF StageInv, Building, Writing, Extension!Dirs, Extension!Manifests, Extension!Clones, Extension!Versions, Extension!Broken, Extension!Nothing, Extension!NoManifest, Extension!NoClone, Extension!Torn, Extension!CloneOf
  <2>2. DirTypes'
    BY <2>1 DEF StageInv, Building, ShapeInv, Writing, Extension!Dirs, Extension!Manifests, Extension!Clones, Extension!Versions, Extension!Broken, Extension!Nothing, Extension!NoManifest, Extension!NoClone, Extension!Torn, Extension!CloneOf
  <2>3. StageTypes' /\ RemoteTypes' /\ ArgumentTypes' /\ CheckTypes'
    BY DEF ExtensionStages, Extension!Choose
  <2> QED
    BY <2>1, <2>2, <2>3
<1>2. ShapeInv'
  BY <1>0, <1>1 DEF ShapeInv, Extension!NoClone
<1>3. ManifestInv'
  BY DEF ManifestInv, StageInv, Building, Writing, Extension!Latest, Extension!Dirs, Extension!Manifests, Extension!Clones, Extension!Versions, Extension!Broken, Extension!Nothing, Extension!NoManifest, Extension!NoClone, Extension!Torn, Extension!CloneOf
<1>4. StageInv'
  BY DEF StageInv, ShapeInv, ManifestInv, Building, Writing, Extension!Latest, Extension!Listed, Extension!Dirs, Extension!Manifests, Extension!Clones, Extension!Versions, Extension!Broken, Extension!Nothing, Extension!NoManifest, Extension!NoClone, Extension!Torn, Extension!CloneOf
<1>5. ProtectInv'
  BY DEF ProtectInv, Extension!Listed, Extension!IsPinned, Extension!IsBinary
<1>6. CheckInv'
  BY DEF CheckInv, Extension!UpdateStateIsOwn, Cleaned, Writing, Extension!Owner, Extension!IsBinary
<1>7. Extension!SuccessMeansInstalled'
  BY DEF Extension!SuccessMeansInstalled, StageInv, Extension!Whole, Extension!IsBinary, Extension!Owner, Extension!CurrentVersion, Extension!IsPinned
<1> QED
  BY <1>1, <1>2, <1>3, <1>4, <1>5, <1>6, <1>7

LEMMA PinKeeps ==
  ASSUME ExtensionInv, Extension!Pin
  PROVE  ExtensionInv'
<1> USE ExtensionAssumption DEF ExtensionInv, Extension!Pin, Extension!Writes, Extension!remote, Extension!checker, Extension!command, Extension!Return, Extension!GoTo, ExtensionTypes, DirTypes, StageTypes, RemoteTypes, ArgumentTypes, CheckTypes
<1>0. /\ ~dir'.local /\ dir'.made /\ dir'.manifest = dir.manifest /\ dir'.binary = dir.binary
      /\ dir'.clone.owner = who /\ dir'.clone.commit = pinTo /\ dir'.clone.pin = pinTo
      /\ dir'.clone.tracked = dir.clone.tracked /\ dir.manifest = Extension!NoManifest
      /\ who \in Owners /\ op = "install" /\ pinTo # 0 /\ dir.clone.owner = who
  BY DEF StageInv, Extension!Dirs, Extension!Manifests, Extension!Clones, Extension!NoClone
<1>1. ExtensionTypes'
  <2>1. dir' \in Extension!Dirs
    BY DEF StageInv, Building, Writing, Extension!Dirs, Extension!Manifests, Extension!Clones, Extension!Versions, Extension!Broken, Extension!Nothing, Extension!NoManifest, Extension!NoClone, Extension!Torn, Extension!CloneOf
  <2>2. DirTypes'
    BY <2>1 DEF StageInv, Building, ShapeInv, Writing, Extension!Dirs, Extension!Manifests, Extension!Clones, Extension!Versions, Extension!Broken, Extension!Nothing, Extension!NoManifest, Extension!NoClone, Extension!Torn, Extension!CloneOf
  <2>3. StageTypes' /\ RemoteTypes' /\ ArgumentTypes' /\ CheckTypes'
    BY DEF ExtensionStages, Extension!Choose
  <2> QED
    BY <2>1, <2>2, <2>3
<1>2. ShapeInv'
  BY <1>1 DEF ShapeInv, StageInv, Extension!Dirs, Extension!Manifests, Extension!Clones, Extension!Versions, Extension!Broken, Extension!Nothing, Extension!NoManifest, Extension!NoClone, Extension!Torn, Extension!CloneOf
<1>3. ManifestInv'
  BY DEF ManifestInv, StageInv, Building, Writing, Extension!Latest, Extension!Dirs, Extension!Manifests, Extension!Clones, Extension!Versions, Extension!Broken, Extension!Nothing, Extension!NoManifest, Extension!NoClone, Extension!Torn, Extension!CloneOf
<1>4. StageInv'
  BY DEF StageInv, ShapeInv, ManifestInv, Building, Writing, Extension!Latest, Extension!Listed, Extension!Dirs, Extension!Manifests, Extension!Clones, Extension!Versions, Extension!Broken, Extension!Nothing, Extension!NoManifest, Extension!NoClone, Extension!Torn, Extension!CloneOf
<1>5. ProtectInv'
  BY DEF ProtectInv, Extension!Listed, Extension!IsPinned, Extension!IsBinary
<1>6. CheckInv'
  BY DEF CheckInv, Extension!UpdateStateIsOwn, Cleaned, Writing, Extension!Owner, Extension!IsBinary
<1>7. Extension!SuccessMeansInstalled'
  <2>1. op' = "install" /\ ~Extension!IsBinary' /\ Extension!Owner' = who' /\ Extension!Whole' /\ pinTo' # 0 /\ Extension!CurrentVersion' = pinTo'
    BY <1>0 DEF Extension!IsBinary, Extension!Owner, Extension!Whole, Extension!CurrentVersion, Extension!NoManifest
  <2>2. Extension!IsPinned'
    BY <2>1, <1>0 DEF Extension!IsPinned
  <2> QED
    BY <2>1, <2>2 DEF Extension!SuccessMeansInstalled
<1> QED
  BY <1>1, <1>2, <1>3, <1>4, <1>5, <1>6, <1>7

PulledTo(d, v) == [d EXCEPT !.clone.commit = v, !.clone.tracked = v]

LEMMA Pulled ==
  ASSUME NEW d \in Extension!Dirs, NEW v \in 0 .. MaxVersion
  PROVE  LET e == PulledTo(d, v)
         IN  /\ e.made = d.made /\ e.local = d.local /\ e.manifest = d.manifest /\ e.binary = d.binary
             /\ e.clone.owner = d.clone.owner /\ e.clone.commit = v /\ e.clone.tracked = v
             /\ e \in Extension!Dirs
<1> DEFINE e == PulledTo(d, v)
<1>1. /\ e.made = d.made /\ e.local = d.local /\ e.manifest = d.manifest /\ e.binary = d.binary
      /\ e = [d EXCEPT !.clone = [d.clone EXCEPT !.commit = v, !.tracked = v]]
  BY DEF Extension!Dirs, Extension!Manifests, Extension!Clones, PulledTo
<1>2. e.clone.owner = d.clone.owner /\ e.clone.commit = v /\ e.clone.tracked = v
  BY DEF Extension!Dirs, Extension!Manifests, Extension!Clones, PulledTo
<1>3. e \in Extension!Dirs
  <2>1. [d.clone EXCEPT !.commit = v, !.tracked = v] \in
          Extension!Clones
    BY DEF Extension!Dirs, Extension!Manifests, Extension!Clones
  <2> QED
    BY <1>1, <2>1 DEF Extension!Dirs, Extension!Manifests, Extension!Clones
<1> QED
  BY <1>1, <1>2, <1>3

LEMMA PullCloneKeeps ==
  ASSUME ExtensionInv, Extension!PullClone
  PROVE  ExtensionInv'
<1> USE ExtensionAssumption DEF ExtensionInv, Extension!PullClone, Extension!Writes, Extension!remote, Extension!checker, Extension!command, Extension!Return, Extension!GoTo, ExtensionTypes, DirTypes, StageTypes, RemoteTypes, ArgumentTypes, CheckTypes
<1>0. /\ dir.made /\ ~dir.local /\ dir.clone.owner = who /\ who \in Owners /\ op = "upgrade" /\ version <= head[who]
      /\ head[who] \in 1 .. MaxVersion
  BY LatestType DEF StageInv
<1>00. dir.manifest = Extension!NoManifest
  BY <1>0 DEF Extension!NoClone
<1>01. CASE dir.clone.detached
  <2>1. outcome' = "error" /\ pc' = "done" /\ dir' = dir
    BY <1>01
  <2> QED
    BY <1>0, <2>1, DirSame DEF StageInv, ProtectInv, CheckInv, Extension!UpdateStateIsOwn, Extension!SuccessMeansInstalled, Cleaned, Writing, ExtensionStages
<1> SUFFICES ASSUME ~dir.clone.detached PROVE ExtensionInv'
  BY <1>01
<1>02. dir' = PulledTo(dir, head[who]) /\ outcome' = "ok" /\ pc' = "done"
  BY DEF PulledTo
<1>03. /\ ~dir'.local /\ dir'.made /\ dir'.manifest = dir.manifest /\ dir'.binary = dir.binary
       /\ dir'.clone.owner = who /\ dir'.clone.commit = head[who] /\ dir'.clone.tracked = head[who]
       /\ dir' \in Extension!Dirs
  <2>1. dir \in Extension!Dirs /\ head[who] \in 0 .. MaxVersion
    BY <1>0
  <2>2. dir'.made = dir.made /\ dir'.local = dir.local /\ dir'.manifest = dir.manifest /\ dir'.binary = dir.binary
    BY <1>02, <2>1, Pulled
  <2>3. dir'.clone.owner = dir.clone.owner /\ dir'.clone.commit = head[who] /\ dir'.clone.tracked = head[who]
    BY <1>02, <2>1, Pulled
  <2>4. dir' \in Extension!Dirs
    BY <1>02, <2>1, Pulled
  <2> QED
    BY <1>0, <2>2, <2>3, <2>4
<1>04. dir.binary = 0 /\ Extension!Owner = who /\ Extension!Owner' = who
  BY <1>0, <1>00, <1>03 DEF Extension!Owner, Extension!IsBinary, Extension!NoManifest, Extension!NoClone
<1>1. ExtensionTypes'
  <2>1. dir' \in Extension!Dirs
    BY <1>03
  <2>2. DirTypes'
    BY <1>03, <1>04, <1>00
  <2>3. StageTypes' /\ RemoteTypes' /\ ArgumentTypes' /\ CheckTypes'
    BY DEF ExtensionStages, Extension!Choose
  <2> QED
    BY <2>1, <2>2, <2>3
<1>2. ShapeInv'
  BY <1>0, <1>03 DEF ShapeInv
<1>3. ManifestInv'
  BY <1>00, <1>03 DEF ManifestInv, Extension!NoManifest
<1>4. StageInv'
  BY DEF StageInv, ShapeInv, ManifestInv, Building, Writing, Extension!Latest, Extension!Listed, Extension!Dirs, Extension!Manifests, Extension!Clones, Extension!Versions, Extension!Broken, Extension!Nothing, Extension!NoManifest, Extension!NoClone, Extension!Torn, Extension!CloneOf
<1>5. ProtectInv'
  BY DEF ProtectInv, Extension!Listed, Extension!IsPinned, Extension!IsBinary
<1>6. CheckInv'
  BY <1>04 DEF CheckInv, Extension!UpdateStateIsOwn, Cleaned, Writing
<1>7. Extension!SuccessMeansInstalled'
  <2>1. ~Extension!IsBinary' /\ Extension!Whole' /\ op' = op /\ who' = who /\ version' = version
    BY <1>0, <1>00, <1>03 DEF Extension!IsBinary, Extension!Whole, Extension!NoManifest
  <2> QED
    BY <1>0, <1>02, <1>03, <1>04, <2>1 DEF Extension!SuccessMeansInstalled, Extension!CurrentVersion
<1> QED
  BY <1>1, <1>2, <1>3, <1>4, <1>5, <1>6, <1>7

LEMMA ResetCloneKeeps ==
  ASSUME ExtensionInv, Extension!ResetClone
  PROVE  ExtensionInv'
<1> USE ExtensionAssumption DEF ExtensionInv, Extension!ResetClone, Extension!Writes, Extension!remote, Extension!checker, Extension!command, Extension!Return, Extension!GoTo, ExtensionTypes, DirTypes, StageTypes, RemoteTypes, ArgumentTypes, CheckTypes
<1>0. /\ dir.made /\ ~dir.local /\ dir.clone.owner = who /\ who \in Owners /\ op = "upgrade" /\ force
      /\ dir.clone.tracked # 0 /\ dir.clone.tracked \in 0 .. MaxVersion
  BY DEF StageInv, ShapeInv, Extension!Dirs, Extension!Manifests, Extension!Clones, Extension!NoClone
<1>00. dir.manifest = Extension!NoManifest
  BY <1>0 DEF Extension!NoClone
<1>03. /\ ~dir'.local /\ dir'.made /\ dir'.manifest = dir.manifest /\ dir'.binary = dir.binary
       /\ dir'.clone.owner = who /\ dir'.clone.commit # 0
  BY <1>0 DEF Extension!Dirs, Extension!Manifests, Extension!Clones
<1>04. dir.binary = 0 /\ Extension!Owner = who /\ Extension!Owner' = who
  BY <1>0, <1>00, <1>03 DEF Extension!Owner, Extension!IsBinary, Extension!NoManifest, Extension!NoClone
<1>1. ExtensionTypes'
  <2>1. dir' \in Extension!Dirs
    BY DEF StageInv, Building, Writing, Extension!Dirs, Extension!Manifests, Extension!Clones, Extension!Versions, Extension!Broken, Extension!Nothing, Extension!NoManifest, Extension!NoClone, Extension!Torn, Extension!CloneOf
  <2>2. DirTypes'
    BY <2>1 DEF StageInv, Building, ShapeInv, Writing, Extension!Dirs, Extension!Manifests, Extension!Clones, Extension!Versions, Extension!Broken, Extension!Nothing, Extension!NoManifest, Extension!NoClone, Extension!Torn, Extension!CloneOf
  <2>3. StageTypes' /\ RemoteTypes' /\ ArgumentTypes' /\ CheckTypes'
    BY DEF ExtensionStages, Extension!Choose
  <2> QED
    BY <2>1, <2>2, <2>3
<1>2. ShapeInv'
  BY <1>1 DEF ShapeInv, StageInv, Extension!Dirs, Extension!Manifests, Extension!Clones, Extension!Versions, Extension!Broken, Extension!Nothing, Extension!NoManifest, Extension!NoClone, Extension!Torn, Extension!CloneOf
<1>3. ManifestInv'
  BY DEF ManifestInv, StageInv, Building, Writing, Extension!Latest, Extension!Dirs, Extension!Manifests, Extension!Clones, Extension!Versions, Extension!Broken, Extension!Nothing, Extension!NoManifest, Extension!NoClone, Extension!Torn, Extension!CloneOf
<1>4. StageInv'
  BY DEF StageInv, ShapeInv, ManifestInv, Building, Writing, Extension!Latest, Extension!Listed, Extension!Dirs, Extension!Manifests, Extension!Clones, Extension!Versions, Extension!Broken, Extension!Nothing, Extension!NoManifest, Extension!NoClone, Extension!Torn, Extension!CloneOf
<1>5. ProtectInv'
  BY DEF ProtectInv, Extension!Listed, Extension!IsPinned, Extension!IsBinary
<1>6. CheckInv'
  BY <1>04 DEF CheckInv, Extension!UpdateStateIsOwn, Cleaned, Writing
<1>7. Extension!SuccessMeansInstalled'
  <2>1. ~Extension!IsBinary' /\ Extension!Whole' /\ op' = op /\ who' = who /\ force' = force /\ outcome' = "ok"
    BY <1>0, <1>00, <1>03 DEF Extension!IsBinary, Extension!Whole, Extension!NoManifest
  <2> QED
    BY <1>0, <1>03, <1>04, <2>1 DEF Extension!SuccessMeansInstalled
<1> QED
  BY <1>1, <1>2, <1>3, <1>4, <1>5, <1>6, <1>7

LEMMA RemoveRestKeeps ==
  ASSUME ExtensionInv, Extension!RemoveRest
  PROVE  ExtensionInv'
<1> USE ExtensionAssumption DEF ExtensionInv, Extension!RemoveRest, Extension!Writes, Extension!remote, Extension!checker, Extension!command, Extension!Return, Extension!GoTo, ExtensionTypes, DirTypes, StageTypes, RemoteTypes, ArgumentTypes, CheckTypes
<1>1. ExtensionTypes'
  <2>1. dir' \in Extension!Dirs
    BY DEF StageInv, Building, Writing, Extension!Dirs, Extension!Manifests, Extension!Clones, Extension!Versions, Extension!Broken, Extension!Nothing, Extension!NoManifest, Extension!NoClone, Extension!Torn, Extension!CloneOf
  <2>2. DirTypes'
    BY <2>1 DEF StageInv, Building, ShapeInv, Writing, Extension!Dirs, Extension!Manifests, Extension!Clones, Extension!Versions, Extension!Broken, Extension!Nothing, Extension!NoManifest, Extension!NoClone, Extension!Torn, Extension!CloneOf
  <2>3. StageTypes' /\ RemoteTypes' /\ ArgumentTypes' /\ CheckTypes'
    BY DEF ExtensionStages, Extension!Choose
  <2> QED
    BY <2>1, <2>2, <2>3
<1>2. ShapeInv'
  BY <1>1 DEF ShapeInv, StageInv, Extension!Dirs, Extension!Manifests, Extension!Clones, Extension!Versions, Extension!Broken, Extension!Nothing, Extension!NoManifest, Extension!NoClone, Extension!Torn, Extension!CloneOf
<1>3. ManifestInv'
  BY DEF ManifestInv, StageInv, Building, Writing, Extension!Latest, Extension!Dirs, Extension!Manifests, Extension!Clones, Extension!Versions, Extension!Broken, Extension!Nothing, Extension!NoManifest, Extension!NoClone, Extension!Torn, Extension!CloneOf
<1>4. StageInv'
  BY DEF StageInv, ShapeInv, ManifestInv, Building, Writing, Extension!Latest, Extension!Listed, Extension!Dirs, Extension!Manifests, Extension!Clones, Extension!Versions, Extension!Broken, Extension!Nothing, Extension!NoManifest, Extension!NoClone, Extension!Torn, Extension!CloneOf
<1>5. ProtectInv'
  BY DEF ProtectInv, Extension!Listed, Extension!IsPinned, Extension!IsBinary
<1>6. CheckInv'
  BY DEF CheckInv, Extension!UpdateStateIsOwn, Cleaned, Writing, Extension!Owner, Extension!IsBinary
<1>7. Extension!SuccessMeansInstalled'
  BY DEF Extension!SuccessMeansInstalled, StageInv, Extension!Whole, Extension!IsBinary, Extension!Owner, Extension!CurrentVersion, Extension!IsPinned
<1> QED
  BY <1>1, <1>2, <1>3, <1>4, <1>5, <1>6, <1>7

LEMMA FailsKeeps ==
  ASSUME ExtensionInv, Extension!Fails
  PROVE  ExtensionInv'
<1> USE ExtensionAssumption DEF ExtensionInv, Extension!Fails, Extension!remote, Extension!checker, Extension!command, Extension!Return, Extension!GoTo, ExtensionTypes, DirTypes, StageTypes, RemoteTypes, ArgumentTypes, CheckTypes
<1>1. ExtensionTypes'
  <2>1. dir' \in Extension!Dirs
    BY DEF Extension!Writes, StageInv, Building, Writing, Extension!Dirs, Extension!Manifests, Extension!Clones, Extension!Versions, Extension!Broken, Extension!Nothing, Extension!NoManifest, Extension!NoClone, Extension!Torn, Extension!CloneOf
  <2>2. DirTypes'
    BY <2>1 DEF Extension!Writes, StageInv, Building, ShapeInv, Writing, Extension!Dirs, Extension!Manifests, Extension!Clones, Extension!Versions, Extension!Broken, Extension!Nothing, Extension!NoManifest, Extension!NoClone, Extension!Torn, Extension!CloneOf
  <2>3. StageTypes' /\ RemoteTypes' /\ ArgumentTypes' /\ CheckTypes'
    BY DEF ExtensionStages, Extension!Choose
  <2> QED
    BY <2>1, <2>2, <2>3
<1>2. ShapeInv'
  BY <1>1 DEF ShapeInv, StageInv, Extension!Writes, Extension!Dirs, Extension!Manifests, Extension!Clones, Extension!Versions, Extension!Broken, Extension!Nothing, Extension!NoManifest, Extension!NoClone, Extension!Torn, Extension!CloneOf
<1>3. ManifestInv'
  BY DEF ManifestInv, StageInv, Building, Writing, Extension!Latest, Extension!Writes, Extension!Dirs, Extension!Manifests, Extension!Clones, Extension!Versions, Extension!Broken, Extension!Nothing, Extension!NoManifest, Extension!NoClone, Extension!Torn, Extension!CloneOf
<1>4. StageInv'
  BY DEF StageInv, ShapeInv, ManifestInv, Building, Writing, Extension!Latest, Extension!Listed, Extension!Writes, Extension!Dirs, Extension!Manifests, Extension!Clones, Extension!Versions, Extension!Broken, Extension!Nothing, Extension!NoManifest, Extension!NoClone, Extension!Torn, Extension!CloneOf
<1>5. ProtectInv'
  BY DEF ProtectInv, Extension!Listed, Extension!IsPinned, Extension!IsBinary, Extension!Writes
<1>6. CheckInv'
  BY DEF CheckInv, Extension!UpdateStateIsOwn, Cleaned, Writing, Extension!Owner, Extension!IsBinary, Extension!Writes
<1>7. Extension!SuccessMeansInstalled'
  BY DEF Extension!SuccessMeansInstalled, StageInv, Extension!Whole, Extension!IsBinary, Extension!Owner, Extension!CurrentVersion, Extension!IsPinned, Extension!Writes
<1> QED
  BY <1>1, <1>2, <1>3, <1>4, <1>5, <1>6, <1>7

LEMMA ExtensionKilledKeeps ==
  ASSUME ExtensionInv, Extension!Killed
  PROVE  ExtensionInv'
<1> USE ExtensionAssumption DEF ExtensionInv, Extension!Killed, Extension!Writes, Extension!remote, Extension!checker, Extension!command, Extension!Return, Extension!GoTo, ExtensionTypes, DirTypes, StageTypes, RemoteTypes, ArgumentTypes, CheckTypes
<1>1. ExtensionTypes'
  <2>1. dir' \in Extension!Dirs
    BY DEF StageInv, Building, Writing, Extension!Dirs, Extension!Manifests, Extension!Clones, Extension!Versions, Extension!Broken, Extension!Nothing, Extension!NoManifest, Extension!NoClone, Extension!Torn, Extension!CloneOf
  <2>2. DirTypes'
    BY <2>1 DEF StageInv, Building, ShapeInv, Writing, Extension!Dirs, Extension!Manifests, Extension!Clones, Extension!Versions, Extension!Broken, Extension!Nothing, Extension!NoManifest, Extension!NoClone, Extension!Torn, Extension!CloneOf
  <2>3. StageTypes' /\ RemoteTypes' /\ ArgumentTypes' /\ CheckTypes'
    BY DEF ExtensionStages, Extension!Choose
  <2> QED
    BY <2>1, <2>2, <2>3
<1>2. ShapeInv'
  BY <1>1 DEF ShapeInv, StageInv, Extension!Dirs, Extension!Manifests, Extension!Clones, Extension!Versions, Extension!Broken, Extension!Nothing, Extension!NoManifest, Extension!NoClone, Extension!Torn, Extension!CloneOf
<1>3. ManifestInv'
  BY DEF ManifestInv, StageInv, Building, Writing, Extension!Latest, Extension!Dirs, Extension!Manifests, Extension!Clones, Extension!Versions, Extension!Broken, Extension!Nothing, Extension!NoManifest, Extension!NoClone, Extension!Torn, Extension!CloneOf
<1>4. StageInv'
  BY DEF StageInv, ShapeInv, ManifestInv, Building, Writing, Extension!Latest, Extension!Listed, Extension!Dirs, Extension!Manifests, Extension!Clones, Extension!Versions, Extension!Broken, Extension!Nothing, Extension!NoManifest, Extension!NoClone, Extension!Torn, Extension!CloneOf
<1>5. ProtectInv'
  BY DEF ProtectInv, Extension!Listed, Extension!IsPinned, Extension!IsBinary
<1>6. CheckInv'
  BY DEF CheckInv, Extension!UpdateStateIsOwn, Cleaned, Writing, Extension!Owner, Extension!IsBinary
<1>7. Extension!SuccessMeansInstalled'
  BY DEF Extension!SuccessMeansInstalled, StageInv, Extension!Whole, Extension!IsBinary, Extension!Owner, Extension!CurrentVersion, Extension!IsPinned
<1> QED
  BY <1>1, <1>2, <1>3, <1>4, <1>5, <1>6, <1>7

LEMMA ExtensionBeginKeeps ==
  ASSUME ExtensionInv, Extension!Begin
  PROVE  ExtensionInv'
<1> USE ExtensionAssumption DEF ExtensionInv
<1>1. ExtensionTypes'
  <2>1. UNCHANGED <<head, releasing, dir, stateOf, checking, late, stale>> /\ count' \in 0 .. MaxCommands
    BY DEF Extension!Begin, ExtensionTypes, DirTypes, StageTypes, RemoteTypes, ArgumentTypes, CheckTypes, Extension!remote, Extension!checker
  <2>2. op' \in {"install", "local", "upgrade", "remove"} /\ pc' = op' /\ who' \in Owners \cup {"none"}
        /\ pinTo' \in 0 .. MaxVersion /\ version' = 0 /\ outcome' = "none" /\ force' \in BOOLEAN
    <3>1. op' \in {"install", "local", "upgrade", "remove"} /\ pc' = op' /\ version' = 0 /\ outcome' = "none"
      BY DEF Extension!Begin
    <3>2. who' \in Owners \cup {"none"} /\ force' \in BOOLEAN
      BY DEF Extension!Begin
    <3>3. pinTo' \in 0 .. MaxVersion
      <4>1. pinTo' \in IF op' = "install" THEN 0 .. MaxVersion ELSE {0}
        BY DEF Extension!Begin
      <4> QED
        BY <4>1
    <3> QED
      BY <3>1, <3>2, <3>3
  <2>3. protected' \in BOOLEAN
    BY DEF Extension!Begin, Extension!Protects
  <2> QED
    BY <2>1, <2>2, <2>3 DEF ExtensionTypes, DirTypes, StageTypes, RemoteTypes, ArgumentTypes, CheckTypes, ExtensionStages
<1>2. ShapeInv' /\ ManifestInv'
  BY DirSame DEF Extension!Begin
<1>3. StageInv' /\ pc' \in {"install", "local", "upgrade", "remove"} /\ outcome' = "none"
  BY DEF Extension!Begin, StageInv, Writing
<1>4. ProtectInv'
  BY <1>3 DEF Extension!Begin, ProtectInv, Extension!Protects, Extension!Listed, Extension!IsPinned, Extension!IsBinary
<1>5. CheckInv'
  BY <1>3, DirSame DEF Extension!Begin, CheckInv, Extension!UpdateStateIsOwn, Cleaned, Writing, Extension!checker
<1> QED
  BY <1>1, <1>2, <1>3, <1>4, <1>5 DEF Extension!SuccessMeansInstalled

LEMMA IdleKeeps ==
  ASSUME ExtensionInv, Extension!CheckBegins \/ Extension!CheckEnds
  PROVE  ExtensionInv'
<1> USE ExtensionAssumption DEF ExtensionInv
<1>1. UNCHANGED <<Extension!remote, dir, op, who, pinTo, version, force, protected, count, pc, outcome>>
  BY DEF Extension!CheckBegins, Extension!CheckEnds, Extension!Idle, Extension!command
<1>2. Extension!Owner \in Owners \cup {"none", "torn"}
  BY DEF Extension!Owner, ExtensionTypes, DirTypes, StageTypes, RemoteTypes, ArgumentTypes, CheckTypes, Extension!Dirs, Extension!Manifests, Extension!Clones
<1>3. ExtensionTypes'
  BY <1>1, <1>2 DEF Extension!CheckBegins, Extension!CheckEnds, ExtensionTypes, DirTypes, StageTypes, RemoteTypes, ArgumentTypes, CheckTypes, Extension!remote
<1>4. ShapeInv' /\ ManifestInv'
  BY <1>1, DirSame
<1>5. StageInv'
  BY <1>1, RemoteSame DEF StageInv, Building, Extension!remote, Writing, Extension!Latest
<1>6. ProtectInv'
  BY <1>1, DirSame DEF ProtectInv
<1>7. CheckInv'
  BY <1>1, DirSame DEF Extension!CheckBegins, Extension!CheckEnds, CheckInv, Extension!UpdateStateIsOwn, Cleaned, Writing, ExtensionTypes, DirTypes, StageTypes, RemoteTypes, ArgumentTypes, CheckTypes
<1>8. Extension!SuccessMeansInstalled'
  BY <1>1, SuccessSame
<1> QED
  BY <1>3, <1>4, <1>5, <1>6, <1>7, <1>8

LEMMA LatestGrows ==
  ASSUME ExtensionInv, Extension!Publish
  PROVE  /\ head' \in [Owners -> Extension!Versions] /\ releasing' \subseteq Owners
         /\ \A o \in Owners : head[o] <= head'[o] /\ Extension!Latest(o) <= Extension!Latest(o)'
         /\ \A o \in Owners : Extension!Latest(o) # 0 => Extension!Latest(o)' # 0
<1> USE ExtensionAssumption DEF ExtensionInv
<1>1. head \in [Owners -> Extension!Versions] /\ releasing \subseteq Owners
  BY DEF ExtensionTypes, DirTypes, StageTypes, RemoteTypes, ArgumentTypes, CheckTypes
<1>2. PICK p \in Owners :
        \/ head[p] < MaxVersion /\ head' = [head EXCEPT ![p] = @ + 1] /\ UNCHANGED releasing
        \/ releasing' = releasing \cup {p} /\ UNCHANGED head
  BY DEF Extension!Publish
<1>3. head' \in [Owners -> Extension!Versions] /\ releasing' \subseteq Owners
  BY <1>1, <1>2 DEF Extension!Versions
<1>4. \A o \in Owners : head[o] <= head'[o] /\ (o \in releasing => o \in releasing')
  BY <1>1, <1>2 DEF Extension!Versions
<1> QED
  BY <1>1, <1>3, <1>4 DEF Extension!Latest, Extension!Versions

LEMMA PublishKeeps ==
  ASSUME ExtensionInv, Extension!Publish
  PROVE  ExtensionInv'
<1> USE ExtensionAssumption DEF ExtensionInv
<1>1. UNCHANGED <<Extension!checker, dir, op, who, pinTo, version, force, protected, count, pc, outcome>>
  BY DEF Extension!Publish, Extension!Idle, Extension!command
<1>2. ExtensionTypes'
  BY <1>1, LatestGrows DEF ExtensionTypes, DirTypes, StageTypes, RemoteTypes, ArgumentTypes, CheckTypes, Extension!checker
<1>3. \A o \in Owners : Extension!Latest(o) \in 0 .. MaxVersion /\ Extension!Latest(o)' \in 0 .. MaxVersion
  BY <1>2 DEF ExtensionTypes, DirTypes, StageTypes, RemoteTypes, ArgumentTypes, CheckTypes, Extension!Latest, Extension!Versions
<1>4. ShapeInv' /\ ProtectInv' /\ CheckInv' /\ Extension!SuccessMeansInstalled'
  BY <1>1, SuccessSame DEF ShapeInv, ProtectInv, CheckInv, Extension!UpdateStateIsOwn, Extension!Owner, Extension!IsBinary,
              Extension!Listed, Extension!IsPinned, Extension!checker
<1>5. ManifestInv'
  BY <1>1, <1>3, LatestGrows DEF ManifestInv, ExtensionTypes, DirTypes, StageTypes, RemoteTypes, ArgumentTypes, CheckTypes, Extension!Dirs, Extension!Manifests, Extension!Clones
<1>6. Building /\ who \in Owners => Building'
  BY <1>1, <1>3, LatestGrows DEF Building, ExtensionTypes, DirTypes, StageTypes, RemoteTypes, ArgumentTypes, CheckTypes, Extension!Dirs, Extension!Manifests, Extension!Clones
<1>7. StageInv'
  BY <1>1, <1>3, <1>6, LatestGrows DEF StageInv, Writing, ExtensionTypes, DirTypes, StageTypes, RemoteTypes, ArgumentTypes, CheckTypes, Extension!Versions
<1> QED
  BY <1>2, <1>4, <1>5, <1>7

LEMMA ExtensionStutters ==
  ASSUME ExtensionInv, UNCHANGED Extension!vars
  PROVE  ExtensionInv'
<1> USE ExtensionAssumption DEF ExtensionInv
<1>1. UNCHANGED <<Extension!remote, dir, head, releasing, stateOf, checking, late, stale, op, who, pinTo, version, force, protected, count, pc, outcome>>
  BY DEF Extension!vars, Extension!remote, Extension!checker, Extension!command
<1>2. ExtensionTypes' /\ ProtectInv' /\ CheckInv' /\ Extension!SuccessMeansInstalled' /\ ShapeInv' /\ ManifestInv'
  BY <1>1, DirSame, SuccessSame DEF ExtensionTypes, DirTypes, StageTypes, RemoteTypes, ArgumentTypes, CheckTypes, ProtectInv, CheckInv, Extension!UpdateStateIsOwn
<1>3. StageInv'
  BY <1>1 DEF StageInv, Building, Extension!Latest
<1> QED
  BY <1>2, <1>3

LEMMA ExtensionInit == Extension!Init => ExtensionInv
<1> SUFFICES ASSUME Extension!Init PROVE ExtensionInv
  OBVIOUS
<1> USE ExtensionAssumption DEF Extension!Init
<1>1. /\ Extension!NoManifest \in Extension!Manifests
      /\ Extension!NoClone \in Extension!Clones
  BY DEF Extension!NoManifest, Extension!NoClone, Extension!Manifests, Extension!Clones
<1>2. /\ dir \in Extension!Dirs /\ (dir.local => ~dir.made)
      /\ dir.clone # Extension!NoClone => dir.binary = 0 /\ dir.manifest = Extension!NoManifest
      /\ ShapeInv /\ ManifestInv
  <2>1. ASSUME dir \in {Extension!Nothing, [Extension!Nothing EXCEPT !.local = TRUE]}
        PROVE  /\ dir \in Extension!Dirs /\ (dir.local => ~dir.made)
               /\ dir.clone # Extension!NoClone => dir.binary = 0 /\ dir.manifest = Extension!NoManifest
               /\ ShapeInv /\ ManifestInv
    <3>1. PICK l \in BOOLEAN : dir = [made |-> FALSE, local |-> l, binary |-> 0,
                                     manifest |-> Extension!NoManifest, clone |-> Extension!NoClone]
      BY <2>1 DEF Extension!Nothing
    <3>2. dir \in Extension!Dirs
      BY <1>1, <3>1 DEF Extension!Dirs, Extension!Manifests, Extension!Clones, Extension!Broken
    <3>3. ShapeInv
      BY <2>1, <3>1 DEF ShapeInv, Extension!Nothing
    <3>4. ManifestInv
      BY <3>1 DEF ManifestInv, Extension!NoManifest
    <3> QED
      BY <3>1, <3>2, <3>3, <3>4
  <2>2. ASSUME NEW o \in releasing, NEW p \in BOOLEAN, dir = Extension!BinaryOf(o, 1, p)
        PROVE  /\ dir \in Extension!Dirs /\ (dir.local => ~dir.made)
               /\ dir.clone # Extension!NoClone => dir.binary = 0 /\ dir.manifest = Extension!NoManifest
               /\ ShapeInv /\ ManifestInv
    <3>1. dir = [made |-> TRUE, local |-> FALSE, binary |-> 1, clone |-> Extension!NoClone,
                 manifest |-> [owner |-> o, tag |-> 1, pinned |-> p]]
      BY <2>2 DEF Extension!BinaryOf, Extension!Nothing
    <3>2. Extension!Latest(o) = 1 /\ o \in Owners
      BY <2>2 DEF Extension!Latest
    <3>21. [owner |-> o, tag |-> 1, pinned |-> p] \in
             Extension!Manifests
      BY <3>2 DEF Extension!Manifests
    <3>22. PICK m : m = [owner |-> o, tag |-> 1, pinned |-> p]
      OBVIOUS
    <3>3. dir \in Extension!Dirs
      BY <1>1, <3>1, <3>21, <3>22 DEF Extension!Dirs, Extension!Manifests, Extension!Clones, Extension!Broken
    <3>4. ShapeInv
      BY <3>1 DEF ShapeInv
    <3>5. ManifestInv
      BY <1>1, <2>2, <3>1, <3>2 DEF ManifestInv, Extension!NoManifest
    <3> QED
      BY <1>1, <2>2, <3>1, <3>2, <3>3, <3>4, <3>5
  <2>3. ASSUME NEW o \in Owners, NEW p \in BOOLEAN, dir = Extension!CloneOf(o, 1, p)
        PROVE  /\ dir \in Extension!Dirs /\ (dir.local => ~dir.made)
               /\ dir.clone # Extension!NoClone => dir.binary = 0 /\ dir.manifest = Extension!NoManifest
               /\ ShapeInv /\ ManifestInv
    <3>1. PICK q \in 0 .. MaxVersion : q = IF p THEN 1 ELSE 0
      OBVIOUS
    <3>2. dir = [made |-> TRUE, local |-> FALSE, binary |-> 0, manifest |-> Extension!NoManifest,
                 clone |-> [owner |-> o, commit |-> 1, tracked |-> 1, detached |-> p, pin |-> q]]
      BY <2>3, <3>1 DEF Extension!CloneOf, Extension!Nothing
    <3>21. [owner |-> o, commit |-> 1, tracked |-> 1, detached |-> p, pin |-> q] \in
             Extension!Clones
      BY <2>3 DEF Extension!Clones
    <3>22. PICK c : c = [owner |-> o, commit |-> 1, tracked |-> 1, detached |-> p, pin |-> q]
      OBVIOUS
    <3>3. dir \in Extension!Dirs
      BY <1>1, <3>2, <3>21, <3>22 DEF Extension!Dirs, Extension!Manifests, Extension!Clones, Extension!Broken
    <3>4. ShapeInv
      BY <1>1, <2>3, <3>2 DEF ShapeInv, Extension!NoClone, Extension!NoManifest
    <3>5. ManifestInv
      BY <1>1, <2>3, <3>2 DEF ManifestInv, Extension!NoManifest
    <3> QED
      BY <1>1, <2>3, <3>2, <3>3, <3>4, <3>5
  <2> QED
    BY <2>1, <2>2, <2>3
<1>3. ShapeInv /\ ManifestInv
  BY <1>2
<1>4. ExtensionTypes
  <2>1. Extension!Owner \in Owners \cup {"none", "torn"}
    BY <1>2 DEF Extension!Owner, Extension!Dirs, Extension!Manifests, Extension!Clones
  <2>2. head \in [Owners -> Extension!Versions] /\ releasing \subseteq Owners /\ stateOf \in Owners \cup {"none", "torn"}
    BY <2>1 DEF Extension!Versions
  <2>3. /\ checking = "none" /\ late = FALSE /\ stale = FALSE /\ op = "none" /\ who = "none"
        /\ pinTo = 0 /\ version = 0 /\ force = FALSE /\ pc = "done" /\ outcome = "none"
        /\ protected = FALSE /\ count = 0
    OBVIOUS
  <2>4. {stateOf, checking} \subseteq Owners \cup {"none", "torn"} /\ {late, stale, force, protected} \subseteq BOOLEAN
    BY <2>2, <2>3
  <2>5. pinTo \in 0 .. MaxVersion /\ version \in 0 .. MaxVersion /\ count \in 0 .. MaxCommands
    BY <2>3
  <2> HIDE DEF Extension!Init
  <2> QED
    BY <1>2, <2>2, <2>3, <2>4, <2>5 DEF ExtensionTypes, DirTypes, StageTypes, RemoteTypes, ArgumentTypes, CheckTypes, ExtensionStages
<1>5. StageInv /\ ProtectInv /\ CheckInv /\ Extension!SuccessMeansInstalled
  BY DEF StageInv, ProtectInv, CheckInv, Extension!SuccessMeansInstalled, Extension!UpdateStateIsOwn, Writing, Cleaned
<1> QED
  BY <1>3, <1>4, <1>5 DEF ExtensionInv

LEMMA ExtensionNext == ExtensionInv /\ [Extension!Next]_(Extension!vars) => ExtensionInv'
<1> SUFFICES ASSUME ExtensionInv, [Extension!Next]_(Extension!vars) PROVE ExtensionInv'
  OBVIOUS
<1>1. CASE Extension!Begin
  BY <1>1, ExtensionBeginKeeps
<1>2. CASE Extension!Command
  BY <1>2, CheckValidKeeps, LinkKeeps, RepositoryKeeps, ReleaseKeeps, PrepareKeeps, OpenBinaryKeeps,
     CopyBinaryKeeps, OpenManifestKeeps, WriteManifestKeeps, CommitKeeps, CloneKeeps,
     CheckoutCommitKeeps, PinKeeps, UpgradeKeeps, PullCloneKeeps, ResetCloneKeeps, RemoveKeeps,
     RemoveRestKeeps, FailsKeeps DEF Extension!Command, Extension!InstallBinary
<1>3. CASE Extension!Killed
  BY <1>3, ExtensionKilledKeeps
<1>4. CASE Extension!CheckBegins \/ Extension!CheckEnds
  BY <1>4, IdleKeeps
<1>5. CASE Extension!Publish
  BY <1>5, PublishKeeps
<1>6. CASE UNCHANGED Extension!vars
  BY <1>6, ExtensionStutters
<1> QED
  BY <1>1, <1>2, <1>3, <1>4, <1>5, <1>6 DEF Extension!Next, Extension!Stop

LEMMA ExtensionProperties ==
  ExtensionInv => Extension!TypeOK /\ Extension!SuccessMeansInstalled /\ Extension!UpdateStateIsOwn
BY DEF ExtensionInv, CheckInv, Extension!TypeOK, ExtensionTypes, DirTypes, StageTypes, RemoteTypes, ArgumentTypes, CheckTypes

LEMMA ExtensionKeepsExisting == ExtensionInv /\ [Extension!Next]_(Extension!vars) => Extension!KeepsExisting
<1> SUFFICES ASSUME ExtensionInv, [Extension!Next]_(Extension!vars), protected, count' = count PROVE dir' = dir
  BY DEF Extension!KeepsExisting
<1> USE ExtensionAssumption DEF ExtensionInv, ProtectInv
<1>1. CASE Extension!Begin
  BY <1>1 DEF Extension!Begin, ExtensionTypes, DirTypes, StageTypes, RemoteTypes, ArgumentTypes, CheckTypes
<1>2. CASE Extension!Command
  BY <1>2 DEF Extension!Command, Extension!InstallBinary, Extension!CheckValid, Extension!Link, Extension!Repository, Extension!Release, Extension!Prepare, Extension!OpenBinary,
     Extension!CopyBinary, Extension!OpenManifest, Extension!WriteManifest, Extension!Commit, Extension!Clone, Extension!CheckoutCommit, Extension!Pin, Extension!Upgrade, Extension!PullClone,
     Extension!ResetClone, Extension!Remove, Extension!RemoveRest, Extension!Fails, Extension!Reads
<1>3. CASE Extension!Killed
  BY <1>3 DEF Extension!Killed
<1> QED
  BY <1>1, <1>2, <1>3 DEF Extension!Next, Extension!Stop, Extension!CheckBegins, Extension!CheckEnds, Extension!Publish, Extension!Idle, Extension!vars

=============================================================================
