--------------------------- MODULE CommandsProofs ---------------------------
(*****************************************************************************)
(* The commands on what GitHub keeps, in the same form as the others; then the *)
(* theorems about whichever command it is.                                   *)
(*****************************************************************************)
EXTENDS MachineCommandsProofs

-----------------------------------------------------------------------------
(* gh label clone. *)

LEMMA LabelAssumption == IsFiniteSet(Labels) /\ Workers \in Nat \ {0}
BY CommandsAssumption DEF CommandsAssumption

Counted == {l \in Labels : dest[l] = "ours" /\ progress[l] = "done"}

AtWork == idle + gone + Cardinality(Label!Busy)

LabelTypes ==
  /\ force \in BOOLEAN
  /\ dest \in [Labels -> {"absent", "theirs", "ours"}]
  /\ phase \in {"list", "feed", "wait", "ok", "error"}
  /\ progress \in [Labels -> {"listed", "creating", "editing", "done", "failed"}]
  /\ idle \in Nat /\ gone \in Nat /\ cancelled \in BOOLEAN

\* Every step but ListLabels, which starts the workers, keeps their number.
WorkersInv ==
  /\ AtWork \in {0, Workers}
  /\ phase = "list" => AtWork = 0
  /\ phase \in {"feed", "wait", "ok"} => AtWork = Workers

\* What is true of each label.
ClonedInv ==
  \A l \in Labels :
    /\ dest[l] = "ours" => progress[l] \in {"done", "failed"}
    /\ progress[l] = "done" => dest[l] # "absent" /\ (force => dest[l] = "ours")
    /\ progress[l] = "editing" => force
    /\ progress[l] = "failed" => cancelled
    /\ phase \in {"wait", "ok"} => progress[l] # "listed"

LabelEnd == phase = "ok" => gone = Workers /\ ~cancelled

LabelInv ==
  LabelTypes /\ WorkersInv /\ ClonedInv /\ LabelEnd /\ count = Cardinality(Counted)

LEMMA LabelsFinite ==
  ASSUME NEW S \in SUBSET Labels
  PROVE  IsFiniteSet(S) /\ Cardinality(S) \in Nat /\ Cardinality(S) <= Cardinality(Labels)
BY LabelAssumption, FS_Subset, FS_CardinalityType

LEMMA LabelAdded ==
  ASSUME NEW S \in SUBSET Labels, NEW l \in Labels, l \notin S
  PROVE  Cardinality(S \cup {l}) = Cardinality(S) + 1
BY LabelsFinite, FS_AddElement

LEMMA LabelRemoved ==
  ASSUME NEW S \in SUBSET Labels, NEW l \in S
  PROVE  Cardinality(S \ {l}) = Cardinality(S) - 1
BY LabelsFinite, FS_RemoveElement

\* The instance has its own Cardinality, which is the same.
LEMMA LabelCardinality == \A S : Label!Cardinality(S) = Cardinality(S)
BY Zenon DEF Label!Cardinality, Cardinality

LEMMA LabelInit == Label!Init => LabelInv
<1> SUFFICES ASSUME Label!Init PROVE LabelInv OBVIOUS
<1>1. Label!Busy = {} /\ Counted = {} BY DEF Label!Init, Label!Busy, Counted
<1>2. Cardinality({}) = 0 BY FS_EmptySet
<1>3. LabelTypes BY DEF LabelTypes, Label!Init
<1>4. WorkersInv BY <1>1, <1>2, LabelAssumption DEF WorkersInv, AtWork, Label!Init
<1>5. ClonedInv BY DEF ClonedInv, Label!Init
<1>6. LabelEnd BY DEF LabelEnd, Label!Init
<1>7. count = Cardinality(Counted) BY <1>1, <1>2 DEF Label!Init
<1> QED BY <1>3, <1>4, <1>5, <1>6, <1>7 DEF LabelInv

\* The command and a worker that leaves.
LEMMA LabelCommandKeeps ==
  ASSUME LabelInv, Label!ListLabels \/ Label!CloseQueue \/ Label!Return \/ Label!Leave
  PROVE  LabelInv'
<1> USE DEF LabelInv
<1>1. UNCHANGED <<force, dest, progress, cancelled, count>>
  BY DEF Label!ListLabels, Label!CloseQueue, Label!Return, Label!Leave
<1>2. Label!Busy' = Label!Busy /\ Counted' = Counted BY <1>1 DEF Label!Busy, Counted
<1>3. /\ Cardinality(Label!Busy) \in Nat /\ idle \in Nat /\ gone \in Nat /\ Workers \in Nat
      /\ Workers # 0
  BY LabelsFinite, LabelAssumption DEF Label!Busy, LabelTypes
<1>4. CASE Label!ListLabels
  <2>1. AtWork = 0 /\ gone' = gone /\ phase' \in {"feed", "error"}
        /\ (phase' = "feed" => idle' = Workers) /\ (phase' = "error" => idle' = idle)
    BY <1>4 DEF Label!ListLabels, WorkersInv
  <2>2. idle = 0 /\ gone = 0 /\ Cardinality(Label!Busy) = 0 BY <1>3, <2>1 DEF AtWork
  <2>3. WorkersInv' BY <1>2, <1>3, <2>1, <2>2 DEF WorkersInv, AtWork
  <2> QED BY <1>1, <1>2, <1>3, <2>1, <2>3 DEF LabelTypes, ClonedInv, LabelEnd
<1>5. CASE Label!CloseQueue \/ Label!Return
  <2>1. UNCHANGED <<idle, gone>> BY <1>5 DEF Label!CloseQueue, Label!Return
  <2>2. AtWork' = AtWork BY <1>2, <2>1 DEF AtWork
  <2>3. phase \in {"feed", "wait"} /\ phase' \in {"wait", "ok", "error"}
        /\ (phase' = "ok" => gone = Workers /\ ~cancelled)
        /\ (phase = "wait" \/ \A l \in Labels : progress[l] # "listed")
    BY <1>5 DEF Label!CloseQueue, Label!Return
  <2>4. WorkersInv' BY <2>2, <2>3 DEF WorkersInv
  <2> QED BY <1>1, <1>2, <2>1, <2>3, <2>4 DEF LabelTypes, ClonedInv, LabelEnd
<1>6. CASE Label!Leave
  <2>1. idle > 0 /\ idle' = idle - 1 /\ gone' = gone + 1 /\ phase' = phase
    BY <1>6 DEF Label!Leave
  <2>2. AtWork' = AtWork /\ idle' \in Nat /\ gone' \in Nat
    BY <1>2, <1>3, <2>1 DEF AtWork
  <2>3. phase # "ok" BY <1>3, <2>1 DEF LabelEnd, WorkersInv, AtWork
  <2>4. WorkersInv' BY <2>1, <2>2 DEF WorkersInv
  <2> QED BY <1>1, <1>2, <2>1, <2>2, <2>3, <2>4 DEF LabelTypes, ClonedInv, LabelEnd
<1> QED BY <1>4, <1>5, <1>6

\* A label is handed over, or its worker is done with it: one worker waits
\* less or more, and one label less or more is at work.
LEMMA WorkersKept ==
  ASSUME LabelInv, NEW l \in Labels, UNCHANGED phase,
         \/ idle > 0 /\ idle' = idle - 1 /\ gone' = gone /\ l \notin Label!Busy /\ Label!Busy' = Label!Busy \cup {l}
         \/ idle' = idle + 1 /\ gone' = gone /\ l \in Label!Busy /\ Label!Busy' = Label!Busy \ {l}
         \/ gone' = gone + 1 /\ idle' = idle /\ l \in Label!Busy /\ Label!Busy' = Label!Busy \ {l}
         \/ gone' = gone /\ idle' = idle /\ Label!Busy' = Label!Busy
  PROVE  /\ idle' \in Nat /\ gone' \in Nat /\ WorkersInv'
         /\ phase = "ok" => UNCHANGED <<idle, gone, Label!Busy>>
<1>1. /\ Cardinality(Label!Busy) \in Nat /\ idle \in Nat /\ gone \in Nat /\ Workers \in Nat
      /\ Label!Busy \subseteq Labels
      /\ l \in Label!Busy => Cardinality(Label!Busy) > 0 /\ Cardinality(Label!Busy \ {l}) = Cardinality(Label!Busy) - 1
      /\ l \notin Label!Busy => Cardinality(Label!Busy \cup {l}) = Cardinality(Label!Busy) + 1
  <2>1. Label!Busy \subseteq Labels BY DEF Label!Busy
  <2>2. l \in Label!Busy => Cardinality(Label!Busy \ {l}) = Cardinality(Label!Busy) - 1 /\ Cardinality(Label!Busy \ {l}) \in Nat
    BY <2>1, LabelRemoved, LabelsFinite
  <2> QED BY <2>1, <2>2, LabelAdded, LabelsFinite, LabelAssumption DEF LabelInv, LabelTypes
<1>2. AtWork' = AtWork /\ idle' \in Nat /\ gone' \in Nat
  <2>1. CASE idle > 0 /\ idle' = idle - 1 /\ gone' = gone /\ l \notin Label!Busy /\ Label!Busy' = Label!Busy \cup {l}
    BY <1>1, <2>1 DEF AtWork
  <2>2. CASE idle' = idle + 1 /\ gone' = gone /\ l \in Label!Busy /\ Label!Busy' = Label!Busy \ {l}
    BY <1>1, <2>2 DEF AtWork
  <2>3. CASE gone' = gone + 1 /\ idle' = idle /\ l \in Label!Busy /\ Label!Busy' = Label!Busy \ {l}
    BY <1>1, <2>3 DEF AtWork
  <2>4. CASE gone' = gone /\ idle' = idle /\ Label!Busy' = Label!Busy BY <1>1, <2>4 DEF AtWork
  <2> QED BY <2>1, <2>2, <2>3, <2>4
<1>3. WorkersInv' BY <1>2 DEF WorkersInv, LabelInv
<1>4. phase = "ok" => idle = 0 /\ Cardinality(Label!Busy) = 0
  BY <1>1 DEF LabelInv, LabelEnd, WorkersInv, AtWork
<1> QED BY <1>1, <1>2, <1>3, <1>4

LEMMA LabelFeedKeeps ==
  ASSUME LabelInv, NEW l \in Labels, Label!Feed(l)
  PROVE  LabelInv'
<1> USE DEF LabelInv
<1>1. /\ phase = "feed" /\ progress[l] = "listed" /\ idle > 0 /\ idle' = idle - 1
      /\ progress' = [progress EXCEPT ![l] = "creating"]
      /\ UNCHANGED <<force, dest, phase, gone, cancelled, count>>
  BY DEF Label!Feed
<1>2. /\ progress' \in [Labels -> {"listed", "creating", "editing", "done", "failed"}]
      /\ progress'[l] = "creating" /\ \A m \in Labels \ {l} : progress'[m] = progress[m]
  BY <1>1 DEF LabelTypes
<1>3. Label!Busy' = Label!Busy \cup {l} /\ l \notin Label!Busy BY <1>1, <1>2 DEF Label!Busy
<1>4. Counted' = Counted BY <1>1, <1>2 DEF Counted
<1>5. idle' \in Nat /\ gone' \in Nat /\ WorkersInv' BY <1>1, <1>3, WorkersKept
<1>6. LabelTypes' BY <1>1, <1>2, <1>5 DEF LabelTypes
<1>7. ClonedInv' BY <1>1, <1>2 DEF ClonedInv
<1> QED BY <1>1, <1>4, <1>5, <1>6, <1>7 DEF LabelEnd

\* The label is now the destination's own, and counted once.
LEMMA ClonedKeeps ==
  ASSUME LabelInv, NEW l \in Labels, NEW from \in {"creating", "editing"}, Label!Cloned(l, from)
  PROVE  LabelInv'
<1> USE DEF LabelInv
<1>1. /\ progress[l] = from /\ progress' = [progress EXCEPT ![l] = "done"]
      /\ dest' = [dest EXCEPT ![l] = "ours"] /\ count' = count + 1 /\ idle' = idle + 1
      /\ UNCHANGED <<force, phase, gone, cancelled>>
  BY DEF Label!Cloned, Label!SelectAgain
<1>2. /\ progress' \in [Labels -> {"listed", "creating", "editing", "done", "failed"}]
      /\ progress'[l] = "done" /\ \A m \in Labels \ {l} : progress'[m] = progress[m]
      /\ dest' \in [Labels -> {"absent", "theirs", "ours"}]
      /\ dest'[l] = "ours" /\ \A m \in Labels \ {l} : dest'[m] = dest[m]
  BY <1>1 DEF LabelTypes
<1>3. Label!Busy' = Label!Busy \ {l} /\ l \in Label!Busy BY <1>1, <1>2 DEF Label!Busy
<1>4. Counted' = Counted \cup {l} /\ l \notin Counted /\ Counted \subseteq Labels
  BY <1>1, <1>2 DEF Counted
<1>5. Cardinality(Counted') = Cardinality(Counted) + 1 BY <1>4, LabelAdded
<1>6. idle' \in Nat /\ gone' \in Nat /\ WorkersInv' BY <1>1, <1>3, WorkersKept
<1>7. LabelTypes' BY <1>1, <1>2, <1>6 DEF LabelTypes
<1>8. ClonedInv' BY <1>1, <1>2 DEF ClonedInv
<1> QED BY <1>1, <1>5, <1>6, <1>7, <1>8 DEF LabelEnd

LEMMA AlreadyExistsKeeps ==
  ASSUME LabelInv, NEW l \in Labels, Label!AlreadyExists(l)
  PROVE  LabelInv'
<1> USE DEF LabelInv
<1> DEFINE new == IF force THEN "editing" ELSE "done"
<1>1. /\ progress[l] = "creating" /\ dest[l] # "absent"
      /\ progress' = [progress EXCEPT ![l] = new]
      /\ idle' = IF force THEN idle ELSE idle + 1
      /\ UNCHANGED <<force, dest, phase, gone, cancelled, count>>
  BY DEF Label!AlreadyExists, Label!SelectAgain
<1>2. /\ progress' \in [Labels -> {"listed", "creating", "editing", "done", "failed"}]
      /\ progress'[l] = new /\ \A m \in Labels \ {l} : progress'[m] = progress[m]
  BY <1>1 DEF LabelTypes
<1>3. l \in Label!Busy /\ Label!Busy' = IF force THEN Label!Busy ELSE Label!Busy \ {l} BY <1>1, <1>2 DEF Label!Busy
<1>4. Counted' = Counted BY <1>1, <1>2 DEF Counted, ClonedInv
<1>5. idle' \in Nat /\ gone' \in Nat /\ WorkersInv' BY <1>1, <1>3, WorkersKept
<1>6. LabelTypes' BY <1>1, <1>2, <1>5 DEF LabelTypes
<1>7. ClonedInv' BY <1>1, <1>2 DEF ClonedInv
<1> QED BY <1>1, <1>4, <1>5, <1>6, <1>7 DEF LabelEnd

LEMMA WorkerFailsKeeps ==
  ASSUME LabelInv, NEW l \in Labels, Label!WorkerFails(l)
  PROVE  LabelInv'
<1> USE DEF LabelInv
<1>1. /\ l \in Label!Busy /\ progress' = [progress EXCEPT ![l] = "failed"]
      /\ gone' = gone + 1 /\ cancelled' = TRUE
      /\ UNCHANGED <<force, phase, idle, count>>
      /\ dest' \in {dest, [dest EXCEPT ![l] = "ours"]}
  BY DEF Label!WorkerFails, Label!NotAnswered
<1>2. /\ progress' \in [Labels -> {"listed", "creating", "editing", "done", "failed"}]
      /\ progress'[l] = "failed" /\ \A m \in Labels \ {l} : progress'[m] = progress[m]
      /\ dest' \in [Labels -> {"absent", "theirs", "ours"}]
      /\ \A m \in Labels \ {l} : dest'[m] = dest[m]
  BY <1>1 DEF LabelTypes
<1>3. Label!Busy' = Label!Busy \ {l} BY <1>1, <1>2 DEF Label!Busy
<1>4. Counted' = Counted BY <1>1, <1>2 DEF Counted, Label!Busy
<1>5. idle' \in Nat /\ gone' \in Nat /\ WorkersInv' /\ phase # "ok" BY <1>1, <1>3, WorkersKept
<1>6. LabelTypes' BY <1>1, <1>2, <1>5 DEF LabelTypes
<1>7. ClonedInv' BY <1>1, <1>2 DEF ClonedInv
<1> QED BY <1>1, <1>4, <1>5, <1>6, <1>7 DEF LabelEnd

LEMMA OtherCreatesKeeps ==
  ASSUME LabelInv, NEW l \in Labels, Label!OtherCreates(l)
  PROVE  LabelInv'
<1> USE DEF LabelInv
<1>1. /\ dest[l] = "absent" /\ dest' = [dest EXCEPT ![l] = "theirs"]
      /\ UNCHANGED <<force, phase, progress, idle, gone, cancelled, count>>
  BY DEF Label!OtherCreates
<1>2. dest' \in [Labels -> {"absent", "theirs", "ours"}]
      /\ dest'[l] = "theirs" /\ \A m \in Labels \ {l} : dest'[m] = dest[m]
  BY <1>1 DEF LabelTypes
<1>3. Label!Busy' = Label!Busy /\ Counted' = Counted BY <1>1, <1>2 DEF Label!Busy, Counted
<1>4. WorkersInv' BY <1>1, <1>3 DEF WorkersInv, AtWork
<1>5. ClonedInv' BY <1>1, <1>2 DEF ClonedInv
<1> QED BY <1>1, <1>2, <1>3, <1>4, <1>5 DEF LabelTypes, LabelEnd

LEMMA LabelNext == LabelInv /\ [Label!Next]_(Label!vars) => LabelInv'
<1> SUFFICES ASSUME LabelInv, [Label!Next]_(Label!vars) PROVE LabelInv' OBVIOUS
<1>1. CASE Label!ListLabels \/ Label!CloseQueue \/ Label!Leave \/ Label!Return BY <1>1, LabelCommandKeeps
<1>2. CASE \E l \in Labels : Label!Feed(l) \/ Label!Work(l)
  BY <1>2, LabelFeedKeeps, ClonedKeeps, AlreadyExistsKeeps, WorkerFailsKeeps
  DEF Label!Work, Label!Created, Label!Edited
<1>3. CASE \E l \in Labels : Label!OtherCreates(l) BY <1>3, OtherCreatesKeeps
<1>4. CASE UNCHANGED Label!vars
  BY <1>4 DEF Label!vars, LabelInv, LabelTypes, WorkersInv, AtWork, ClonedInv, LabelEnd, Label!Busy, Counted
<1> QED BY <1>1, <1>2, <1>3, <1>4 DEF Label!Next, Label!Command

LEMMA LabelProperties == LabelInv => Label!TypeOK /\ Label!SuccessMeansCloned
<1> SUFFICES ASSUME LabelInv PROVE Label!TypeOK /\ Label!SuccessMeansCloned OBVIOUS
<1> USE DEF LabelInv
<1>1. /\ Cardinality(Label!Busy) \in Nat /\ idle \in Nat /\ gone \in Nat /\ Workers \in Nat
      /\ IsFiniteSet(Label!Busy)
  BY LabelsFinite, LabelAssumption DEF Label!Busy, LabelTypes
<1>2. Label!TypeOK
  <2>1. idle \in 0 .. Workers /\ gone \in 0 .. Workers BY <1>1 DEF WorkersInv, AtWork
  <2>2. count \in 0 .. Cardinality(Labels)
    <3>1. Cardinality(Labels) \in Nat BY LabelsFinite
    <3>2. Cardinality(Counted) \in Nat /\ Cardinality(Counted) <= Cardinality(Labels)
      BY LabelsFinite DEF Counted
    <3> QED BY <3>1, <3>2
  <2> QED BY <2>1, <2>2, LabelCardinality DEF Label!TypeOK, LabelTypes, WorkersInv, AtWork
<1>3. ASSUME phase = "ok"
      PROVE  /\ \A l \in Labels : dest[l] # "absent" /\ (force => dest[l] = "ours")
             /\ count = Cardinality({l \in Labels : dest[l] = "ours"})
  <2>1. gone = Workers /\ ~cancelled /\ idle + gone + Cardinality(Label!Busy) = Workers
    BY <1>3 DEF LabelEnd, WorkersInv, AtWork
  <2>2. Cardinality(Label!Busy) = 0 BY <1>1, <2>1
  <2>3. Label!Busy = {} BY <1>1, <2>2, FS_EmptySet
  <2>4. \A l \in Labels : progress[l] = "done"
    BY <1>3, <2>1, <2>3 DEF ClonedInv, Label!Busy, LabelTypes
  <2>5. Counted = {l \in Labels : dest[l] = "ours"} BY <2>4 DEF Counted
  <2> QED BY <2>4, <2>5 DEF ClonedInv
<1> QED BY <1>2, <1>3, LabelCardinality DEF Label!SuccessMeansCloned

\* Only a worker that may edit changes a label of somebody else's.
LEMMA LabelKeepsExisting == LabelInv /\ [Label!Next]_(Label!vars) => Label!KeepsExisting
<1> SUFFICES ASSUME LabelInv, [Label!Next]_(Label!vars), ~force, NEW l \in Labels, dest[l] = "theirs"
             PROVE  dest'[l] = "theirs"
  BY DEF Label!KeepsExisting
<1> USE DEF LabelInv
<1>1. CASE UNCHANGED dest BY <1>1
<1>2. ASSUME NEW m \in Labels, Label!Created(m) \/ Label!Edited(m) \/ Label!OtherCreates(m) \/ Label!WorkerFails(m)
      PROVE  dest'[l] = "theirs"
  <2>1. dest' = dest \/ dest[m] = "absent" \/ progress[m] = "editing"
    BY <1>2 DEF Label!Created, Label!Edited, Label!Cloned, Label!SelectAgain, Label!OtherCreates, Label!WorkerFails, Label!NotAnswered
  <2>2. dest' = dest \/ \E v \in {"ours", "theirs"} : dest' = [dest EXCEPT ![m] = v]
    BY <1>2 DEF Label!Created, Label!Edited, Label!Cloned, Label!OtherCreates, Label!WorkerFails, Label!NotAnswered
  <2> QED BY <2>1, <2>2 DEF ClonedInv, LabelTypes
<1> QED BY <1>1, <1>2
    DEF Label!Next, Label!Command, Label!Work, Label!ListLabels, Label!CloseQueue, Label!Leave, Label!Return, Label!Feed, Label!AlreadyExists,
        Label!SelectAgain, Label!vars

-----------------------------------------------------------------------------
(* gh status. *)

LEMMA StatusAssumption ==
  /\ Workers \in Nat \ {0} /\ MaxNotes \in Nat /\ MaxPages \in Nat \ {0}
  /\ Answers \subseteq {"mention", "other", "forbidden", "not_found", "failed"}
BY CommandsAssumption DEF CommandsAssumption

Mentioned == Status!With("mention")

\* What a worker has sent is in the collector's hand or in its list, once.
MentionsInv ==
  /\ Status!Range(mentions) \cup inHand = Mentioned
  /\ Status!Range(mentions) \cap inHand = {}
  /\ Len(mentions) + Cardinality(inHand) = Cardinality(Mentioned)
  /\ \A i, j \in DOMAIN mentions : i # j => mentions[i] # mentions[j]

\* What has been handed over is looked up by a worker or has an answer, and the
\* command knows of the workers before it goes on.
HandedInv ==
  /\ \A n \in Status!Notes : progress[n] = "new" <=> n > fed
  /\ phase \in {"page", "feed"} => pages < MaxPages
  /\ phase \in {"wait", "drain", "ok"} => fed = listed
  /\ phase \in {"drain", "ok"} => gone = Workers

\* An error is remembered.
AbortInv ==
  /\ (\E n \in Status!Notes : progress[n] = "failed") => aborted
  /\ phase = "ok" => ~aborted

ReturnInv ==
  phase = "ok" =>
    /\ inHand = {}
    /\ \A i, j \in DOMAIN mentions : i < j => mentions[i] <= mentions[j]

StatusInv == Status!TypeOK /\ MentionsInv /\ HandedInv /\ AbortInv /\ ReturnInv

LEMMA NotesFinite ==
  ASSUME NEW S \in SUBSET Status!Notes
  PROVE  IsFiniteSet(S) /\ Cardinality(S) \in Nat /\ Cardinality(S) <= MaxNotes
<1>1. IsFiniteSet(Status!Notes) /\ Cardinality(Status!Notes) = MaxNotes
  BY StatusAssumption, FS_Interval DEF Status!Notes
<1> QED BY <1>1, FS_Subset, FS_CardinalityType

LEMMA NoteAdded ==
  ASSUME NEW S \in SUBSET Status!Notes, NEW n \in Status!Notes, n \notin S
  PROVE  Cardinality(S \cup {n}) = Cardinality(S) + 1
BY NotesFinite, FS_AddElement

LEMMA NoteRemoved ==
  ASSUME NEW S \in SUBSET Status!Notes, NEW n \in S
  PROVE  Cardinality(S \ {n}) = Cardinality(S) - 1
BY NotesFinite, FS_RemoveElement

LEMMA OneInHand == ASSUME NEW n \in Status!Notes PROVE Cardinality({n}) = 1 /\ Cardinality({}) = 0
BY FS_Singleton, FS_EmptySet

\* The instance has its own Cardinality, which is the same.
LEMMA StatusCardinality == \A S : Status!Cardinality(S) = Cardinality(S)
BY Zenon DEF Status!Cardinality, Cardinality

LEMMA StatusInit == Status!Init => StatusInv
<1> SUFFICES ASSUME Status!Init PROVE StatusInv OBVIOUS
<1>1. Status!Busy = {} /\ Mentioned = {} BY DEF Status!Init, Status!Busy, Mentioned, Status!With
<1>2. Cardinality({}) = 0 BY FS_EmptySet
<1>3. Status!TypeOK
  <2>1. Cardinality(inHand) <= 1 /\ inHand \subseteq Status!Notes BY <1>2 DEF Status!Init
  <2>2. mentions \in Seq(Status!Notes) /\ Len(mentions) = 0 BY DEF Status!Init
  <2>3. idle + gone + Cardinality(Status!Busy) = Workers BY <1>1, <1>2, StatusAssumption DEF Status!Init
  <2>4. progress \in [Status!Notes -> Answers \cup {"new", "look_up", "send", "mention"}] BY DEF Status!Init
  <2>5. pages \in 0 .. MaxPages /\ listed \in 0 .. MaxNotes /\ fed \in 0 .. listed
        /\ idle \in 0 .. Workers /\ gone \in 0 .. Workers /\ Len(mentions) <= MaxNotes
    BY <2>2, StatusAssumption DEF Status!Init
  <2> QED BY <2>1, <2>2, <2>3, <2>4, <2>5, StatusCardinality DEF Status!TypeOK, Status!Init
<1>4. MentionsInv BY <1>1, <1>2 DEF MentionsInv, Status!Init, Status!Range
<1>5. HandedInv BY StatusAssumption DEF HandedInv, Status!Init, Status!Notes
<1>6. AbortInv /\ ReturnInv BY DEF AbortInv, ReturnInv, Status!Init
<1> QED BY <1>3, <1>4, <1>5, <1>6 DEF StatusInv

\* The command's own steps that hand nothing over.
LEMMA CommandGoesOn ==
  ASSUME StatusInv, Status!NextPage \/ Status!PageFails \/ Status!PageDone \/ Status!WorkersReturned
  PROVE  StatusInv'
<1> USE DEF StatusInv
<1>1. UNCHANGED <<fed, progress, idle, gone, inHand, mentions>> /\ phase' # "ok" /\ phase # "ok"
  BY DEF Status!NextPage, Status!PageFails, Status!PageDone, Status!WorkersReturned, Status!queue, Status!collector
<1>2. Status!Busy' = Status!Busy /\ Mentioned' = Mentioned BY <1>1 DEF Status!Busy, Mentioned, Status!With
<1>3. /\ pages' \in 0 .. MaxPages /\ listed' \in 0 .. MaxNotes /\ listed' >= fed
      /\ aborted' \in BOOLEAN /\ (aborted => aborted')
      /\ phase' \in {"page", "feed", "last", "wait", "drain", "error"}
      /\ phase' \in {"page", "feed"} => pages' < MaxPages
      /\ phase' \in {"wait", "drain"} => fed = listed'
      /\ phase' = "drain" => gone = Workers
  <2> USE StatusAssumption DEF Status!TypeOK, HandedInv, Status!queue
  <2>1. CASE Status!NextPage BY <2>1 DEF Status!NextPage
  <2>2. CASE Status!PageFails BY <2>2 DEF Status!PageFails
  <2>3. CASE Status!PageDone BY <2>3 DEF Status!PageDone
  <2>4. CASE Status!WorkersReturned BY <2>4 DEF Status!WorkersReturned
  <2> QED BY <2>1, <2>2, <2>3, <2>4
<1>4. Status!TypeOK' BY <1>1, <1>2, <1>3 DEF Status!TypeOK
<1>5. MentionsInv' BY <1>1, <1>2 DEF MentionsInv
<1>6. HandedInv' BY <1>1, <1>3 DEF HandedInv
<1>7. AbortInv' /\ ReturnInv' BY <1>1, <1>3 DEF AbortInv, ReturnInv
<1> QED BY <1>4, <1>5, <1>6, <1>7

LEMMA FeedKeeps == ASSUME StatusInv, Status!Feed PROVE StatusInv'
<1> USE DEF StatusInv, Status!Feed
<1>1. fed + 1 \in Status!Notes /\ progress[fed + 1] = "new" /\ fed \in Nat
  BY StatusAssumption DEF Status!TypeOK, HandedInv, Status!Notes
<1>2. /\ progress' \in [Status!Notes -> Answers \cup {"new", "look_up", "send", "mention"}]
      /\ progress'[fed + 1] = "look_up"
      /\ \A n \in Status!Notes \ {fed + 1} : progress'[n] = progress[n]
  BY <1>1 DEF Status!TypeOK
<1>3. Status!Busy' = Status!Busy \cup {fed + 1} /\ fed + 1 \notin Status!Busy BY <1>1, <1>2 DEF Status!Busy
<1>4. Cardinality(Status!Busy') = Cardinality(Status!Busy) + 1 /\ Cardinality(Status!Busy) \in Nat
  BY <1>1, <1>3, NoteAdded, NotesFinite DEF Status!Busy
<1>5. Mentioned' = Mentioned BY <1>1, <1>2 DEF Mentioned, Status!With
<1>6. Status!TypeOK'
  <2>1. idle \in Nat /\ gone \in Nat /\ idle + gone + Cardinality(Status!Busy) = Workers
        /\ Workers \in Nat
    BY StatusAssumption, StatusCardinality DEF Status!TypeOK
  <2>2. idle' \in 0 .. Workers /\ idle' + gone' + Cardinality(Status!Busy') = Workers
    BY <1>4, <2>1
  <2>3. fed' \in 0 .. listed' /\ listed' \in 0 .. MaxNotes BY <1>1 DEF Status!TypeOK
  <2> QED BY <1>2, <2>2, <2>3, StatusCardinality DEF Status!TypeOK, Status!queue, Status!collector
<1>7. MentionsInv' BY <1>5 DEF MentionsInv, Status!collector
<1>8. HandedInv' BY <1>1, <1>2 DEF HandedInv, Status!TypeOK, Status!Notes
<1>9. AbortInv' /\ ReturnInv' BY <1>1, <1>2 DEF AbortInv, ReturnInv, Status!collector
<1> QED BY <1>6, <1>7, <1>8, <1>9

\* Sorting loses no mention and adds none.
LEMMA SortedSame ==
  ASSUME NEW s \in Seq(Status!Notes), NEW t \in Status!Sorted(s)
  PROVE  /\ t \in Seq(Status!Notes) /\ Len(t) = Len(s) /\ Status!Range(t) = Status!Range(s) /\ DOMAIN t = DOMAIN s
         /\ \A i, j \in DOMAIN t : i < j => t[i] <= t[j]
         /\ (\A i, j \in DOMAIN s : i # j => s[i] # s[j]) =>
              \A i, j \in DOMAIN t : i # j => t[i] # t[j]
<1>1. PICK p \in Status!Bijection(DOMAIN s, DOMAIN s) : t = [i \in DOMAIN s |-> s[p[i]]]
  BY DEF Status!Sorted
<1>2. /\ p \in [DOMAIN s -> DOMAIN s]
      /\ \A i, j \in DOMAIN s : p[i] = p[j] => i = j
      /\ \A j \in DOMAIN s : \E i \in DOMAIN s : p[i] = j
  BY DEF Status!Bijection, Status!Injection, Status!Surjection, Status!IsInjective
<1>3. DOMAIN s = 1 .. Len(s) /\ Len(s) \in Nat /\ \A i \in DOMAIN s : s[i] \in Status!Notes OBVIOUS
<1>4. DOMAIN t = DOMAIN s /\ \A i \in DOMAIN s : t[i] = s[p[i]] BY <1>1
<1>5. t \in [1 .. Len(s) -> Status!Notes] BY <1>1, <1>2, <1>3
<1>6. t \in Seq(Status!Notes) /\ Len(t) = Len(s) BY <1>3, <1>5
<1>7. Status!Range(t) = Status!Range(s) BY <1>2, <1>4 DEF Status!Range
<1>8. \A i, j \in DOMAIN t : i < j => t[i] <= t[j] BY <1>4 DEF Status!Sorted
<1>9. ASSUME \A i, j \in DOMAIN s : i # j => s[i] # s[j]
      PROVE  \A i, j \in DOMAIN t : i # j => t[i] # t[j]
  BY <1>2, <1>4, <1>9
<1> QED BY <1>4, <1>6, <1>7, <1>8, <1>9

LEMMA ReturnKeeps == ASSUME StatusInv, Status!Return PROVE StatusInv'
<1> USE DEF StatusInv
<1>1. /\ phase = "drain" /\ inHand = {} /\ mentions' \in Status!Sorted(mentions)
      /\ phase' = IF aborted THEN "error" ELSE "ok"
      /\ UNCHANGED <<pages, listed, fed, progress, idle, gone, aborted, inHand>>
  BY DEF Status!Return, Status!queue
<1>2. Status!Busy' = Status!Busy /\ Mentioned' = Mentioned BY <1>1 DEF Status!Busy, Mentioned, Status!With
<1>3. mentions \in Seq(Status!Notes) BY DEF Status!TypeOK
<1>4. Status!TypeOK' BY <1>1, <1>2, <1>3, SortedSame DEF Status!TypeOK
<1>5. MentionsInv' BY <1>1, <1>2, <1>3, SortedSame DEF MentionsInv
<1>6. HandedInv' BY <1>1 DEF HandedInv
<1>7. AbortInv' BY <1>1 DEF AbortInv
<1>8. ReturnInv' BY <1>1, <1>3, SortedSame DEF ReturnInv
<1> QED BY <1>4, <1>5, <1>6, <1>7, <1>8

LEMMA LookedUpKeeps ==
  ASSUME StatusInv, ~Status!Ended, NEW n \in Status!Notes, NEW answer \in Answers, Status!LookedUp(n, answer)
  PROVE  StatusInv'
<1> USE DEF StatusInv
<1> DEFINE new == IF answer = "mention" THEN "send" ELSE answer
<1>1. /\ progress[n] = "look_up" /\ progress' = [progress EXCEPT ![n] = new]
      /\ aborted' = (aborted \/ answer = "failed")
      /\ UNCHANGED <<phase, pages, listed, fed, inHand, mentions>>
  BY DEF Status!LookedUp, Status!queue, Status!collector
<1>2. new \in (Answers \ {"mention"}) \cup {"send"} /\ new \notin {"new", "look_up", "mention"}
  BY StatusAssumption
<1> HIDE DEF new
<1>3. /\ progress' \in [Status!Notes -> Answers \cup {"new", "look_up", "send", "mention"}]
      /\ progress'[n] = new /\ \A m \in Status!Notes \ {n} : progress'[m] = progress[m]
  BY <1>1, <1>2 DEF Status!TypeOK
<1>4. Mentioned' = Mentioned BY <1>1, <1>2, <1>3 DEF Mentioned, Status!With
<1>5. n \in Status!Busy /\ Status!Busy \subseteq Status!Notes BY <1>1 DEF Status!Busy
<1>6. CASE new = "send"
  <2>1. Status!Busy' = Status!Busy BY <1>1, <1>3, <1>6 DEF Status!Busy
  <2>2. answer = "mention" BY <1>6, StatusAssumption DEF new
  <2>3. UNCHANGED <<idle, gone>> BY <2>2 DEF Status!LookedUp
  <2>4. Status!TypeOK' BY <1>1, <1>3, <2>1, <2>3 DEF Status!TypeOK
  <2> QED BY <1>1, <1>2, <1>3, <1>4, <1>6, <2>2, <2>3, <2>4
          DEF MentionsInv, HandedInv, AbortInv, ReturnInv, Status!Ended
<1>7. CASE new # "send"
  <2>1. Status!Busy' = Status!Busy \ {n} BY <1>1, <1>2, <1>3, <1>7 DEF Status!Busy
  <2>2. Cardinality(Status!Busy') = Cardinality(Status!Busy) - 1 /\ Cardinality(Status!Busy) \in Nat
        /\ Cardinality(Status!Busy') \in Nat
    BY <1>5, <2>1, NoteRemoved, NotesFinite
  <2>3. \/ idle' = idle + 1 /\ gone' = gone
        \/ gone' = gone + 1 /\ idle' = idle
    BY <1>7, StatusAssumption DEF Status!LookedUp, new
  <2>4. idle \in Nat /\ gone \in Nat /\ idle + gone + Cardinality(Status!Busy) = Workers
        /\ Workers \in Nat
    BY StatusAssumption, StatusCardinality DEF Status!TypeOK
  <2>5. idle' \in 0 .. Workers /\ gone' \in 0 .. Workers
        /\ idle' + gone' + Cardinality(Status!Busy') = Workers
    BY <2>2, <2>3, <2>4
  <2>6. Status!TypeOK' BY <1>1, <1>3, <2>5, StatusCardinality DEF Status!TypeOK
  <2>7. phase \notin {"drain", "ok"}
    <3>1. gone # Workers BY <2>2, <2>4, <2>5
    <3> QED BY <3>1 DEF HandedInv
  <2>8. MentionsInv' BY <1>1, <1>4 DEF MentionsInv
  <2>9. HandedInv' BY <1>1, <1>2, <1>3, <2>7 DEF HandedInv
  <2>10. AbortInv' /\ ReturnInv'
    BY <1>1, <1>3, <2>7 DEF AbortInv, ReturnInv, new
  <2> QED BY <2>6, <2>8, <2>9, <2>10
<1> QED BY <1>6, <1>7

LEMMA SentKeeps == ASSUME StatusInv, ~Status!Ended, NEW n \in Status!Notes, Status!Sent(n) PROVE StatusInv'
<1> USE DEF StatusInv
<1>1. /\ progress[n] = "send" /\ inHand = {} /\ inHand' = {n}
      /\ progress' = [progress EXCEPT ![n] = "mention"] /\ idle' = idle + 1
      /\ UNCHANGED <<phase, pages, listed, fed, gone, aborted, mentions>>
  BY DEF Status!Sent, Status!queue
<1>2. /\ progress' \in [Status!Notes -> Answers \cup {"new", "look_up", "send", "mention"}]
      /\ progress'[n] = "mention" /\ \A m \in Status!Notes \ {n} : progress'[m] = progress[m]
  BY <1>1 DEF Status!TypeOK
<1>3. Status!Busy' = Status!Busy \ {n} /\ n \in Status!Busy /\ Status!Busy \subseteq Status!Notes BY <1>1, <1>2 DEF Status!Busy
<1>4. Mentioned' = Mentioned \cup {n} /\ n \notin Mentioned /\ Mentioned \subseteq Status!Notes
  BY <1>1, <1>2 DEF Mentioned, Status!With
<1>5. /\ Cardinality(Status!Busy') = Cardinality(Status!Busy) - 1
      /\ Cardinality(Status!Busy) \in Nat /\ Cardinality(Status!Busy') \in Nat
  BY <1>3, NoteRemoved, NotesFinite
<1>6. Cardinality(Mentioned') = Cardinality(Mentioned) + 1
      /\ Cardinality(inHand') = 1 /\ Cardinality(inHand) = 0 /\ inHand' \subseteq Status!Notes
  BY <1>1, <1>4, NoteAdded, OneInHand
<1>7. idle \in Nat /\ gone \in Nat /\ idle + gone + Cardinality(Status!Busy) = Workers /\ Workers \in Nat
  BY StatusAssumption, StatusCardinality DEF Status!TypeOK
<1>8. idle' \in 0 .. Workers /\ idle' + gone + Cardinality(Status!Busy') = Workers BY <1>1, <1>5, <1>7
<1>9. Status!TypeOK' BY <1>1, <1>2, <1>6, <1>8, StatusCardinality DEF Status!TypeOK
<1>10. MentionsInv'
  <2>1. Len(mentions) \in Nat /\ Cardinality(Mentioned) \in Nat
        /\ Len(mentions) = Cardinality(Mentioned)
    BY <1>4, <1>6, NotesFinite DEF MentionsInv, Status!TypeOK
  <2>2. Len(mentions') + Cardinality(inHand') = Cardinality(Mentioned') BY <1>1, <1>6, <2>1
  <2> QED BY <1>1, <1>4, <2>2 DEF MentionsInv
<1>11. HandedInv' BY <1>1, <1>2 DEF HandedInv
<1>12. AbortInv' /\ ReturnInv' BY <1>1, <1>2 DEF AbortInv, ReturnInv, Status!Ended
<1> QED BY <1>9, <1>10, <1>11, <1>12

LEMMA CollectKeeps == ASSUME StatusInv, ~Status!Ended, Status!Collect PROVE StatusInv'
<1> USE DEF StatusInv
<1>1. PICK n \in inHand :
        /\ mentions' = Append(mentions, n) /\ inHand' = {}
        /\ UNCHANGED <<phase, pages, listed, fed, progress, idle, gone, aborted>>
  BY DEF Status!Collect, Status!queue
<1>2. n \in Status!Notes /\ inHand = {n}
  <2>1. IsFiniteSet(inHand) /\ Cardinality(inHand) = 1
    <3>1. IsFiniteSet(inHand) /\ Cardinality(inHand) \in Nat BY NotesFinite DEF Status!TypeOK
    <3>2. Cardinality(inHand) # 0 BY <3>1, FS_EmptySet
    <3> QED BY <3>1, <3>2, StatusCardinality DEF Status!TypeOK
  <2>2. \E x : inHand = {x} BY <2>1, FS_Singleton
  <2> QED BY <2>2 DEF Status!TypeOK
<1>3. Status!Busy' = Status!Busy /\ Mentioned' = Mentioned BY <1>1 DEF Status!Busy, Mentioned, Status!With
<1>4. Cardinality(inHand') = 0 /\ Cardinality(inHand) = 1 BY <1>1, <1>2, OneInHand
<1>5. /\ mentions \in Seq(Status!Notes) /\ Len(mentions) \in Nat
      /\ Len(mentions) + 1 = Cardinality(Mentioned)
  BY <1>4 DEF Status!TypeOK, MentionsInv
<1>6. Cardinality(Mentioned) <= MaxNotes BY NotesFinite DEF Mentioned, Status!With
<1>7. /\ mentions' \in Seq(Status!Notes) /\ Len(mentions') = Len(mentions) + 1
      /\ DOMAIN mentions' = DOMAIN mentions \cup {Len(mentions) + 1}
      /\ \A i \in DOMAIN mentions : mentions'[i] = mentions[i]
      /\ mentions'[Len(mentions) + 1] = n /\ DOMAIN mentions = 1 .. Len(mentions)
  BY <1>1, <1>2, <1>5
<1>8. Status!Range(mentions') = Status!Range(mentions) \cup {n} BY <1>7 DEF Status!Range
<1>9. Status!TypeOK' BY <1>1, <1>3, <1>4, <1>5, <1>6, <1>7, StatusCardinality DEF Status!TypeOK
<1>10. MentionsInv'
  <2>1. \A i \in DOMAIN mentions : mentions[i] # n BY <1>2 DEF MentionsInv, Status!Range
  <2>2. \A i, j \in DOMAIN mentions' : i # j => mentions'[i] # mentions'[j]
    BY <1>7, <2>1 DEF MentionsInv
  <2>3. Status!Range(mentions') \cup inHand' = Mentioned' /\ Status!Range(mentions') \cap inHand' = {}
    BY <1>1, <1>2, <1>3, <1>8 DEF MentionsInv
  <2>4. Len(mentions') + Cardinality(inHand') = Cardinality(Mentioned')
    BY <1>3, <1>4, <1>5, <1>7
  <2> QED BY <2>2, <2>3, <2>4 DEF MentionsInv
<1>11. HandedInv' BY <1>1 DEF HandedInv
<1>12. AbortInv' /\ ReturnInv' BY <1>1 DEF AbortInv, ReturnInv, Status!Ended
<1> QED BY <1>9, <1>10, <1>11, <1>12

LEMMA LeaveKeeps == ASSUME StatusInv, ~Status!Ended, Status!Leave PROVE StatusInv'
<1> USE DEF StatusInv
<1>1. /\ idle > 0 /\ idle' = idle - 1 /\ gone' = gone + 1
      /\ UNCHANGED <<phase, pages, listed, fed, progress, aborted, inHand, mentions>>
  BY DEF Status!Leave, Status!queue, Status!collector
<1>2. Status!Busy' = Status!Busy /\ Mentioned' = Mentioned BY <1>1 DEF Status!Busy, Mentioned, Status!With
<1>3. /\ idle \in Nat /\ gone \in Nat /\ idle + gone + Cardinality(Status!Busy) = Workers
      /\ Workers \in Nat /\ Cardinality(Status!Busy) \in Nat
  BY StatusAssumption, NotesFinite, StatusCardinality DEF Status!TypeOK, Status!Busy
<1>4. /\ idle' \in 0 .. Workers /\ gone' \in 0 .. Workers /\ gone # Workers
      /\ idle' + gone' + Cardinality(Status!Busy') = Workers
  BY <1>1, <1>2, <1>3
<1>5. Status!TypeOK' BY <1>1, <1>4, StatusCardinality DEF Status!TypeOK
<1>6. MentionsInv' BY <1>1, <1>2 DEF MentionsInv
<1>7. HandedInv' BY <1>1, <1>4 DEF HandedInv
<1>8. AbortInv' /\ ReturnInv' BY <1>1 DEF AbortInv, ReturnInv, Status!Ended
<1> QED BY <1>5, <1>6, <1>7, <1>8

LEMMA StatusNext == StatusInv /\ [Status!Next]_(Status!vars) => StatusInv'
<1> SUFFICES ASSUME StatusInv, [Status!Next]_(Status!vars) PROVE StatusInv' OBVIOUS
<1>1. CASE ~Status!Ended /\ Status!Command
  BY <1>1, CommandGoesOn, FeedKeeps, ReturnKeeps DEF Status!Command
<1>2. CASE ~Status!Ended /\ (Status!Leave \/ Status!Collect) BY <1>2, LeaveKeeps, CollectKeeps
<1>3. CASE ~Status!Ended /\ \E n \in Status!Notes : Status!Look(n)
  BY <1>3, LookedUpKeeps, SentKeeps DEF Status!Look
<1>4. CASE UNCHANGED Status!vars
  <2>1. Status!Busy' = Status!Busy /\ Mentioned' = Mentioned BY <1>4 DEF Status!vars, Status!Busy, Mentioned, Status!With
  <2>2. Status!TypeOK' BY <1>4, <2>1 DEF Status!vars, StatusInv, Status!TypeOK
  <2>3. MentionsInv' BY <1>4, <2>1 DEF Status!vars, StatusInv, MentionsInv
  <2>4. HandedInv' /\ AbortInv' /\ ReturnInv'
    BY <1>4 DEF Status!vars, StatusInv, HandedInv, AbortInv, ReturnInv
  <2> QED BY <2>2, <2>3, <2>4 DEF StatusInv
<1> QED BY <1>1, <1>2, <1>3, <1>4 DEF Status!Next

LEMMA StatusProperties == StatusInv => Status!TypeOK /\ Status!MentionsComplete
<1> SUFFICES ASSUME StatusInv, phase = "ok" PROVE Status!MentionsComplete BY DEF StatusInv, Status!MentionsComplete
<1> USE DEF StatusInv
<1>1. Status!Busy = {}
  <2>1. idle \in Nat /\ Workers \in Nat /\ idle + Workers + Cardinality(Status!Busy) = Workers
    BY StatusAssumption, StatusCardinality DEF Status!TypeOK, HandedInv
  <2>2. IsFiniteSet(Status!Busy) /\ Cardinality(Status!Busy) \in Nat BY NotesFinite DEF Status!Busy
  <2>3. Cardinality(Status!Busy) = 0 BY <2>1, <2>2
  <2> QED BY <2>2, <2>3, FS_EmptySet
<1>2. \A n \in 1 .. listed : progress[n] \notin {"new", "look_up", "send", "failed"}
  <2> SUFFICES ASSUME NEW n \in 1 .. listed
               PROVE progress[n] \notin {"new", "look_up", "send", "failed"} OBVIOUS
  <2>1. n \in Status!Notes /\ n <= fed BY StatusAssumption DEF Status!TypeOK, HandedInv, Status!Notes
  <2>2. fed \in Nat BY DEF Status!TypeOK
  <2> QED BY <1>1, <2>1, <2>2 DEF Status!Busy, HandedInv, AbortInv
<1>3. Status!Range(mentions) = Status!With("mention") BY DEF ReturnInv, MentionsInv, Mentioned
<1>4. \A i, j \in 1 .. Len(mentions) : i < j => mentions[i] < mentions[j]
  <2> SUFFICES ASSUME NEW i \in 1 .. Len(mentions), NEW j \in 1 .. Len(mentions), i < j
               PROVE mentions[i] < mentions[j] OBVIOUS
  <2>1. mentions \in Seq(Status!Notes) BY DEF Status!TypeOK
  <2>2. mentions[i] \in Nat /\ mentions[j] \in Nat /\ i \in DOMAIN mentions /\ j \in DOMAIN mentions
        /\ i # j
    BY <2>1, StatusAssumption DEF Status!Notes
  <2>3. mentions[i] <= mentions[j] BY <2>2 DEF ReturnInv
  <2>4. mentions[i] # mentions[j] BY <2>2 DEF MentionsInv
  <2> QED BY <2>2, <2>3, <2>4
<1> QED BY <1>2, <1>3, <1>4 DEF Status!MentionsComplete

-----------------------------------------------------------------------------
(* gh release download. *)

LEMMA DownloadAssumption ==
  IsFiniteSet(Assets) /\ Workers \in Nat \ {0} /\ Runs \in Nat
BY CommandsAssumption DEF CommandsAssumption

\* Without --clobber a file that was there is not opened: it has been seen by
\* the last check, and files do not disappear.
OpenedInv ==
  \A a \in Assets :
    /\ a \in before => file[a] # "none"
    /\ mode # "clobber" /\ job[a] \in {"open", "copy"} => a \notin before

\* A result is true as long as nothing else is done with the asset.
ResultInv ==
  \A a \in Assets :
    /\ job[a] \notin {"idle", "done"} => a \in given
    /\ result[a] = "ok" => file[a] = "whole"
    /\ result[a] = "skipped" => mode = "skip" /\ file[a] # "none"

AllOk == phase = "ok" => \A a \in given : result[a] \notin {"none", "error"}

DownloadInv == Download!TypeOK /\ OpenedInv /\ ResultInv /\ AllOk

LEMMA AssetsFinite ==
  ASSUME NEW S \in SUBSET Assets
  PROVE  IsFiniteSet(S) /\ Cardinality(S) \in Nat
BY DownloadAssumption, FS_Subset, FS_CardinalityType

\* The instance has its own Cardinality, which is the same.
LEMMA DownloadCardinality == \A S : Download!Cardinality(S) = Cardinality(S)
BY Zenon DEF Download!Cardinality, Cardinality

LEMMA DownloadInit == Download!Init => DownloadInv
<1> SUFFICES ASSUME Download!Init PROVE DownloadInv OBVIOUS
<1>1. Download!Running = {} BY DEF Download!Init, Download!Running
<1>2. Cardinality(Download!Running) <= Workers BY <1>1, FS_EmptySet, DownloadAssumption
<1>3. Download!TypeOK
  <2>1. /\ file \in [Assets -> {"none", "old", "partial", "whole"}]
        /\ job \in [Assets -> {"idle", "queued", "check", "request", "copy_check", "open",
                               "copy", "done"}]
        /\ result \in [Assets -> {"none", "ok", "skipped", "error"}]
        /\ \A a \in Assets : result[a] = "none"
    BY DEF Download!Init
  <2>2. run \in 0 .. Runs BY DownloadAssumption DEF Download!Init
  <2>3. /\ before \subseteq Assets /\ given \subseteq Assets /\ mode \in Download!Modes
        /\ archive \in BOOLEAN /\ phase \in {"idle", "running", "ok", "error"}
    BY DEF Download!Init, Download!Modes
  <2> QED BY <1>2, <2>1, <2>2, <2>3, DownloadCardinality DEF Download!TypeOK
<1>4. OpenedInv /\ ResultInv /\ AllOk BY DEF OpenedInv, ResultInv, AllOk, Download!Init
<1> QED BY <1>3, <1>4 DEF DownloadInv

LEMMA DownloadBeginKeeps == ASSUME DownloadInv, Download!Begin PROVE DownloadInv'
<1>1. /\ run < Runs /\ run' = run + 1 /\ before' = {a \in Assets : Download!Exists(a)}
      /\ mode' \in Download!Modes /\ given' \in SUBSET Assets \ {{}} /\ archive' \in BOOLEAN
      /\ job' = [a \in Assets |-> IF a \in given' THEN "queued" ELSE "idle"]
      /\ result' = [a \in Assets |-> "none"]
      /\ phase' = "running" /\ UNCHANGED file
  BY DEF Download!Begin
<1>2. Download!Running' = {} BY <1>1 DEF Download!Running
<1>3. Cardinality(Download!Running') <= Workers BY <1>2, FS_EmptySet, DownloadAssumption
<1>4. /\ job' \in [Assets -> {"idle", "queued", "check", "request", "copy_check", "open",
                              "copy", "done"}]
      /\ result' \in [Assets -> {"none", "ok", "skipped", "error"}]
      /\ \A a \in Assets : result'[a] = "none" /\ job'[a] = IF a \in given' THEN "queued" ELSE "idle"
  BY <1>1
<1>5. run' \in 0 .. Runs BY <1>1, DownloadAssumption DEF DownloadInv, Download!TypeOK
<1>6. before' \subseteq Assets /\ \A a \in before' : file[a] # "none" BY <1>1 DEF Download!Exists
<1>7. Download!TypeOK' BY <1>1, <1>3, <1>4, <1>5, <1>6, DownloadCardinality DEF DownloadInv, Download!TypeOK
<1>8. OpenedInv' BY <1>1, <1>4, <1>6 DEF OpenedInv
<1>9. ResultInv' /\ AllOk' BY <1>1, <1>4 DEF ResultInv, AllOk
<1> QED BY <1>7, <1>8, <1>9 DEF DownloadInv

\* A step of one asset's worker, by what it does to the asset.
LEMMA WorkersKeep ==
  ASSUME DownloadInv, NEW a \in Assets, UNCHANGED Download!command,
         NEW j \in {"check", "request", "copy_check", "open", "copy", "done"},
         NEW r \in {"none", "ok", "skipped", "error"},
         NEW f \in {"none", "old", "partial", "whole"},
         job[a] \notin {"idle", "done"},
         job' = [job EXCEPT ![a] = j], result' = [result EXCEPT ![a] = r],
         file' = [file EXCEPT ![a] = f],
         f # file[a] => job[a] \in {"open", "copy"} /\ f # "none",
         j \in {"open", "copy"} => mode = "clobber" \/ file[a] = "none" \/ job[a] \in {"open", "copy"},
         r # "none" => j = "done",
         r = "ok" => f = "whole", r = "skipped" => mode = "skip" /\ f # "none",
         job[a] = "queued" => Cardinality(Download!Running) < Workers
  PROVE  DownloadInv'
<1> USE DEF DownloadInv
<1>1. /\ job' \in [Assets -> {"idle", "queued", "check", "request", "copy_check", "open",
                              "copy", "done"}]
      /\ job'[a] = j /\ \A b \in Assets \ {a} : job'[b] = job[b]
      /\ result' \in [Assets -> {"none", "ok", "skipped", "error"}]
      /\ result'[a] = r /\ \A b \in Assets \ {a} : result'[b] = result[b]
      /\ file' \in [Assets -> {"none", "old", "partial", "whole"}]
      /\ file'[a] = f /\ \A b \in Assets \ {a} : file'[b] = file[b]
  BY DEF Download!TypeOK
<1>2. UNCHANGED <<before, run, mode, archive, given, phase>> BY DEF Download!command
<1>3. a \in given BY DEF ResultInv
<1>4. result[a] = "none" BY DEF Download!TypeOK
<1>5. Cardinality(Download!Running') <= Workers
  <2>1. Download!Running' = Download!Running \cup {a} \/ Download!Running' = Download!Running \ {a}
    <3>1. CASE j = "done" BY <1>1, <1>2, <1>3, <3>1 DEF Download!Running, Download!TypeOK
    <3>2. CASE j # "done" BY <1>1, <1>2, <1>3, <3>2 DEF Download!Running, Download!TypeOK
    <3> QED BY <3>1, <3>2
  <2>2. Download!Running \subseteq Assets BY DEF Download!Running, Download!TypeOK
  <2>3. IsFiniteSet(Download!Running) /\ Cardinality(Download!Running) \in Nat /\ Workers \in Nat
        /\ Cardinality(Download!Running) <= Workers
    BY <2>2, AssetsFinite, DownloadAssumption, DownloadCardinality DEF Download!TypeOK
  <2>4. CASE Download!Running' = Download!Running \ {a}
    <3>1. Cardinality(Download!Running') = IF a \in Download!Running THEN Cardinality(Download!Running) - 1
                                  ELSE Cardinality(Download!Running)
      BY <2>3, <2>4, FS_RemoveElement
    <3> QED BY <2>3, <3>1
  <2>5. CASE Download!Running' = Download!Running \cup {a}
    <3>1. CASE a \in Download!Running BY <2>3, <2>5, <3>1, FS_AddElement
    <3>2. CASE a \notin Download!Running
      <4>1. job[a] = "queued" BY <1>3, <3>2 DEF Download!Running
      <4>2. Cardinality(Download!Running') = Cardinality(Download!Running) + 1
        BY <2>3, <2>5, <3>2, FS_AddElement
      <4> QED BY <2>3, <4>1, <4>2
    <3> QED BY <3>1, <3>2
  <2> QED BY <2>1, <2>4, <2>5
<1>6. Download!TypeOK' BY <1>1, <1>2, <1>5, DownloadCardinality DEF Download!TypeOK
<1>7. OpenedInv' BY <1>1, <1>2 DEF OpenedInv
<1>8. ResultInv' BY <1>1, <1>2, <1>3 DEF ResultInv
<1>9. AllOk' BY <1>1, <1>2, <1>3, <1>4 DEF AllOk
<1> QED BY <1>6, <1>7, <1>8, <1>9

LEMMA CheckKeeps ==
  ASSUME DownloadInv, NEW a \in Assets,
         NEW from \in {"check", "copy_check"},
         NEW to \in {"request", "open"}, Download!Check(a, from, to)
  PROVE  DownloadInv'
<1>1. /\ job[a] = from /\ UNCHANGED file /\ UNCHANGED Download!command
      /\ file \in [Assets -> {"none", "old", "partial", "whole"}]
      /\ result \in [Assets -> {"none", "ok", "skipped", "error"}] /\ result[a] = "none"
  BY DEF Download!Check, Download!Step, Download!Send, DownloadInv, Download!TypeOK
<1>2. file' = [file EXCEPT ![a] = file[a]] BY <1>1
<1>3. CASE (file[a] = "none" \/ mode = "clobber") /\ Download!Step(a, from, to)
  <2>1. job' = [job EXCEPT ![a] = to] /\ result' = [result EXCEPT ![a] = "none"]
    BY <1>1, <1>3 DEF Download!Step
  <2> QED BY <1>1, <1>2, <1>3, <2>1, WorkersKeep
<1>4. CASE file[a] # "none" /\ mode = "plain" /\ Download!Send(a, "error")
  BY <1>1, <1>2, <1>4, WorkersKeep DEF Download!Send
<1>5. CASE file[a] # "none" /\ mode = "skip" /\ Download!Send(a, "skipped")
  BY <1>1, <1>2, <1>5, WorkersKeep DEF Download!Send
<1> QED BY <1>3, <1>4, <1>5 DEF Download!Check, Download!Exists

LEMMA TakeKeeps == ASSUME DownloadInv, NEW a \in Assets, Download!Take(a) PROVE DownloadInv'
<1>1. /\ job[a] = "queued" /\ UNCHANGED <<file, result>> /\ UNCHANGED Download!command
      /\ Cardinality(Download!Running) < Workers
      /\ file \in [Assets -> {"none", "old", "partial", "whole"}]
      /\ result \in [Assets -> {"none", "ok", "skipped", "error"}] /\ result[a] = "none"
      /\ \E j \in {"request", "check"} : job' = [job EXCEPT ![a] = j]
  BY DownloadCardinality DEF Download!Take, Download!Step, DownloadInv, Download!TypeOK
<1>2. file' = [file EXCEPT ![a] = file[a]] /\ result' = [result EXCEPT ![a] = "none"] BY <1>1
<1> QED BY <1>1, <1>2, WorkersKeep

LEMMA OtherWorkKeeps ==
  ASSUME DownloadInv, NEW a \in Assets, Download!Request(a) \/ Download!Open(a) \/ Download!Copy(a)
  PROVE  DownloadInv'
<1>1. /\ job[a] \in {"request", "open", "copy"} /\ UNCHANGED Download!command
      /\ file \in [Assets -> {"none", "old", "partial", "whole"}]
      /\ result \in [Assets -> {"none", "ok", "skipped", "error"}] /\ result[a] = "none"
  BY DEF Download!Request, Download!Open, Download!Copy, Download!Step, Download!Send, DownloadInv, Download!TypeOK
<1>2. CASE \/ Download!Step(a, "request", "copy_check") /\ UNCHANGED file
           \/ Download!Send(a, "error") /\ UNCHANGED file
  <2>1. file' = [file EXCEPT ![a] = file[a]] BY <1>1, <1>2
  <2>2. CASE Download!Step(a, "request", "copy_check")
    <3>1. job' = [job EXCEPT ![a] = "copy_check"] /\ result' = [result EXCEPT ![a] = "none"]
      BY <1>1, <2>2 DEF Download!Step
    <3> QED BY <1>1, <2>1, <3>1, WorkersKeep
  <2>3. CASE Download!Send(a, "error") BY <1>1, <2>1, <2>3, WorkersKeep DEF Download!Send
  <2> QED BY <1>2, <2>2, <2>3
<1>3. CASE job[a] = "open" /\ Download!Step(a, "open", "copy") /\ file' = [file EXCEPT ![a] = "partial"]
  <2>1. job' = [job EXCEPT ![a] = "copy"] /\ result' = [result EXCEPT ![a] = "none"]
    BY <1>1, <1>3 DEF Download!Step
  <2> QED BY <1>1, <1>3, <2>1, WorkersKeep
<1>4. CASE job[a] = "copy" /\ Download!Send(a, "ok") /\ file' = [file EXCEPT ![a] = "whole"]
  BY <1>1, <1>4, WorkersKeep DEF Download!Send
<1> QED BY <1>2, <1>3, <1>4 DEF Download!Request, Download!Open, Download!Copy

LEMMA OtherWritesKeeps == ASSUME DownloadInv, NEW a \in Assets, Download!OtherWrites(a) PROVE DownloadInv'
<1> USE DEF DownloadInv
<1>1. /\ file[a] = "none" /\ file' = [file EXCEPT ![a] = "old"]
      /\ UNCHANGED <<job, result, before, run, mode, archive, given, phase>>
  BY DEF Download!OtherWrites, Download!Exists, Download!command
<1>2. /\ file' \in [Assets -> {"none", "old", "partial", "whole"}]
      /\ file'[a] = "old" /\ \A b \in Assets \ {a} : file'[b] = file[b]
  BY <1>1 DEF Download!TypeOK
<1>3. Download!Running' = Download!Running BY <1>1 DEF Download!Running
<1>4. Download!TypeOK' BY <1>1, <1>2, <1>3 DEF Download!TypeOK
<1>5. OpenedInv' /\ ResultInv' /\ AllOk' BY <1>1, <1>2 DEF OpenedInv, ResultInv, AllOk
<1> QED BY <1>4, <1>5

LEMMA DownloadReturnKeeps == ASSUME DownloadInv, Download!Return PROVE DownloadInv'
<1> USE DEF DownloadInv
<1>1. /\ phase' = IF \E a \in given : result[a] = "error" THEN "error" ELSE "ok"
      /\ \A a \in given : result[a] # "none"
      /\ UNCHANGED <<file, before, run, mode, archive, given, job, result>>
  BY DEF Download!Return
<1>2. Download!Running' = Download!Running BY <1>1 DEF Download!Running
<1>3. Download!TypeOK' BY <1>1, <1>2 DEF Download!TypeOK
<1>4. OpenedInv' /\ ResultInv' /\ AllOk' BY <1>1 DEF OpenedInv, ResultInv, AllOk
<1> QED BY <1>3, <1>4

LEMMA DownloadNext == DownloadInv /\ [Download!Next]_(Download!vars) => DownloadInv'
<1> SUFFICES ASSUME DownloadInv, [Download!Next]_(Download!vars) PROVE DownloadInv' OBVIOUS
<1>1. CASE Download!Begin BY <1>1, DownloadBeginKeeps
<1>2. CASE Download!Return BY <1>2, DownloadReturnKeeps
<1>3. CASE \E a \in Assets : Download!Take(a) \/ Download!Work(a)
  BY <1>3, TakeKeeps, CheckKeeps, OtherWorkKeeps DEF Download!Work
<1>4. CASE \E a \in Assets : Download!OtherWrites(a) BY <1>4, OtherWritesKeeps
<1>5. CASE UNCHANGED Download!vars
  <2>1. Download!Running' = Download!Running BY <1>5 DEF Download!Running, Download!vars
  <2>2. Download!TypeOK' BY <1>5, <2>1 DEF Download!vars, DownloadInv, Download!TypeOK
  <2> QED BY <1>5, <2>2 DEF Download!vars, DownloadInv, OpenedInv, ResultInv, AllOk
<1> QED BY <1>1, <1>2, <1>3, <1>4, <1>5 DEF Download!Next, Download!Command, Download!Ended

LEMMA DownloadProperties == DownloadInv => Download!TypeOK /\ Download!SuccessMeansDownloaded
BY DEF DownloadInv, Download!SuccessMeansDownloaded, Download!TypeOK, ResultInv, AllOk, Download!Exists

LEMMA DownloadKeepsExisting == DownloadInv /\ [Download!Next]_(Download!vars) => Download!KeepsExisting
<1> SUFFICES ASSUME DownloadInv, [Download!Next]_(Download!vars), phase = "running", mode # "clobber",
                    NEW b \in before
             PROVE  file'[b] = file[b]
  BY DEF Download!KeepsExisting
<1> USE DEF DownloadInv
<1>1. b \in Assets /\ file[b] # "none" BY DEF Download!TypeOK, OpenedInv
<1>2. CASE UNCHANGED file BY <1>2
<1>3. ASSUME NEW a \in Assets, Download!Take(a) \/ Download!Work(a) \/ Download!OtherWrites(a) PROVE file'[b] = file[b]
  <2>1. \/ UNCHANGED file
        \/ /\ job[a] \in {"open", "copy"} \/ file[a] = "none"
           /\ \E f \in {"partial", "whole", "old"} : file' = [file EXCEPT ![a] = f]
    BY <1>3 DEF Download!Take, Download!Work, Download!OtherWrites, Download!Check, Download!Request, Download!Open, Download!Copy, Download!Exists
  <2>2. a # b \/ UNCHANGED file BY <1>1, <2>1 DEF OpenedInv
  <2> QED BY <1>1, <2>1, <2>2 DEF Download!TypeOK
<1> QED BY <1>2, <1>3 DEF Download!Next, Download!Command, Download!Begin, Download!Return, Download!Ended, Download!vars

-----------------------------------------------------------------------------
(* gh pr reply-comment. *)

LEMMA ReplyAssumption ==
  MaxReviews \in Nat /\ PageSize \in Nat \ {0} /\ MaxRetries \in Nat
BY CommandsAssumption DEF CommandsAssumption

\* The flag was given, and gh has come to submitting.
Submitting ==
  autoSubmit /\ pc \in {"submit", "reply_again", "ok", "not_submitted",
                        "not_replied_after_submitting"}

AutoReviews == {r \in Reply!Reviews : state[r] = "auto"} \cup lateSubmits

ReplyCounters == replies \in Nat /\ lateReplies \in Nat /\ unheard \in Nat

ReplyTypes ==
  /\ autoSubmit \in BOOLEAN
  /\ pc \in Reply!Requests \cup Reply!Messages \cup {"ok"}
  /\ state \in [Reply!Reviews -> Reply!ReviewStates]

\* Past the first reply gh only gets with the flag.
FlagInv == pc \in {"login", "list", "submit", "reply_again"} => autoSubmit

RepliesInv ==
  /\ ReplyCounters /\ ReplyTypes
  /\ Reply!RepliesAccountedFor
  /\ FlagInv
  /\ AutoReviews # {} => Submitting

-----------------------------------------------------------------------------
(* Steps, by what they change. *)

\* One that posts no reply, submits nothing, and does not end in success.
LEMMA NothingPosted ==
  ASSUME RepliesInv, UNCHANGED <<state, replies, lateReplies, lateSubmits, unheard, autoSubmit>>,
         pc # "ok", pc' \in (Reply!Requests \cup Reply!Messages),
         pc' \in {"login", "list", "submit", "reply_again"} => autoSubmit,
         Submitting => pc' \in {"submit", "reply_again", "not_submitted",
                                "not_replied_after_submitting"}
  PROVE  RepliesInv'
<1>1. pc' # "ok" BY DEF Reply!Requests, Reply!Messages
<1>2. ReplyCounters' /\ ReplyTypes' BY DEF RepliesInv, ReplyCounters, ReplyTypes
<1>3. Reply!RepliesAccountedFor' BY <1>1 DEF RepliesInv, Reply!RepliesAccountedFor, ReplyCounters
<1>4. FlagInv' BY DEF FlagInv
<1>5. AutoReviews' # {} => Submitting' BY DEF RepliesInv, AutoReviews, Submitting
<1> QED BY <1>2, <1>3, <1>4, <1>5 DEF RepliesInv

\* The message for a request that went wrong.
LEMMA Messaged ==
  ASSUME pc \in Reply!Requests
  PROVE  /\ Reply!ErrorOf(pc) \in Reply!Messages /\ Reply!ErrorOf(pc) # "ok"
         /\ Reply!ErrorOf(pc) \notin {"login", "list", "submit", "reply_again"}
         /\ pc \in {"submit", "reply_again"} =>
              Reply!ErrorOf(pc) \in {"not_submitted", "not_replied_after_submitting"}
<1>1. CASE pc = "reply" BY <1>1 DEF Reply!ErrorOf, Reply!Messages
<1>2. CASE pc = "login" BY <1>2 DEF Reply!ErrorOf, Reply!Messages
<1>3. CASE pc \in {"list", "submit"} BY <1>3 DEF Reply!ErrorOf, Reply!Messages
<1>4. CASE pc = "reply_again" BY <1>4 DEF Reply!ErrorOf, Reply!Messages
<1> QED BY <1>1, <1>2, <1>3, <1>4 DEF Reply!Requests

\* A request without an answer: a reply that may be served is accounted for,
\* and reviews are only being submitted with the flag.
LEMMA UnansweredStep ==
  ASSUME RepliesInv, pc \in Reply!Requests, Reply!Unanswered, UNCHANGED autoSubmit,
         pc' = pc \/ pc' = Reply!ErrorOf(pc)
  PROVE  RepliesInv'
<1>1. /\ pc' \in Reply!Requests \cup Reply!Messages /\ pc' # "ok" /\ pc # "ok"
      /\ pc' \in {"login", "list", "submit", "reply_again"} => pc' = pc
      /\ pc \in {"submit", "reply_again"} =>
           pc' \in {"submit", "reply_again", "not_submitted", "not_replied_after_submitting"}
  BY Messaged DEF Reply!Requests, Reply!Messages
<1>2. FlagInv' BY <1>1 DEF RepliesInv, FlagInv
<1>3. Submitting => Submitting'
  <2> SUFFICES ASSUME Submitting PROVE Submitting' OBVIOUS
  <2>1. pc \in {"submit", "reply_again"} BY DEF Submitting, Reply!Requests
  <2> QED BY <1>1, <2>1 DEF Submitting
<1>4. CASE Reply!Replying
  <2>1. /\ unheard' = unheard + 1 /\ UNCHANGED <<state, lateSubmits>>
        /\ \/ replies' = replies + 1 /\ UNCHANGED lateReplies
           \/ lateReplies' = lateReplies + 1 /\ UNCHANGED replies
           \/ UNCHANGED <<replies, lateReplies>>
    BY <1>4 DEF Reply!Unanswered, Reply!PostReply, Reply!server, Reply!Replying
  <2>2. replies \in Nat /\ lateReplies \in Nat /\ unheard \in Nat
        /\ replies + lateReplies <= unheard
    <3>1. pc # "ok" BY <1>1
    <3> QED BY <3>1 DEF RepliesInv, ReplyCounters, Reply!RepliesAccountedFor
  <2>3. replies' \in Nat /\ lateReplies' \in Nat /\ unheard' \in Nat
        /\ replies' + lateReplies' <= unheard'
    BY <2>1, <2>2
  <2>4. ReplyCounters' BY <2>3 DEF ReplyCounters
  <2>5. Reply!RepliesAccountedFor' BY <1>1, <2>3, <2>4 DEF Reply!RepliesAccountedFor
  <2>7. ReplyTypes' BY <1>1, <2>1 DEF RepliesInv, ReplyTypes
  <2>6. AutoReviews' # {} => Submitting' BY <1>3, <2>1 DEF RepliesInv, AutoReviews
  <2> QED BY <1>2, <2>4, <2>5, <2>6, <2>7 DEF RepliesInv
<1>5. CASE pc = "submit"
  <2>1. UNCHANGED <<replies, lateReplies, unheard>>
    BY <1>5 DEF Reply!Unanswered, Reply!AutoSubmit, Reply!server, Reply!Replying
  <2>2. state' = [state EXCEPT ![Reply!Current] = "auto"] \/ state' = state
    BY <1>5 DEF Reply!Unanswered, Reply!AutoSubmit, Reply!server, Reply!Replying
  <2>3. Submitting' BY <1>1, <1>5 DEF RepliesInv, FlagInv, Submitting
  <2>4. state' \in [Reply!Reviews -> Reply!ReviewStates] BY <2>2 DEF RepliesInv, ReplyTypes, Reply!ReviewStates
  <2>5. ReplyCounters' /\ ReplyTypes' BY <1>1, <2>1, <2>4 DEF RepliesInv, ReplyCounters, ReplyTypes
  <2>6. Reply!RepliesAccountedFor' BY <1>1, <2>1 DEF RepliesInv, Reply!RepliesAccountedFor, ReplyCounters
  <2> QED BY <1>2, <2>3, <2>5, <2>6 DEF RepliesInv
<1>6. CASE pc \in {"login", "list"}
  <2>1. UNCHANGED <<state, replies, lateReplies, lateSubmits, unheard>>
    BY <1>6 DEF Reply!Unanswered, Reply!server, Reply!Replying
  <2>2. ReplyCounters' /\ ReplyTypes' BY <1>1, <2>1 DEF RepliesInv, ReplyCounters, ReplyTypes
  <2>3. Reply!RepliesAccountedFor' BY <1>1, <2>1 DEF RepliesInv, Reply!RepliesAccountedFor, ReplyCounters
  <2>4. AutoReviews' # {} => Submitting' BY <1>3, <2>1 DEF RepliesInv, AutoReviews
  <2> QED BY <1>2, <2>2, <2>3, <2>4 DEF RepliesInv
<1> QED BY <1>4, <1>5, <1>6 DEF Reply!Requests, Reply!Replying

LEMMA RefusedStep == ASSUME RepliesInv, Reply!Refused PROVE RepliesInv'
<1>1. /\ pc \in Reply!Requests /\ pc' = Reply!ErrorOf(pc)
      /\ UNCHANGED <<state, replies, lateReplies, lateSubmits, unheard, autoSubmit>>
  BY DEF Reply!Refused, Reply!server
<1>2. pc # "ok" BY <1>1 DEF Reply!Requests
<1>3. Submitting => pc \in {"submit", "reply_again"} BY <1>1 DEF Submitting, Reply!Requests
<1>4. /\ pc' \in Reply!Messages /\ pc' \notin {"login", "list", "submit", "reply_again"}
      /\ Submitting => pc' \in {"not_submitted", "not_replied_after_submitting"}
  BY <1>1, <1>3, Messaged
<1> QED BY <1>1, <1>2, <1>4, NothingPosted

\* The one reply that is answered.
LEMMA RepliedStep == ASSUME RepliesInv, Reply!Replied PROVE RepliesInv'
<1>1. pc \in {"reply", "reply_again"} /\ pc' = "ok" /\ UNCHANGED <<state, lateSubmits, autoSubmit>>
  BY DEF Reply!Replied, Reply!Replying, Reply!PostReply, Reply!Goto
<1>2. replies' = replies + 1 /\ UNCHANGED <<lateReplies, unheard>>
  BY DEF Reply!Replied, Reply!PostReply, Reply!Goto
<1>3. replies \in Nat /\ lateReplies \in Nat /\ unheard \in Nat BY DEF RepliesInv, ReplyCounters
<1>4. replies + lateReplies <= unheard
  <2>1. pc # "ok" BY <1>1
  <2> QED BY <2>1 DEF RepliesInv, Reply!RepliesAccountedFor
<1>5. ReplyCounters' BY <1>2, <1>3 DEF ReplyCounters
<1>6. replies' + lateReplies' <= unheard' + 1 /\ replies' >= 1 BY <1>2, <1>3, <1>4
<1>7. Reply!RepliesAccountedFor' BY <1>1, <1>5, <1>6 DEF Reply!RepliesAccountedFor
<1>8. ReplyTypes' /\ FlagInv' BY <1>1 DEF RepliesInv, ReplyTypes, FlagInv
<1>9. AutoReviews' # {} => Submitting' BY <1>1 DEF RepliesInv, AutoReviews, Submitting
<1> QED BY <1>5, <1>7, <1>8, <1>9 DEF RepliesInv

LEMMA PendingReviewStep == ASSUME RepliesInv, Reply!PendingReview PROVE RepliesInv'
<1>1. /\ pc \in {"reply", "reply_again"}
      /\ UNCHANGED <<state, replies, lateReplies, lateSubmits, unheard, autoSubmit>>
  BY DEF Reply!PendingReview, Reply!Replying, Reply!Goto, Reply!server
<1>2. autoSubmit \in BOOLEAN BY DEF RepliesInv, ReplyTypes
<1>3. CASE pc = "reply"
  <2>1. CASE autoSubmit
    <3>1. pc' = "login" BY <1>3, <2>1 DEF Reply!PendingReview, Reply!Goto
    <3> QED BY <1>1, <1>3, <2>1, <3>1, NothingPosted DEF Reply!Requests, Submitting
  <2>2. CASE ~autoSubmit
    <3>1. pc' = "pending_review" BY <1>3, <2>2 DEF Reply!PendingReview, Reply!Goto
    <3> QED BY <1>1, <1>3, <2>2, <3>1, NothingPosted DEF Reply!Messages, Submitting
  <2> QED BY <1>2, <2>1, <2>2
<1>4. CASE pc = "reply_again"
  <2>1. pc' = Reply!ErrorOf(pc) BY <1>4 DEF Reply!PendingReview, Reply!Goto
  <2>2. pc' = "not_replied_after_submitting" BY <1>4, <2>1 DEF Reply!ErrorOf
  <2> QED BY <1>1, <1>4, <2>2, NothingPosted DEF Reply!Messages, Submitting
<1> QED BY <1>1, <1>3, <1>4

LEMMA CurrentLoginStep == ASSUME RepliesInv, Reply!CurrentLogin PROVE RepliesInv'
<1>1. /\ pc = "login" /\ pc' = "list"
      /\ UNCHANGED <<state, replies, lateReplies, lateSubmits, unheard, autoSubmit>>
  BY DEF Reply!CurrentLogin, Reply!Goto, Reply!server
<1>2. autoSubmit BY <1>1 DEF RepliesInv, FlagInv
<1> QED BY <1>1, <1>2, NothingPosted DEF Reply!Requests, Submitting

LEMMA ListPageStep == ASSUME RepliesInv, Reply!ListPage PROVE RepliesInv'
<1>1. /\ pc = "list"
      /\ UNCHANGED <<state, replies, lateReplies, lateSubmits, unheard, autoSubmit>>
  BY DEF Reply!ListPage, Reply!Goto, Reply!server
<1>2. pc' \in {"list", "submit", "none_pending"}
  <2>1. CASE ~Reply!OnLastPage BY <2>1 DEF Reply!ListPage, Reply!Goto
  <2>2. CASE Reply!OnLastPage /\ pendingIDs' # <<>> BY <2>2 DEF Reply!ListPage, Reply!Goto
  <2>3. CASE Reply!OnLastPage /\ pendingIDs' = <<>> BY <2>3 DEF Reply!ListPage, Reply!Goto
  <2> QED BY <2>1, <2>2, <2>3
<1>3. autoSubmit BY <1>1 DEF RepliesInv, FlagInv
<1> QED BY <1>1, <1>2, <1>3, NothingPosted DEF Reply!Requests, Reply!Messages, Submitting

LEMMA SubmitReviewStep == ASSUME RepliesInv, Reply!SubmitReview PROVE RepliesInv'
<1>1. /\ pc = "submit" /\ state' = [state EXCEPT ![Reply!Current] = "auto"]
      /\ pc' \in {"submit", "reply_again"}
      /\ UNCHANGED <<replies, lateReplies, lateSubmits, unheard, autoSubmit>>
  BY DEF Reply!SubmitReview, Reply!AutoSubmit, Reply!Submitted, Reply!Goto
<1>2. Submitting' BY <1>1 DEF RepliesInv, FlagInv, Submitting
<1>3. state' \in [Reply!Reviews -> Reply!ReviewStates] BY <1>1 DEF RepliesInv, ReplyTypes, Reply!ReviewStates
<1>4. ReplyTypes' BY <1>1, <1>3 DEF RepliesInv, ReplyTypes, Reply!Requests
<1>5. ReplyCounters' BY <1>1 DEF RepliesInv, ReplyCounters
<1>6. Reply!RepliesAccountedFor' BY <1>1 DEF RepliesInv, Reply!RepliesAccountedFor
<1>7. FlagInv' BY <1>2 DEF FlagInv, Submitting
<1> QED BY <1>2, <1>4, <1>5, <1>6, <1>7 DEF RepliesInv

LEMMA SubmitRefusedStep == ASSUME RepliesInv, Reply!SubmitRefused PROVE RepliesInv'
<1>1. /\ pc = "submit" /\ pc' = Reply!ErrorOf(pc)
      /\ UNCHANGED <<state, replies, lateReplies, lateSubmits, unheard, autoSubmit>>
  BY DEF Reply!SubmitRefused, Reply!Goto, Reply!server
<1>2. pc' = "not_submitted" BY <1>1 DEF Reply!ErrorOf
<1> QED BY <1>1, <1>2, NothingPosted DEF Reply!Messages, Submitting

-----------------------------------------------------------------------------
(* Without gh. *)

LEMMA LateReplyStep == ASSUME RepliesInv, Reply!LateReply PROVE RepliesInv'
<1>1. /\ lateReplies > 0 /\ lateReplies' = lateReplies - 1 /\ replies' = replies + 1
      /\ UNCHANGED <<unheard, pc>>
  BY DEF Reply!LateReply
<1>2. UNCHANGED <<state, lateSubmits, pc, autoSubmit>> BY DEF Reply!LateReply
<1>3. replies \in Nat /\ lateReplies \in Nat /\ unheard \in Nat BY DEF RepliesInv, ReplyCounters
<1>4. /\ replies' \in Nat /\ lateReplies' \in Nat /\ unheard' \in Nat /\ replies' >= 1
      /\ replies' + lateReplies' = replies + lateReplies
  BY <1>1, <1>3
<1>5. ReplyCounters' BY <1>4 DEF ReplyCounters
<1>6. Reply!RepliesAccountedFor' BY <1>1, <1>4 DEF RepliesInv, Reply!RepliesAccountedFor
<1>7. ReplyTypes' /\ FlagInv' BY <1>2 DEF RepliesInv, ReplyTypes, FlagInv
<1>8. AutoReviews' # {} => Submitting' BY <1>2 DEF RepliesInv, AutoReviews, Submitting
<1> QED BY <1>5, <1>6, <1>7, <1>8 DEF RepliesInv

LEMMA LateSubmitStep == ASSUME RepliesInv, Reply!LateSubmit PROVE RepliesInv'
<1>1. PICK r \in lateSubmits : state' = [state EXCEPT ![r] = "auto"] BY DEF Reply!LateSubmit, Reply!AutoSubmit
<1>2. UNCHANGED <<replies, lateReplies, unheard, pc>> BY DEF Reply!LateSubmit, Reply!AutoSubmit
<1>3. UNCHANGED <<autoSubmit, pc>> BY DEF Reply!LateSubmit
<1>4. Submitting' BY <1>3 DEF RepliesInv, AutoReviews, Submitting
<1>5. state' \in [Reply!Reviews -> Reply!ReviewStates] BY <1>1 DEF RepliesInv, ReplyTypes, Reply!ReviewStates
<1>6. ReplyTypes' /\ FlagInv' BY <1>3, <1>5 DEF RepliesInv, ReplyTypes, FlagInv
<1>7. ReplyCounters' /\ Reply!RepliesAccountedFor' BY <1>2 DEF RepliesInv, ReplyCounters, Reply!RepliesAccountedFor
<1> QED BY <1>4, <1>6, <1>7 DEF RepliesInv

LEMMA ElsewhereStep == ASSUME RepliesInv, Reply!ReviewElsewhere PROVE RepliesInv'
<1>1. PICK r \in Reply!Reviews, s \in {"pending", "submitted", "deleted"} :
        state' = [state EXCEPT ![r] = s]
  BY DEF Reply!ReviewElsewhere
<1>2. UNCHANGED <<replies, lateReplies, unheard, pc>> BY DEF Reply!ReviewElsewhere
<1>3. UNCHANGED <<lateSubmits, autoSubmit, pc>> BY DEF Reply!ReviewElsewhere
<1>4. state' \in [Reply!Reviews -> Reply!ReviewStates] BY <1>1 DEF RepliesInv, ReplyTypes, Reply!ReviewStates
<1>5. AutoReviews' \subseteq AutoReviews
  <2>1. ASSUME NEW q \in Reply!Reviews, state'[q] = "auto" PROVE state[q] = "auto"
    BY <1>1, <2>1 DEF RepliesInv, ReplyTypes
  <2> QED BY <1>3, <2>1 DEF AutoReviews
<1>6. AutoReviews' # {} => Submitting' BY <1>3, <1>5 DEF RepliesInv, Submitting
<1>7. ReplyTypes' /\ FlagInv' BY <1>3, <1>4 DEF RepliesInv, ReplyTypes, FlagInv
<1>8. ReplyCounters' /\ Reply!RepliesAccountedFor' BY <1>2 DEF RepliesInv, ReplyCounters, Reply!RepliesAccountedFor
<1> QED BY <1>6, <1>7, <1>8 DEF RepliesInv

-----------------------------------------------------------------------------

LEMMA RepliesInit == Reply!Init => RepliesInv
<1> SUFFICES ASSUME Reply!Init PROVE RepliesInv OBVIOUS
<1>1. replies = 0 /\ lateReplies = 0 /\ unheard = 0 /\ pc = "reply" BY DEF Reply!Init
<1>2. ReplyCounters /\ Reply!RepliesAccountedFor BY <1>1 DEF ReplyCounters, Reply!RepliesAccountedFor
<1>3. state \in [Reply!Reviews -> Reply!ReviewStates] /\ \A r \in Reply!Reviews : state[r] # "auto"
  BY DEF Reply!Init, Reply!ReviewStates
<1>4. ReplyTypes BY <1>3 DEF Reply!Init, ReplyTypes, Reply!Requests
<1>5. FlagInv BY <1>1 DEF FlagInv
<1>6. AutoReviews = {} BY <1>3 DEF Reply!Init, AutoReviews
<1> QED BY <1>2, <1>4, <1>5, <1>6 DEF RepliesInv

LEMMA RepliesNext == RepliesInv /\ [Reply!Next]_(Reply!vars) => RepliesInv'
<1> SUFFICES ASSUME RepliesInv, [Reply!Next]_(Reply!vars) PROVE RepliesInv' OBVIOUS
<1>1. CASE Reply!Retry
  <2>1. pc \in Reply!Requests /\ Reply!Unanswered /\ UNCHANGED <<pc, autoSubmit>> BY <1>1 DEF Reply!Retry
  <2> QED BY <2>1, UnansweredStep
<1>2. CASE Reply!GiveUp
  <2>1. pc \in Reply!Requests /\ Reply!Unanswered /\ UNCHANGED autoSubmit /\ pc' = Reply!ErrorOf(pc)
    BY <1>2 DEF Reply!GiveUp
  <2> QED BY <2>1, UnansweredStep
<1>3. CASE Reply!Refused BY <1>3, RefusedStep
<1>4. CASE Reply!Replied BY <1>4, RepliedStep
<1>5. CASE Reply!PendingReview BY <1>5, PendingReviewStep
<1>6. CASE Reply!CurrentLogin BY <1>6, CurrentLoginStep
<1>7. CASE Reply!ListPage BY <1>7, ListPageStep
<1>8. CASE Reply!SubmitReview BY <1>8, SubmitReviewStep
<1>9. CASE Reply!SubmitRefused BY <1>9, SubmitRefusedStep
<1>10. CASE Reply!LateReply BY <1>10, LateReplyStep
<1>11. CASE Reply!LateSubmit BY <1>11, LateSubmitStep
<1>12. CASE Reply!ReviewElsewhere BY <1>12, ElsewhereStep
<1>13. CASE UNCHANGED Reply!vars
  <2>1. UNCHANGED <<replies, lateReplies, unheard, pc>> BY <1>13 DEF Reply!vars, Reply!server
  <2>2. UNCHANGED <<state, lateSubmits, pc, autoSubmit>> BY <1>13 DEF Reply!vars, Reply!server
  <2>3. ReplyCounters' /\ Reply!RepliesAccountedFor' BY <2>1 DEF RepliesInv, ReplyCounters, Reply!RepliesAccountedFor
  <2>4. ReplyTypes' /\ FlagInv' BY <2>2 DEF RepliesInv, ReplyTypes, FlagInv
  <2>5. AutoReviews' # {} => Submitting' BY <2>2 DEF RepliesInv, AutoReviews, Submitting
  <2> QED BY <2>3, <2>4, <2>5 DEF RepliesInv
<1> QED BY <1>1, <1>2, <1>3, <1>4, <1>5, <1>6, <1>7, <1>8, <1>9, <1>10, <1>11, <1>12,
           <1>13 DEF Reply!Next, Reply!Command, Reply!Stop

-----------------------------------------------------------------------------
(* The listing and the submissions. *)

\* There are no more pages than reviews, but for the last one.
PageInv ==
  /\ page \in 1 .. MaxReviews + 2
  /\ pc \in {"reply", "login", "list"} => page <= MaxReviews + 1 /\ count = 0

\* What has been found is the user's, and what has been counted is submitted.
SubmitInv ==
  /\ mine \subseteq Reply!Reviews /\ lateSubmits \subseteq mine
  /\ attempt \in 0 .. MaxRetries
  /\ pendingIDs \in Seq(mine) /\ count \in 0 .. Len(pendingIDs)
  /\ pc = "submit" => count < Len(pendingIDs)
  /\ Reply!SubmittedBeforeReply
  /\ \A r \in Reply!Reviews : state[r] = "auto" => r \in mine

LEMMA CurrentIsMine ==
  ASSUME SubmitInv, pc = "submit"
  PROVE  Reply!Current \in mine
BY DEF SubmitInv, Reply!Current

LEMMA ReviewsFinite ==
  ASSUME NEW S \in SUBSET Reply!Reviews
  PROVE  IsFiniteSet(S) /\ Cardinality(S) \in Nat /\ Cardinality(S) <= MaxReviews
<1>1. IsFiniteSet(Reply!Reviews) /\ Cardinality(Reply!Reviews) = MaxReviews
  BY ReplyAssumption, FS_Interval DEF Reply!Reviews
<1> QED BY <1>1, FS_Subset, FS_CardinalityType

\* A step that only adds to what is submitted, or is submitted elsewhere.
LEMMA SubmissionsGrow ==
  ASSUME SubmitInv, ReplyTypes, UNCHANGED <<mine, pendingIDs, count>>,
         lateSubmits' \subseteq mine, attempt' \in 0 .. MaxRetries,
         \A r \in Reply!Reviews : state[r] = "auto" => state'[r] = "auto",
         \A r \in Reply!Reviews : state'[r] = "auto" => r \in mine,
         pc' \in {"submit", "reply_again"} => pc' = pc
  PROVE  SubmitInv'
<1>1. \A i \in 1 .. count : pendingIDs[i] \in Reply!Reviews
  BY DEF SubmitInv
<1>2. Reply!SubmittedBeforeReply' BY <1>1 DEF SubmitInv, Reply!SubmittedBeforeReply
<1> QED BY <1>2 DEF SubmitInv

LEMMA AutoSubmitGrows ==
  ASSUME SubmitInv, ReplyTypes, NEW q \in mine, Reply!AutoSubmit(q)
  PROVE  /\ \A r \in Reply!Reviews : state[r] = "auto" => state'[r] = "auto"
         /\ \A r \in Reply!Reviews : state'[r] = "auto" => r \in mine
BY DEF SubmitInv, ReplyTypes, Reply!AutoSubmit

LEMMA SubmitUnanswered ==
  ASSUME SubmitInv, ReplyTypes, Reply!Unanswered, UNCHANGED <<mine, Reply!found>>,
         attempt' \in 0 .. MaxRetries,
         pc' = pc \/ (pc \in Reply!Requests /\ pc' = Reply!ErrorOf(pc))
  PROVE  SubmitInv'
<1>1. pc' \in {"submit", "reply_again"} => pc' = pc BY Messaged
<1>2. CASE pc = "submit" /\ Reply!AutoSubmit(Reply!Current) /\ UNCHANGED lateSubmits
  BY <1>1, <1>2, CurrentIsMine, AutoSubmitGrows, SubmissionsGrow DEF SubmitInv, Reply!found
<1>3. CASE UNCHANGED state /\ lateSubmits' \subseteq mine
  BY <1>1, <1>3, SubmissionsGrow DEF SubmitInv, Reply!found
<1>4. \/ pc = "submit" /\ Reply!AutoSubmit(Reply!Current) /\ UNCHANGED lateSubmits
      \/ UNCHANGED state /\ lateSubmits' \subseteq mine
  BY CurrentIsMine DEF Reply!Unanswered, Reply!PostReply, Reply!server, SubmitInv
<1> QED BY <1>2, <1>3, <1>4

\* The instance has its own Cardinality, which is the same.
LEMMA ReplyCardinality == \A S : Reply!Cardinality(S) = Cardinality(S)
BY Zenon DEF Reply!Cardinality, Cardinality

LEMMA ListPageSubmits ==
  ASSUME SubmitInv, ReplyTypes, PageInv, Reply!ListPage
  PROVE  SubmitInv' /\ PageInv'
<1>1. /\ pc = "list" /\ page' = page + 1 /\ attempt' = 0 /\ UNCHANGED <<Reply!server, count, mine>>
      /\ pc' = CASE ~Reply!OnLastPage                       -> "list"
                 [] Reply!OnLastPage /\ pendingIDs' # <<>> -> "submit"
                 [] OTHER                            -> "none_pending"
  BY DEF Reply!ListPage, Reply!Goto
<1>2. pc' \in {"list", "submit", "none_pending"} /\ (pc' = "list" <=> ~Reply!OnLastPage)
      /\ (pc' = "submit" => pendingIDs' # <<>>)
  <2>1. CASE ~Reply!OnLastPage BY <1>1, <2>1
  <2>2. CASE Reply!OnLastPage /\ pendingIDs' # <<>> BY <1>1, <2>2
  <2>3. CASE Reply!OnLastPage /\ pendingIDs' = <<>> BY <1>1, <2>3
  <2> QED BY <2>1, <2>2, <2>3
<1>3. PageInv'
  <2>1. Cardinality(Reply!Listed) \in Nat /\ Cardinality(Reply!Listed) <= MaxReviews
    BY ReviewsFinite DEF Reply!Listed
  <2>2. page \in Nat /\ page <= MaxReviews + 1 BY <1>1, ReplyAssumption DEF PageInv
  <2>3. page * PageSize \in Nat /\ page * PageSize >= page BY <2>2, ReplyAssumption
  <2>4. ~Reply!OnLastPage => page < MaxReviews BY <2>1, <2>2, <2>3, ReplyAssumption, ReplyCardinality DEF Reply!OnLastPage
  <2> QED BY <1>1, <1>2, <2>2, <2>4, ReplyAssumption DEF PageInv
<1>4. pendingIDs' \in Seq(mine)
  <2> DEFINE S == {r \in Reply!Reviews : Reply!OnPage(r) /\ Reply!OwnPending(r)}
  <2>1. PICK ids \in Reply!InOrder(S) : pendingIDs' = pendingIDs \o ids
    BY <1>1 DEF Reply!ListPage, Reply!AddFound
  <2>2. Cardinality(S) \in Nat BY ReviewsFinite
  <2>3. S \subseteq mine BY DEF Reply!OwnPending
  <2>4. ids \in [1 .. Cardinality(S) -> S] BY ReplyCardinality DEF Reply!InOrder
  <2> HIDE DEF S
  <2>5. ids \in Seq(mine) BY <2>2, <2>3, <2>4
  <2> QED BY <2>1, <2>5 DEF SubmitInv
<1>5. Reply!SubmittedBeforeReply' BY <1>1, <1>2 DEF Reply!SubmittedBeforeReply, PageInv
<1>6. count' = 0 /\ (pc' = "submit" => Len(pendingIDs') > 0)
  BY <1>1, <1>2, <1>4 DEF PageInv
<1>7. SubmitInv'
  BY <1>1, <1>4, <1>5, <1>6, ReplyAssumption DEF SubmitInv, Reply!server
<1> QED BY <1>3, <1>7

LEMMA SubmitReviewSubmits ==
  ASSUME SubmitInv, ReplyTypes, Reply!SubmitReview
  PROVE  SubmitInv'
<1>1. /\ pc = "submit" /\ count' = count + 1 /\ attempt' = 0
      /\ pc' = IF count' = Len(pendingIDs) THEN "reply_again" ELSE "submit"
      /\ state' = [state EXCEPT ![Reply!Current] = "auto"]
      /\ UNCHANGED <<pendingIDs, mine, lateSubmits>>
  BY DEF Reply!SubmitReview, Reply!Submitted, Reply!AutoSubmit, Reply!Goto
<1>2. Reply!Current \in mine BY <1>1, CurrentIsMine
<1>3. state' \in [Reply!Reviews -> Reply!ReviewStates] /\ \A r \in Reply!Reviews : state'[r] = "auto" => r \in mine
  BY <1>1, <1>2 DEF SubmitInv, ReplyTypes, Reply!ReviewStates
<1>4. \A i \in 1 .. count' : state'[pendingIDs[i]] = "auto"
  <2> SUFFICES ASSUME NEW i \in 1 .. count' PROVE state'[pendingIDs[i]] = "auto" OBVIOUS
  <2>1. count \in Nat /\ pendingIDs \in Seq(mine) /\ count < Len(pendingIDs) BY <1>1 DEF SubmitInv
  <2>2. pendingIDs[i] \in Reply!Reviews BY <1>1, <2>1 DEF SubmitInv
  <2>3. CASE i = count + 1 BY <1>1, <2>2, <2>3 DEF Reply!Current, ReplyTypes
  <2>4. CASE i \in 1 .. count
    BY <1>1, <2>2, <2>4 DEF SubmitInv, Reply!SubmittedBeforeReply, ReplyTypes
  <2> QED BY <1>1, <2>1, <2>3, <2>4
<1>5. count \in Nat /\ Len(pendingIDs) \in Nat /\ count < Len(pendingIDs) BY <1>1 DEF SubmitInv
<1>6. Reply!SubmittedBeforeReply' BY <1>1, <1>4, <1>5 DEF Reply!SubmittedBeforeReply
<1> QED BY <1>1, <1>3, <1>5, <1>6, ReplyAssumption DEF SubmitInv

LEMMA ReplyingSubmits ==
  ASSUME SubmitInv, ReplyTypes, Reply!Replied \/ Reply!PendingReview \/ Reply!CurrentLogin \/ Reply!SubmitRefused
  PROVE  SubmitInv'
<1>1. UNCHANGED <<mine, state, lateSubmits, pendingIDs, count>> /\ attempt' = 0
  BY DEF Reply!Replied, Reply!PendingReview, Reply!CurrentLogin, Reply!SubmitRefused, Reply!Goto, Reply!PostReply, Reply!found, Reply!server
<1>2. pc' \notin {"submit", "reply_again"}
  <2>1. pc \in {"reply", "reply_again"} => Reply!ErrorOf(pc) \notin {"submit", "reply_again"}
    BY Messaged DEF Reply!Requests
  <2>2. CASE Reply!PendingReview
    <3>1. pc = "reply" /\ autoSubmit => pc' = "login" BY <2>2 DEF Reply!PendingReview, Reply!Goto
    <3>2. pc = "reply" /\ ~autoSubmit => pc' = "pending_review" BY <2>2 DEF Reply!PendingReview, Reply!Goto
    <3>3. pc = "reply_again" => pc' = Reply!ErrorOf(pc) BY <2>2 DEF Reply!PendingReview, Reply!Goto
    <3> QED BY <2>1, <2>2, <3>1, <3>2, <3>3 DEF Reply!PendingReview, Reply!Replying, ReplyTypes
  <2>3. CASE Reply!SubmitRefused BY <2>3, Messaged DEF Reply!SubmitRefused, Reply!Goto, Reply!Requests
  <2> QED BY <2>2, <2>3 DEF Reply!Replied, Reply!CurrentLogin, Reply!Goto
<1> QED BY <1>1, <1>2, SubmissionsGrow, ReplyAssumption DEF SubmitInv

LEMMA OthersSubmit ==
  ASSUME SubmitInv, ReplyTypes, Reply!LateReply \/ Reply!LateSubmit \/ Reply!ReviewElsewhere
  PROVE  SubmitInv'
<1>1. UNCHANGED <<mine, pc, pendingIDs, count, attempt>>
  BY DEF Reply!LateReply, Reply!LateSubmit, Reply!ReviewElsewhere, Reply!found
<1>2. CASE Reply!LateReply
  BY <1>1, <1>2, SubmissionsGrow DEF Reply!LateReply, SubmitInv
<1>3. CASE Reply!LateSubmit
  <2>1. PICK q \in lateSubmits : Reply!AutoSubmit(q) /\ lateSubmits' = lateSubmits \ {q}
    BY <1>3 DEF Reply!LateSubmit
  <2>2. q \in mine BY DEF SubmitInv
  <2> QED BY <1>1, <2>1, <2>2, AutoSubmitGrows, SubmissionsGrow DEF SubmitInv
<1>4. CASE Reply!ReviewElsewhere
  <2>1. UNCHANGED lateSubmits BY <1>4 DEF Reply!ReviewElsewhere
  <2>2. PICK q \in Reply!Reviews, s \in {"pending", "submitted", "deleted"} :
          state[q] \in {"unused", "pending"} /\ state' = [state EXCEPT ![q] = s]
    BY <1>4 DEF Reply!ReviewElsewhere
  <2>3. \A r \in Reply!Reviews : state[r] = "auto" <=> state'[r] = "auto"
    BY <2>2 DEF ReplyTypes
  <2> QED BY <1>1, <2>1, <2>3, SubmissionsGrow DEF SubmitInv
<1> QED BY <1>2, <1>3, <1>4

\* Only the listing changes the page, and nothing returns to what is before it.
LEMMA PageKept ==
  ASSUME PageInv, UNCHANGED page,
         pc' \in {"reply", "login", "list"} => pc \in {"reply", "login", "list"} /\ UNCHANGED count
  PROVE  PageInv'
BY DEF PageInv

LEMMA PageSteps ==
  ASSUME PageInv, ReplyTypes, [Reply!Next]_(Reply!vars), ~Reply!ListPage
  PROVE  PageInv'
<1> USE PageKept
<1>1. CASE Reply!Retry BY <1>1 DEF Reply!Retry, Reply!found
<1>2. CASE Reply!GiveUp \/ Reply!Refused
  BY <1>2, Messaged DEF Reply!GiveUp, Reply!Refused, Reply!found, Reply!Messages
<1>3. CASE Reply!Replied BY <1>3 DEF Reply!Replied, Reply!Goto, Reply!found
<1>4. CASE Reply!PendingReview
  <2>1. pc = "reply" \/ pc = "reply_again" BY <1>4 DEF Reply!PendingReview, Reply!Replying
  <2>2. pc = "reply_again" => pc' = "not_replied_after_submitting"
    BY <1>4 DEF Reply!PendingReview, Reply!Goto, Reply!ErrorOf
  <2> QED BY <1>4, <2>1, <2>2 DEF Reply!PendingReview, Reply!Goto, Reply!found
<1>5. CASE Reply!CurrentLogin BY <1>5 DEF Reply!CurrentLogin, Reply!Goto, Reply!found
<1>6. CASE Reply!SubmitReview BY <1>6 DEF Reply!SubmitReview, Reply!Submitted, Reply!Goto
<1>7. CASE Reply!SubmitRefused
  BY <1>7, Messaged DEF Reply!SubmitRefused, Reply!Goto, Reply!found, Reply!Requests
<1>8. CASE Reply!LateReply \/ Reply!LateSubmit \/ Reply!ReviewElsewhere
  BY <1>8 DEF Reply!LateReply, Reply!LateSubmit, Reply!ReviewElsewhere, Reply!found
<1>9. CASE UNCHANGED Reply!vars BY <1>9 DEF Reply!vars, Reply!found
<1> QED BY <1>1, <1>2, <1>3, <1>4, <1>5, <1>6, <1>7, <1>8, <1>9 DEF Reply!Next, Reply!Command, Reply!Stop

ReplyInv == RepliesInv /\ SubmitInv /\ PageInv

LEMMA ReplyInit == Reply!Init => ReplyInv
<1> SUFFICES ASSUME Reply!Init PROVE ReplyInv OBVIOUS
<1>1. PageInv BY ReplyAssumption DEF PageInv, Reply!Init
<1>2. SubmitInv BY ReplyAssumption DEF SubmitInv, Reply!SubmittedBeforeReply, Reply!Init
<1> QED BY <1>1, <1>2, RepliesInit DEF ReplyInv

LEMMA ReplyNext == ReplyInv /\ [Reply!Next]_(Reply!vars) => ReplyInv'
<1> SUFFICES ASSUME ReplyInv, [Reply!Next]_(Reply!vars) PROVE ReplyInv' OBVIOUS
<1> USE DEF ReplyInv
<1>0. ReplyTypes BY DEF RepliesInv
<1>1. RepliesInv' BY RepliesNext
<1>2. PageInv' BY <1>0, PageSteps, ListPageSubmits
<1>3. SubmitInv'
  <2>1. CASE Reply!Retry
    <3>1. attempt' \in 0 .. MaxRetries BY <2>1, ReplyAssumption DEF Reply!Retry, SubmitInv
    <3> QED BY <1>0, <2>1, <3>1, SubmitUnanswered DEF Reply!Retry
  <2>2. CASE Reply!GiveUp BY <1>0, <2>2, SubmitUnanswered DEF Reply!GiveUp, SubmitInv
  <2>3. CASE Reply!Refused
    BY <1>0, <2>3, Messaged, SubmissionsGrow DEF Reply!Refused, SubmitInv, Reply!server, Reply!found
  <2>4. CASE Reply!Replied \/ Reply!PendingReview \/ Reply!CurrentLogin \/ Reply!SubmitRefused
    BY <1>0, <2>4, ReplyingSubmits
  <2>5. CASE Reply!ListPage BY <1>0, <2>5, ListPageSubmits
  <2>6. CASE Reply!SubmitReview BY <1>0, <2>6, SubmitReviewSubmits
  <2>7. CASE Reply!LateReply \/ Reply!LateSubmit \/ Reply!ReviewElsewhere BY <1>0, <2>7, OthersSubmit
  <2>8. CASE UNCHANGED Reply!vars
    BY <2>8 DEF Reply!vars, Reply!server, Reply!found, SubmitInv, Reply!SubmittedBeforeReply
  <2> QED BY <2>1, <2>2, <2>3, <2>4, <2>5, <2>6, <2>7, <2>8 DEF Reply!Next, Reply!Command, Reply!Stop
<1> QED BY <1>1, <1>2, <1>3

LEMMA ReplyProperties ==
  ReplyInv =>
    /\ Reply!TypeOK /\ Reply!RepliesAccountedFor /\ Reply!AutoSubmitTold /\ Reply!SubmittedBeforeReply
    /\ pc = "ok" => replies >= 1
<1> SUFFICES ASSUME ReplyInv
             PROVE  /\ Reply!TypeOK /\ Reply!RepliesAccountedFor /\ Reply!AutoSubmitTold /\ Reply!SubmittedBeforeReply
                    /\ pc = "ok" => replies >= 1
  OBVIOUS
<1> USE DEF ReplyInv
<1>1. Reply!TypeOK
  BY DEF Reply!TypeOK, RepliesInv, ReplyTypes, ReplyCounters, SubmitInv, PageInv
<1>2. Reply!AutoSubmitTold
  BY DEF Reply!AutoSubmitTold, RepliesInv, AutoReviews, Submitting, SubmitInv
<1>3. Reply!RepliesAccountedFor /\ (pc = "ok" => replies >= 1)
  BY DEF RepliesInv, Reply!RepliesAccountedFor
<1> QED BY <1>1, <1>2, <1>3 DEF SubmitInv

-----------------------------------------------------------------------------
(* gh pr create. *)

LEMMA ProposeAssumption ==
  MaxCommits \in Nat \ {0} /\ MaxCommands \in Nat /\ MaxRetries \in Nat
BY CommandsAssumption DEF CommandsAssumption

\* The names and what is known of their branches: nothing of a name that is
\* not there, and what is known to be the last commit is what was pushed,
\* unless the branch has been deleted.
RefsInv ==
  \A n \in Propose!RemoteNames :
    /\ tracked[n] <= commit
    /\ remote[n] = "none" => tracked[n] = 0
    /\ remote[n] # "none" /\ tracked[n] = commit => branchAt[remote[n]] \in {0, commit}

PullRequests == [open : BOOLEAN, from : Propose!Repos \cup {"none"}, commit : 0 .. MaxCommits, lacks : SUBSET Propose!Metadata]

Pushed == branchAt[headRepo] \in {0, commit}

\* What is known at each step of handlePush and submitPR.
PlanInv ==
  /\ pc \in {"fork", "rename", "add", "resolve", "push", "push_done", "submit", "metadata"} =>
       headRepo \in Propose!Repos
  /\ pc \in {"find", "survey", "confirm"} =>
       headRepo \in Propose!Repos /\ doing = "pr_create" /\ (how = "forked" => headRepo = "fork")
  /\ pc = "context" => doing = "pr_create"
  /\ pc = "idle" <=> doing = "none"
  /\ pc \in {"fork", "rename", "add", "resolve", "push"} =>
       how \in {"pushed", "forked"} /\ (how = "forked" => headRepo = "fork")
  /\ pc = "fork" => how = "forked"
  /\ pc \in {"resolve", "push", "push_done", "submit", "metadata"} => doing = "pr_create"
  /\ doing = "repo_fork" => ~survey /\ headRepo = "fork"
  /\ doing = "repo_fork" /\ pc \in {"rename", "add"} => forked
  /\ pc \in {"rename", "add"} => ~Propose!HasRemote(headRepo)
  /\ pc \in {"resolve", "push"} => Propose!HasRemote(headRepo)
  /\ pc \in {"find", "survey", "confirm"} /\ how = "matched" => Pushed
  /\ pc \in {"push_done", "submit"} /\ how # "skipped" => Pushed
  /\ pc = "metadata" => /\ proposed.from = headRepo
                        /\ how # "skipped" => proposed.commit = commit

\* Nothing is typed before it is asked for.
TypedInv ==
  /\ typed => pc \notin {"idle", "context", "find", "survey"}
  /\ survey => doing = "pr_create"

ProposeInv ==
  Propose!TypeOK /\ RefsInv /\ PlanInv /\ TypedInv /\ Propose!SuccessMeansProposed

LEMMA RemoteFound ==
  ASSUME NEW r \in Propose!Repos, Propose!HasRemote(r)
  PROVE  Propose!RemoteForRepo(r) \in Propose!RemoteNames /\ remote[Propose!RemoteForRepo(r)] = r
BY DEF Propose!HasRemote, Propose!RemoteForRepo

LEMMA NamesAreRemotes ==
  \A i \in 1 .. 3 : Propose!Names[i] \in Propose!RemoteNames
BY DEF Propose!Names, Propose!RemoteNames

LEMMA ProposeBeginKeeps ==
  ASSUME ProposeInv, Propose!Begin
  PROVE  ProposeInv'
<1> USE ProposeAssumption DEF ProposeInv, Propose!Begin, Propose!Ends, Propose!git, Propose!github, Propose!options, Propose!plan
<1>1. /\ remote' \in [Propose!RemoteNames -> Propose!Repos \cup {"none"}] /\ tracked' \in [Propose!RemoteNames -> 0 .. MaxCommits]
      /\ branchAt' \in [Propose!Repos -> 0 .. MaxCommits] /\ commit' \in 1 .. MaxCommits
      /\ headRepo' \in Propose!Repos \cup {"none"}
  BY RemoteFound, NamesAreRemotes DEF Propose!TypeOK, PlanInv, Propose!RemoteNames, Propose!Repos
<1>2. \A m, n \in Propose!RemoteNames : m # n /\ remote'[m] = remote'[n] => remote'[n] = "none"
  BY DEF Propose!TypeOK, PlanInv, Propose!RemoteNames, Propose!HasRemote
<1>3. /\ resolved' \subseteq Propose!RemoteNames /\ pushRemote' \in Propose!RemoteNames \cup {"none"}
      /\ {forked', canPush', saved', survey', typed'} \subseteq BOOLEAN
      /\ proposed' \in PullRequests
  BY RemoteFound DEF Propose!TypeOK, PlanInv, Propose!RemoteNames, Propose!Metadata, PullRequests
<1>4. /\ pc' \in {"idle", "context", "find", "survey", "confirm", "fork", "rename", "add", "resolve",
                 "push", "push_done", "submit", "metadata", "ok", "shown", "cancelled", "error"}
      /\ doing' \in {"none", "pr_create", "repo_fork"} /\ how' \in {"matched", "pushed", "forked", "skipped"}
      /\ count' \in 0 .. MaxCommands /\ tries' \in 0 .. MaxRetries
  BY DEF Propose!TypeOK
<1>5. Propose!TypeOK'
  BY <1>1, <1>2, <1>3, <1>4 DEF Propose!TypeOK, PullRequests
<1>6. RefsInv'
  BY <1>1, RemoteFound DEF RefsInv, Propose!TypeOK, Propose!RemoteNames, Propose!Repos, PlanInv
<1>7. PlanInv'
  BY <1>1, RemoteFound, NamesAreRemotes DEF PlanInv, Propose!TypeOK, RefsInv, Propose!HasRemote, Propose!RemoteNames, Propose!Repos, Pushed
<1>8. TypedInv'
  BY DEF TypedInv, Propose!TypeOK, PlanInv
<1>9. Propose!SuccessMeansProposed'
  BY DEF Propose!SuccessMeansProposed, PlanInv, Propose!TypeOK, Propose!HasRemote, Propose!RemoteNames
<1> QED
  BY <1>5, <1>6, <1>7, <1>8, <1>9

LEMMA NewCreateContextKeeps ==
  ASSUME ProposeInv, Propose!NewCreateContext
  PROVE  ProposeInv'
<1> USE ProposeAssumption DEF ProposeInv, Propose!NewCreateContext, Propose!Ends, Propose!git, Propose!github, Propose!options, Propose!plan, Propose!Plan, Propose!DefaultPRHead, Propose!MatchingRefs, Propose!PushableRepos, Propose!Names
<1>1. /\ remote' \in [Propose!RemoteNames -> Propose!Repos \cup {"none"}] /\ tracked' \in [Propose!RemoteNames -> 0 .. MaxCommits]
      /\ branchAt' \in [Propose!Repos -> 0 .. MaxCommits] /\ commit' \in 1 .. MaxCommits
      /\ headRepo' \in Propose!Repos \cup {"none"}
  BY RemoteFound, NamesAreRemotes DEF Propose!TypeOK, PlanInv, Propose!RemoteNames, Propose!Repos
<1>2. \A m, n \in Propose!RemoteNames : m # n /\ remote'[m] = remote'[n] => remote'[n] = "none"
  BY DEF Propose!TypeOK, PlanInv, Propose!RemoteNames, Propose!HasRemote
<1>3. /\ resolved' \subseteq Propose!RemoteNames /\ pushRemote' \in Propose!RemoteNames \cup {"none"}
      /\ {forked', canPush', saved', survey', typed'} \subseteq BOOLEAN
      /\ proposed' \in PullRequests
  BY RemoteFound DEF Propose!TypeOK, PlanInv, Propose!RemoteNames, Propose!Metadata, PullRequests
<1>4. /\ pc' \in {"idle", "context", "find", "survey", "confirm", "fork", "rename", "add", "resolve",
                 "push", "push_done", "submit", "metadata", "ok", "shown", "cancelled", "error"}
      /\ doing' \in {"none", "pr_create", "repo_fork"} /\ how' \in {"matched", "pushed", "forked", "skipped"}
      /\ count' \in 0 .. MaxCommands /\ tries' \in 0 .. MaxRetries
  BY DEF Propose!TypeOK
<1>5. Propose!TypeOK'
  BY <1>1, <1>2, <1>3, <1>4 DEF Propose!TypeOK, PullRequests
<1>6. RefsInv'
  BY <1>1, RemoteFound DEF RefsInv, Propose!TypeOK, Propose!RemoteNames, Propose!Repos, PlanInv
<1>7. PlanInv'
  BY <1>1, RemoteFound, NamesAreRemotes DEF PlanInv, Propose!TypeOK, RefsInv, Propose!HasRemote, Propose!RemoteNames, Propose!Repos, Pushed
<1>8. TypedInv'
  BY DEF TypedInv, Propose!TypeOK, PlanInv
<1>9. Propose!SuccessMeansProposed'
  BY DEF Propose!SuccessMeansProposed, PlanInv, Propose!TypeOK, Propose!HasRemote, Propose!RemoteNames
<1> QED
  BY <1>5, <1>6, <1>7, <1>8, <1>9

LEMMA FindExistingKeeps ==
  ASSUME ProposeInv, Propose!FindExisting
  PROVE  ProposeInv'
<1> USE ProposeAssumption DEF ProposeInv, Propose!FindExisting, Propose!Ends, Propose!git, Propose!github, Propose!options, Propose!plan, Propose!FirstOfPush
<1>1. /\ remote' \in [Propose!RemoteNames -> Propose!Repos \cup {"none"}] /\ tracked' \in [Propose!RemoteNames -> 0 .. MaxCommits]
      /\ branchAt' \in [Propose!Repos -> 0 .. MaxCommits] /\ commit' \in 1 .. MaxCommits
      /\ headRepo' \in Propose!Repos \cup {"none"}
  BY RemoteFound, NamesAreRemotes DEF Propose!TypeOK, PlanInv, Propose!RemoteNames, Propose!Repos
<1>2. \A m, n \in Propose!RemoteNames : m # n /\ remote'[m] = remote'[n] => remote'[n] = "none"
  BY DEF Propose!TypeOK, PlanInv, Propose!RemoteNames, Propose!HasRemote
<1>3. /\ resolved' \subseteq Propose!RemoteNames /\ pushRemote' \in Propose!RemoteNames \cup {"none"}
      /\ {forked', canPush', saved', survey', typed'} \subseteq BOOLEAN
      /\ proposed' \in PullRequests
  BY RemoteFound DEF Propose!TypeOK, PlanInv, Propose!RemoteNames, Propose!Metadata, PullRequests
<1>4. /\ pc' \in {"idle", "context", "find", "survey", "confirm", "fork", "rename", "add", "resolve",
                 "push", "push_done", "submit", "metadata", "ok", "shown", "cancelled", "error"}
      /\ doing' \in {"none", "pr_create", "repo_fork"} /\ how' \in {"matched", "pushed", "forked", "skipped"}
      /\ count' \in 0 .. MaxCommands /\ tries' \in 0 .. MaxRetries
  BY DEF Propose!TypeOK
<1>5. Propose!TypeOK'
  BY <1>1, <1>2, <1>3, <1>4 DEF Propose!TypeOK, PullRequests
<1>6. RefsInv'
  BY <1>1, RemoteFound DEF RefsInv, Propose!TypeOK, Propose!RemoteNames, Propose!Repos, PlanInv
<1>7. PlanInv'
  BY <1>1, RemoteFound, NamesAreRemotes DEF PlanInv, Propose!TypeOK, RefsInv, Propose!HasRemote, Propose!RemoteNames, Propose!Repos, Pushed
<1>8. TypedInv'
  BY DEF TypedInv, Propose!TypeOK, PlanInv
<1>9. Propose!SuccessMeansProposed'
  BY DEF Propose!SuccessMeansProposed, PlanInv, Propose!TypeOK, Propose!HasRemote, Propose!RemoteNames
<1> QED
  BY <1>5, <1>6, <1>7, <1>8, <1>9

LEMMA SurveyKeeps ==
  ASSUME ProposeInv, Propose!Survey
  PROVE  ProposeInv'
<1> USE ProposeAssumption DEF ProposeInv, Propose!Survey, Propose!Ends, Propose!git, Propose!github, Propose!options, Propose!plan
<1>1. /\ remote' \in [Propose!RemoteNames -> Propose!Repos \cup {"none"}] /\ tracked' \in [Propose!RemoteNames -> 0 .. MaxCommits]
      /\ branchAt' \in [Propose!Repos -> 0 .. MaxCommits] /\ commit' \in 1 .. MaxCommits
      /\ headRepo' \in Propose!Repos \cup {"none"}
  BY RemoteFound, NamesAreRemotes DEF Propose!TypeOK, PlanInv, Propose!RemoteNames, Propose!Repos
<1>2. \A m, n \in Propose!RemoteNames : m # n /\ remote'[m] = remote'[n] => remote'[n] = "none"
  BY DEF Propose!TypeOK, PlanInv, Propose!RemoteNames, Propose!HasRemote
<1>3. /\ resolved' \subseteq Propose!RemoteNames /\ pushRemote' \in Propose!RemoteNames \cup {"none"}
      /\ {forked', canPush', saved', survey', typed'} \subseteq BOOLEAN
      /\ proposed' \in PullRequests
  BY RemoteFound DEF Propose!TypeOK, PlanInv, Propose!RemoteNames, Propose!Metadata, PullRequests
<1>4. /\ pc' \in {"idle", "context", "find", "survey", "confirm", "fork", "rename", "add", "resolve",
                 "push", "push_done", "submit", "metadata", "ok", "shown", "cancelled", "error"}
      /\ doing' \in {"none", "pr_create", "repo_fork"} /\ how' \in {"matched", "pushed", "forked", "skipped"}
      /\ count' \in 0 .. MaxCommands /\ tries' \in 0 .. MaxRetries
  BY DEF Propose!TypeOK
<1>5. Propose!TypeOK'
  BY <1>1, <1>2, <1>3, <1>4 DEF Propose!TypeOK, PullRequests
<1>6. RefsInv'
  BY <1>1, RemoteFound DEF RefsInv, Propose!TypeOK, Propose!RemoteNames, Propose!Repos, PlanInv
<1>7. PlanInv'
  BY <1>1, RemoteFound, NamesAreRemotes DEF PlanInv, Propose!TypeOK, RefsInv, Propose!HasRemote, Propose!RemoteNames, Propose!Repos, Pushed
<1>8. TypedInv'
  BY DEF TypedInv, Propose!TypeOK, PlanInv
<1>9. Propose!SuccessMeansProposed'
  BY DEF Propose!SuccessMeansProposed, PlanInv, Propose!TypeOK, Propose!HasRemote, Propose!RemoteNames
<1> QED
  BY <1>5, <1>6, <1>7, <1>8, <1>9

LEMMA ConfirmKeeps ==
  ASSUME ProposeInv, Propose!Confirm
  PROVE  ProposeInv'
<1> USE ProposeAssumption DEF ProposeInv, Propose!Confirm, Propose!Ends, Propose!git, Propose!github, Propose!options, Propose!plan, Propose!FirstOfPush
<1>1. /\ remote' \in [Propose!RemoteNames -> Propose!Repos \cup {"none"}] /\ tracked' \in [Propose!RemoteNames -> 0 .. MaxCommits]
      /\ branchAt' \in [Propose!Repos -> 0 .. MaxCommits] /\ commit' \in 1 .. MaxCommits
      /\ headRepo' \in Propose!Repos \cup {"none"}
  BY RemoteFound, NamesAreRemotes DEF Propose!TypeOK, PlanInv, Propose!RemoteNames, Propose!Repos
<1>2. \A m, n \in Propose!RemoteNames : m # n /\ remote'[m] = remote'[n] => remote'[n] = "none"
  BY DEF Propose!TypeOK, PlanInv, Propose!RemoteNames, Propose!HasRemote
<1>3. /\ resolved' \subseteq Propose!RemoteNames /\ pushRemote' \in Propose!RemoteNames \cup {"none"}
      /\ {forked', canPush', saved', survey', typed'} \subseteq BOOLEAN
      /\ proposed' \in PullRequests
  BY RemoteFound DEF Propose!TypeOK, PlanInv, Propose!RemoteNames, Propose!Metadata, PullRequests
<1>4. /\ pc' \in {"idle", "context", "find", "survey", "confirm", "fork", "rename", "add", "resolve",
                 "push", "push_done", "submit", "metadata", "ok", "shown", "cancelled", "error"}
      /\ doing' \in {"none", "pr_create", "repo_fork"} /\ how' \in {"matched", "pushed", "forked", "skipped"}
      /\ count' \in 0 .. MaxCommands /\ tries' \in 0 .. MaxRetries
  BY DEF Propose!TypeOK
<1>5. Propose!TypeOK'
  BY <1>1, <1>2, <1>3, <1>4 DEF Propose!TypeOK, PullRequests
<1>6. RefsInv'
  BY <1>1, RemoteFound DEF RefsInv, Propose!TypeOK, Propose!RemoteNames, Propose!Repos, PlanInv
<1>7. PlanInv'
  BY <1>1, RemoteFound, NamesAreRemotes DEF PlanInv, Propose!TypeOK, RefsInv, Propose!HasRemote, Propose!RemoteNames, Propose!Repos, Pushed
<1>8. TypedInv'
  BY DEF TypedInv, Propose!TypeOK, PlanInv
<1>9. Propose!SuccessMeansProposed'
  BY DEF Propose!SuccessMeansProposed, PlanInv, Propose!TypeOK, Propose!HasRemote, Propose!RemoteNames
<1> QED
  BY <1>5, <1>6, <1>7, <1>8, <1>9

LEMMA ForkRepoKeeps ==
  ASSUME ProposeInv, Propose!ForkRepo
  PROVE  ProposeInv'
<1> USE ProposeAssumption DEF ProposeInv, Propose!ForkRepo, Propose!Ends, Propose!git, Propose!github, Propose!options, Propose!plan
<1>1. /\ remote' \in [Propose!RemoteNames -> Propose!Repos \cup {"none"}] /\ tracked' \in [Propose!RemoteNames -> 0 .. MaxCommits]
      /\ branchAt' \in [Propose!Repos -> 0 .. MaxCommits] /\ commit' \in 1 .. MaxCommits
      /\ headRepo' \in Propose!Repos \cup {"none"}
  BY RemoteFound, NamesAreRemotes DEF Propose!TypeOK, PlanInv, Propose!RemoteNames, Propose!Repos
<1>2. \A m, n \in Propose!RemoteNames : m # n /\ remote'[m] = remote'[n] => remote'[n] = "none"
  BY DEF Propose!TypeOK, PlanInv, Propose!RemoteNames, Propose!HasRemote
<1>3. /\ resolved' \subseteq Propose!RemoteNames /\ pushRemote' \in Propose!RemoteNames \cup {"none"}
      /\ {forked', canPush', saved', survey', typed'} \subseteq BOOLEAN
      /\ proposed' \in PullRequests
  BY RemoteFound DEF Propose!TypeOK, PlanInv, Propose!RemoteNames, Propose!Metadata, PullRequests
<1>4. /\ pc' \in {"idle", "context", "find", "survey", "confirm", "fork", "rename", "add", "resolve",
                 "push", "push_done", "submit", "metadata", "ok", "shown", "cancelled", "error"}
      /\ doing' \in {"none", "pr_create", "repo_fork"} /\ how' \in {"matched", "pushed", "forked", "skipped"}
      /\ count' \in 0 .. MaxCommands /\ tries' \in 0 .. MaxRetries
  BY DEF Propose!TypeOK
<1>5. Propose!TypeOK'
  BY <1>1, <1>2, <1>3, <1>4 DEF Propose!TypeOK, PullRequests
<1>6. RefsInv'
  BY <1>1, RemoteFound DEF RefsInv, Propose!TypeOK, Propose!RemoteNames, Propose!Repos, PlanInv
<1>7. PlanInv'
  <2>1. headRepo = "fork" /\ how = "forked" /\ (doing = "repo_fork" \/ doing = "pr_create" \/ doing = "none")
    BY DEF PlanInv, Propose!TypeOK
  <2>2. Propose!HasRemote(headRepo)' = Propose!HasRemote(headRepo)
    BY DEF Propose!HasRemote
  <2> QED
    BY <2>1, <2>2 DEF PlanInv, Propose!HasRemote, Propose!Repos
<1>8. TypedInv'
  BY DEF TypedInv, Propose!TypeOK, PlanInv
<1>9. Propose!SuccessMeansProposed'
  BY DEF Propose!SuccessMeansProposed, PlanInv, Propose!TypeOK, Propose!HasRemote, Propose!RemoteNames
<1> QED
  BY <1>5, <1>6, <1>7, <1>8, <1>9

LEMMA RenameOriginKeeps ==
  ASSUME ProposeInv, Propose!RenameOrigin
  PROVE  ProposeInv'
<1> USE ProposeAssumption DEF ProposeInv, Propose!RenameOrigin, Propose!Ends, Propose!git, Propose!github, Propose!options, Propose!plan, Propose!Renames, Propose!Moved
<1>1. /\ remote' \in [Propose!RemoteNames -> Propose!Repos \cup {"none"}] /\ tracked' \in [Propose!RemoteNames -> 0 .. MaxCommits]
      /\ branchAt' \in [Propose!Repos -> 0 .. MaxCommits] /\ commit' \in 1 .. MaxCommits
      /\ headRepo' \in Propose!Repos \cup {"none"}
  BY RemoteFound, NamesAreRemotes DEF Propose!TypeOK, PlanInv, Propose!RemoteNames, Propose!Repos
<1>2. \A m, n \in Propose!RemoteNames : m # n /\ remote'[m] = remote'[n] => remote'[n] = "none"
  BY DEF Propose!TypeOK, PlanInv, Propose!RemoteNames, Propose!HasRemote
<1>3. /\ resolved' \subseteq Propose!RemoteNames /\ pushRemote' \in Propose!RemoteNames \cup {"none"}
      /\ {forked', canPush', saved', survey', typed'} \subseteq BOOLEAN
      /\ proposed' \in PullRequests
  <2>1. {IF n = "origin" THEN "upstream" ELSE n : n \in resolved} \subseteq Propose!RemoteNames
    BY DEF Propose!TypeOK, Propose!RemoteNames
  <2>2. resolved' \subseteq Propose!RemoteNames
    BY <2>1 DEF Propose!TypeOK
  <2>3. pushRemote' \in Propose!RemoteNames \cup {"none"}
    BY DEF Propose!TypeOK, Propose!RemoteNames
  <2> QED
    BY <2>2, <2>3 DEF Propose!TypeOK, PullRequests
<1>4. /\ pc' \in {"idle", "context", "find", "survey", "confirm", "fork", "rename", "add", "resolve",
                 "push", "push_done", "submit", "metadata", "ok", "shown", "cancelled", "error"}
      /\ doing' \in {"none", "pr_create", "repo_fork"} /\ how' \in {"matched", "pushed", "forked", "skipped"}
      /\ count' \in 0 .. MaxCommands /\ tries' \in 0 .. MaxRetries
  BY DEF Propose!TypeOK
<1>5. Propose!TypeOK'
  BY <1>1, <1>2, <1>3, <1>4 DEF Propose!TypeOK, PullRequests
<1>6. RefsInv'
  BY <1>1, RemoteFound DEF RefsInv, Propose!TypeOK, Propose!RemoteNames, Propose!Repos, PlanInv
<1>7. PlanInv'
  BY <1>1, RemoteFound, NamesAreRemotes DEF PlanInv, Propose!TypeOK, RefsInv, Propose!HasRemote, Propose!RemoteNames, Propose!Repos, Pushed
<1>8. TypedInv'
  BY DEF TypedInv, Propose!TypeOK, PlanInv
<1>9. Propose!SuccessMeansProposed'
  BY DEF Propose!SuccessMeansProposed, PlanInv, Propose!TypeOK, Propose!HasRemote, Propose!RemoteNames
<1> QED
  BY <1>5, <1>6, <1>7, <1>8, <1>9

LEMMA AddRemoteKeeps ==
  ASSUME ProposeInv, Propose!AddRemote
  PROVE  ProposeInv'
<1> USE ProposeAssumption DEF ProposeInv, Propose!AddRemote, Propose!Ends, Propose!git, Propose!github, Propose!options, Propose!plan, Propose!NewName
<1>1. /\ remote' \in [Propose!RemoteNames -> Propose!Repos \cup {"none"}] /\ tracked' \in [Propose!RemoteNames -> 0 .. MaxCommits]
      /\ branchAt' \in [Propose!Repos -> 0 .. MaxCommits] /\ commit' \in 1 .. MaxCommits
      /\ headRepo' \in Propose!Repos \cup {"none"}
  BY RemoteFound, NamesAreRemotes DEF Propose!TypeOK, PlanInv, Propose!RemoteNames, Propose!Repos
<1>2. \A m, n \in Propose!RemoteNames : m # n /\ remote'[m] = remote'[n] => remote'[n] = "none"
  BY DEF Propose!TypeOK, PlanInv, Propose!RemoteNames, Propose!HasRemote
<1>3. /\ resolved' \subseteq Propose!RemoteNames /\ pushRemote' \in Propose!RemoteNames \cup {"none"}
      /\ {forked', canPush', saved', survey', typed'} \subseteq BOOLEAN
      /\ proposed' \in PullRequests
  BY RemoteFound DEF Propose!TypeOK, PlanInv, Propose!RemoteNames, Propose!Metadata, PullRequests
<1>4. /\ pc' \in {"idle", "context", "find", "survey", "confirm", "fork", "rename", "add", "resolve",
                 "push", "push_done", "submit", "metadata", "ok", "shown", "cancelled", "error"}
      /\ doing' \in {"none", "pr_create", "repo_fork"} /\ how' \in {"matched", "pushed", "forked", "skipped"}
      /\ count' \in 0 .. MaxCommands /\ tries' \in 0 .. MaxRetries
  BY DEF Propose!TypeOK
<1>5. Propose!TypeOK'
  BY <1>1, <1>2, <1>3, <1>4 DEF Propose!TypeOK, PullRequests
<1>6. RefsInv'
  BY <1>1, RemoteFound DEF RefsInv, Propose!TypeOK, Propose!RemoteNames, Propose!Repos, PlanInv
<1>7. PlanInv'
  <2>1. CASE pc' = "error"
    <3>1. headRepo' = headRepo /\ doing' = doing /\ survey' = survey /\ doing # "none"
      BY DEF PlanInv
    <3> QED
      BY <2>1, <3>1 DEF PlanInv
  <2>2. CASE pc' # "error"
    <3>1. headRepo \in Propose!Repos /\ remote' = [remote EXCEPT ![Propose!NewName] = headRepo]
      BY <2>2 DEF PlanInv
    <3>2. Propose!HasRemote(headRepo)'
      BY <3>1 DEF Propose!HasRemote, Propose!TypeOK, Propose!RemoteNames
    <3>3. pc' \in {"ok", "resolve", "push"} /\ doing # "none" /\ (pc' # "ok" => doing # "repo_fork")
      BY <2>2 DEF PlanInv
    <3> QED
      BY <3>1, <3>2, <3>3 DEF PlanInv, Propose!TypeOK
  <2> QED
    BY <2>1, <2>2
<1>8. TypedInv'
  BY DEF TypedInv, Propose!TypeOK, PlanInv
<1>9. Propose!SuccessMeansProposed'
  BY DEF Propose!SuccessMeansProposed, PlanInv, Propose!TypeOK, Propose!HasRemote, Propose!RemoteNames
<1> QED
  BY <1>5, <1>6, <1>7, <1>8, <1>9

LEMMA SetRemoteResolutionKeeps ==
  ASSUME ProposeInv, Propose!SetRemoteResolution
  PROVE  ProposeInv'
<1> USE ProposeAssumption DEF ProposeInv, Propose!SetRemoteResolution, Propose!Ends, Propose!git, Propose!github, Propose!options, Propose!plan
<1>1. /\ remote' \in [Propose!RemoteNames -> Propose!Repos \cup {"none"}] /\ tracked' \in [Propose!RemoteNames -> 0 .. MaxCommits]
      /\ branchAt' \in [Propose!Repos -> 0 .. MaxCommits] /\ commit' \in 1 .. MaxCommits
      /\ headRepo' \in Propose!Repos \cup {"none"}
  BY RemoteFound, NamesAreRemotes DEF Propose!TypeOK, PlanInv, Propose!RemoteNames, Propose!Repos
<1>2. \A m, n \in Propose!RemoteNames : m # n /\ remote'[m] = remote'[n] => remote'[n] = "none"
  BY DEF Propose!TypeOK, PlanInv, Propose!RemoteNames, Propose!HasRemote
<1>3. /\ resolved' \subseteq Propose!RemoteNames /\ pushRemote' \in Propose!RemoteNames \cup {"none"}
      /\ {forked', canPush', saved', survey', typed'} \subseteq BOOLEAN
      /\ proposed' \in PullRequests
  BY RemoteFound DEF Propose!TypeOK, PlanInv, Propose!RemoteNames, Propose!Metadata, PullRequests
<1>4. /\ pc' \in {"idle", "context", "find", "survey", "confirm", "fork", "rename", "add", "resolve",
                 "push", "push_done", "submit", "metadata", "ok", "shown", "cancelled", "error"}
      /\ doing' \in {"none", "pr_create", "repo_fork"} /\ how' \in {"matched", "pushed", "forked", "skipped"}
      /\ count' \in 0 .. MaxCommands /\ tries' \in 0 .. MaxRetries
  BY DEF Propose!TypeOK
<1>5. Propose!TypeOK'
  BY <1>1, <1>2, <1>3, <1>4 DEF Propose!TypeOK, PullRequests
<1>6. RefsInv'
  BY <1>1, RemoteFound DEF RefsInv, Propose!TypeOK, Propose!RemoteNames, Propose!Repos, PlanInv
<1>7. PlanInv'
  BY <1>1, RemoteFound, NamesAreRemotes DEF PlanInv, Propose!TypeOK, RefsInv, Propose!HasRemote, Propose!RemoteNames, Propose!Repos, Pushed
<1>8. TypedInv'
  BY DEF TypedInv, Propose!TypeOK, PlanInv
<1>9. Propose!SuccessMeansProposed'
  BY DEF Propose!SuccessMeansProposed, PlanInv, Propose!TypeOK, Propose!HasRemote, Propose!RemoteNames
<1> QED
  BY <1>5, <1>6, <1>7, <1>8, <1>9

LEMMA PushKeeps ==
  ASSUME ProposeInv, Propose!Push
  PROVE  ProposeInv'
<1> USE ProposeAssumption DEF ProposeInv, Propose!Push, Propose!Ends, Propose!git, Propose!github, Propose!options, Propose!plan, Propose!PushFails
<1>1. /\ remote' \in [Propose!RemoteNames -> Propose!Repos \cup {"none"}] /\ tracked' \in [Propose!RemoteNames -> 0 .. MaxCommits]
      /\ branchAt' \in [Propose!Repos -> 0 .. MaxCommits] /\ commit' \in 1 .. MaxCommits
      /\ headRepo' \in Propose!Repos \cup {"none"}
  BY RemoteFound, NamesAreRemotes DEF Propose!TypeOK, PlanInv, Propose!RemoteNames, Propose!Repos
<1>2. \A m, n \in Propose!RemoteNames : m # n /\ remote'[m] = remote'[n] => remote'[n] = "none"
  BY DEF Propose!TypeOK, PlanInv, Propose!RemoteNames, Propose!HasRemote
<1>3. /\ resolved' \subseteq Propose!RemoteNames /\ pushRemote' \in Propose!RemoteNames \cup {"none"}
      /\ {forked', canPush', saved', survey', typed'} \subseteq BOOLEAN
      /\ proposed' \in PullRequests
  BY RemoteFound DEF Propose!TypeOK, PlanInv, Propose!RemoteNames, Propose!Metadata, PullRequests
<1>4. /\ pc' \in {"idle", "context", "find", "survey", "confirm", "fork", "rename", "add", "resolve",
                 "push", "push_done", "submit", "metadata", "ok", "shown", "cancelled", "error"}
      /\ doing' \in {"none", "pr_create", "repo_fork"} /\ how' \in {"matched", "pushed", "forked", "skipped"}
      /\ count' \in 0 .. MaxCommands /\ tries' \in 0 .. MaxRetries
  BY DEF Propose!TypeOK
<1>5. Propose!TypeOK'
  BY <1>1, <1>2, <1>3, <1>4 DEF Propose!TypeOK, PullRequests
<1>6. RefsInv'
  BY <1>1, RemoteFound DEF RefsInv, Propose!TypeOK, Propose!RemoteNames, Propose!Repos, PlanInv
<1>7. PlanInv'
  BY <1>1, RemoteFound, NamesAreRemotes DEF PlanInv, Propose!TypeOK, RefsInv, Propose!HasRemote, Propose!RemoteNames, Propose!Repos, Pushed
<1>8. TypedInv'
  BY DEF TypedInv, Propose!TypeOK, PlanInv
<1>9. Propose!SuccessMeansProposed'
  BY DEF Propose!SuccessMeansProposed, PlanInv, Propose!TypeOK, Propose!HasRemote, Propose!RemoteNames
<1> QED
  BY <1>5, <1>6, <1>7, <1>8, <1>9

LEMMA PushDoneKeeps ==
  ASSUME ProposeInv, Propose!PushDone
  PROVE  ProposeInv'
<1> USE ProposeAssumption DEF ProposeInv, Propose!PushDone, Propose!Ends, Propose!git, Propose!github, Propose!options, Propose!plan
<1>1. /\ remote' \in [Propose!RemoteNames -> Propose!Repos \cup {"none"}] /\ tracked' \in [Propose!RemoteNames -> 0 .. MaxCommits]
      /\ branchAt' \in [Propose!Repos -> 0 .. MaxCommits] /\ commit' \in 1 .. MaxCommits
      /\ headRepo' \in Propose!Repos \cup {"none"}
  BY RemoteFound, NamesAreRemotes DEF Propose!TypeOK, PlanInv, Propose!RemoteNames, Propose!Repos
<1>2. \A m, n \in Propose!RemoteNames : m # n /\ remote'[m] = remote'[n] => remote'[n] = "none"
  BY DEF Propose!TypeOK, PlanInv, Propose!RemoteNames, Propose!HasRemote
<1>3. /\ resolved' \subseteq Propose!RemoteNames /\ pushRemote' \in Propose!RemoteNames \cup {"none"}
      /\ {forked', canPush', saved', survey', typed'} \subseteq BOOLEAN
      /\ proposed' \in PullRequests
  BY RemoteFound DEF Propose!TypeOK, PlanInv, Propose!RemoteNames, Propose!Metadata, PullRequests
<1>4. /\ pc' \in {"idle", "context", "find", "survey", "confirm", "fork", "rename", "add", "resolve",
                 "push", "push_done", "submit", "metadata", "ok", "shown", "cancelled", "error"}
      /\ doing' \in {"none", "pr_create", "repo_fork"} /\ how' \in {"matched", "pushed", "forked", "skipped"}
      /\ count' \in 0 .. MaxCommands /\ tries' \in 0 .. MaxRetries
  BY DEF Propose!TypeOK
<1>5. Propose!TypeOK'
  BY <1>1, <1>2, <1>3, <1>4 DEF Propose!TypeOK, PullRequests
<1>6. RefsInv'
  BY <1>1, RemoteFound DEF RefsInv, Propose!TypeOK, Propose!RemoteNames, Propose!Repos, PlanInv
<1>7. PlanInv'
  BY <1>1, RemoteFound, NamesAreRemotes DEF PlanInv, Propose!TypeOK, RefsInv, Propose!HasRemote, Propose!RemoteNames, Propose!Repos, Pushed
<1>8. TypedInv'
  BY DEF TypedInv, Propose!TypeOK, PlanInv
<1>9. Propose!SuccessMeansProposed'
  BY DEF Propose!SuccessMeansProposed, PlanInv, Propose!TypeOK, Propose!HasRemote, Propose!RemoteNames
<1> QED
  BY <1>5, <1>6, <1>7, <1>8, <1>9

LEMMA CreatePullRequestKeeps ==
  ASSUME ProposeInv, Propose!CreatePullRequest
  PROVE  ProposeInv'
<1> USE ProposeAssumption DEF ProposeInv, Propose!CreatePullRequest, Propose!Ends, Propose!git, Propose!github, Propose!options, Propose!plan, Propose!Created, Propose!CanCreate
<1>1. /\ remote' \in [Propose!RemoteNames -> Propose!Repos \cup {"none"}] /\ tracked' \in [Propose!RemoteNames -> 0 .. MaxCommits]
      /\ branchAt' \in [Propose!Repos -> 0 .. MaxCommits] /\ commit' \in 1 .. MaxCommits
      /\ headRepo' \in Propose!Repos \cup {"none"}
  BY RemoteFound, NamesAreRemotes DEF Propose!TypeOK, PlanInv, Propose!RemoteNames, Propose!Repos
<1>2. \A m, n \in Propose!RemoteNames : m # n /\ remote'[m] = remote'[n] => remote'[n] = "none"
  BY DEF Propose!TypeOK, PlanInv, Propose!RemoteNames, Propose!HasRemote
<1>3. /\ resolved' \subseteq Propose!RemoteNames /\ pushRemote' \in Propose!RemoteNames \cup {"none"}
      /\ {forked', canPush', saved', survey', typed'} \subseteq BOOLEAN
      /\ proposed' \in PullRequests
  <2>1. CASE UNCHANGED proposed
    BY <2>1 DEF Propose!TypeOK, PullRequests
  <2>2. CASE Propose!Created
    <3>1. PICK wanted \in {{}, Propose!Metadata} :
            proposed' = [open |-> TRUE, from |-> headRepo, commit |-> branchAt[headRepo], lacks |-> wanted]
      BY <2>2 DEF Propose!Created
    <3>2. headRepo \in Propose!Repos /\ branchAt[headRepo] \in 0 .. MaxCommits
      BY DEF PlanInv, Propose!TypeOK
    <3>3. proposed' \in PullRequests
      BY <3>1, <3>2 DEF PullRequests
    <3> QED
      BY <3>3 DEF Propose!TypeOK
  <2> QED
    BY <2>1, <2>2
<1>4. /\ pc' \in {"idle", "context", "find", "survey", "confirm", "fork", "rename", "add", "resolve",
                 "push", "push_done", "submit", "metadata", "ok", "shown", "cancelled", "error"}
      /\ doing' \in {"none", "pr_create", "repo_fork"} /\ how' \in {"matched", "pushed", "forked", "skipped"}
      /\ count' \in 0 .. MaxCommands /\ tries' \in 0 .. MaxRetries
  BY DEF Propose!TypeOK
<1>5. Propose!TypeOK'
  BY <1>1, <1>2, <1>3, <1>4 DEF Propose!TypeOK, PullRequests
<1>6. RefsInv'
  BY <1>1, RemoteFound DEF RefsInv, Propose!TypeOK, Propose!RemoteNames, Propose!Repos, PlanInv
<1>7. PlanInv'
  BY <1>1, RemoteFound, NamesAreRemotes DEF PlanInv, Propose!TypeOK, RefsInv, Propose!HasRemote, Propose!RemoteNames, Propose!Repos, Pushed
<1>8. TypedInv'
  BY DEF TypedInv, Propose!TypeOK, PlanInv
<1>9. Propose!SuccessMeansProposed'
  BY DEF Propose!SuccessMeansProposed, PlanInv, Propose!TypeOK, Propose!HasRemote, Propose!RemoteNames
<1> QED
  BY <1>5, <1>6, <1>7, <1>8, <1>9

LEMMA AddMetadataKeeps ==
  ASSUME ProposeInv, Propose!AddMetadata
  PROVE  ProposeInv'
<1> USE ProposeAssumption DEF ProposeInv, Propose!AddMetadata, Propose!Ends, Propose!git, Propose!github, Propose!options, Propose!plan
<1>1. /\ remote' \in [Propose!RemoteNames -> Propose!Repos \cup {"none"}] /\ tracked' \in [Propose!RemoteNames -> 0 .. MaxCommits]
      /\ branchAt' \in [Propose!Repos -> 0 .. MaxCommits] /\ commit' \in 1 .. MaxCommits
      /\ headRepo' \in Propose!Repos \cup {"none"}
  BY RemoteFound, NamesAreRemotes DEF Propose!TypeOK, PlanInv, Propose!RemoteNames, Propose!Repos
<1>2. \A m, n \in Propose!RemoteNames : m # n /\ remote'[m] = remote'[n] => remote'[n] = "none"
  BY DEF Propose!TypeOK, PlanInv, Propose!RemoteNames, Propose!HasRemote
<1>3. /\ resolved' \subseteq Propose!RemoteNames /\ pushRemote' \in Propose!RemoteNames \cup {"none"}
      /\ {forked', canPush', saved', survey', typed'} \subseteq BOOLEAN
      /\ proposed' \in PullRequests
  BY RemoteFound DEF Propose!TypeOK, PlanInv, Propose!RemoteNames, Propose!Metadata, PullRequests
<1>4. /\ pc' \in {"idle", "context", "find", "survey", "confirm", "fork", "rename", "add", "resolve",
                 "push", "push_done", "submit", "metadata", "ok", "shown", "cancelled", "error"}
      /\ doing' \in {"none", "pr_create", "repo_fork"} /\ how' \in {"matched", "pushed", "forked", "skipped"}
      /\ count' \in 0 .. MaxCommands /\ tries' \in 0 .. MaxRetries
  BY DEF Propose!TypeOK
<1>5. Propose!TypeOK'
  BY <1>1, <1>2, <1>3, <1>4 DEF Propose!TypeOK, PullRequests
<1>6. RefsInv'
  BY <1>1, RemoteFound DEF RefsInv, Propose!TypeOK, Propose!RemoteNames, Propose!Repos, PlanInv
<1>7. PlanInv'
  BY <1>1, RemoteFound, NamesAreRemotes DEF PlanInv, Propose!TypeOK, RefsInv, Propose!HasRemote, Propose!RemoteNames, Propose!Repos, Pushed
<1>8. TypedInv'
  BY DEF TypedInv, Propose!TypeOK, PlanInv
<1>9. Propose!SuccessMeansProposed'
  BY DEF Propose!SuccessMeansProposed, PlanInv, Propose!TypeOK, Propose!HasRemote, Propose!RemoteNames
<1> QED
  BY <1>5, <1>6, <1>7, <1>8, <1>9

LEMMA BeginForkKeeps ==
  ASSUME ProposeInv, Propose!BeginFork
  PROVE  ProposeInv'
<1> USE ProposeAssumption DEF ProposeInv, Propose!BeginFork, Propose!Ends, Propose!git, Propose!github, Propose!options, Propose!plan
<1>1. /\ remote' \in [Propose!RemoteNames -> Propose!Repos \cup {"none"}] /\ tracked' \in [Propose!RemoteNames -> 0 .. MaxCommits]
      /\ branchAt' \in [Propose!Repos -> 0 .. MaxCommits] /\ commit' \in 1 .. MaxCommits
      /\ headRepo' \in Propose!Repos \cup {"none"}
  BY RemoteFound, NamesAreRemotes DEF Propose!TypeOK, PlanInv, Propose!RemoteNames, Propose!Repos
<1>2. \A m, n \in Propose!RemoteNames : m # n /\ remote'[m] = remote'[n] => remote'[n] = "none"
  BY DEF Propose!TypeOK, PlanInv, Propose!RemoteNames, Propose!HasRemote
<1>3. /\ resolved' \subseteq Propose!RemoteNames /\ pushRemote' \in Propose!RemoteNames \cup {"none"}
      /\ {forked', canPush', saved', survey', typed'} \subseteq BOOLEAN
      /\ proposed' \in PullRequests
  BY RemoteFound DEF Propose!TypeOK, PlanInv, Propose!RemoteNames, Propose!Metadata, PullRequests
<1>4. /\ pc' \in {"idle", "context", "find", "survey", "confirm", "fork", "rename", "add", "resolve",
                 "push", "push_done", "submit", "metadata", "ok", "shown", "cancelled", "error"}
      /\ doing' \in {"none", "pr_create", "repo_fork"} /\ how' \in {"matched", "pushed", "forked", "skipped"}
      /\ count' \in 0 .. MaxCommands /\ tries' \in 0 .. MaxRetries
  BY DEF Propose!TypeOK
<1>5. Propose!TypeOK'
  BY <1>1, <1>2, <1>3, <1>4 DEF Propose!TypeOK, PullRequests
<1>6. RefsInv'
  BY <1>1, RemoteFound DEF RefsInv, Propose!TypeOK, Propose!RemoteNames, Propose!Repos, PlanInv
<1>7. PlanInv'
  <2>1. ~survey /\ pc' = "fork" /\ doing' = "repo_fork" /\ headRepo' = "fork" /\ how' = "forked" /\ survey' = survey
    BY DEF PlanInv, TypedInv
  <2> QED
    BY <2>1 DEF PlanInv, Propose!Repos
<1>8. TypedInv'
  BY DEF TypedInv, Propose!TypeOK, PlanInv
<1>9. Propose!SuccessMeansProposed'
  BY DEF Propose!SuccessMeansProposed, PlanInv, Propose!TypeOK, Propose!HasRemote, Propose!RemoteNames
<1> QED
  BY <1>5, <1>6, <1>7, <1>8, <1>9

LEMMA ExitKeeps ==
  ASSUME ProposeInv, Propose!Exit
  PROVE  ProposeInv'
<1> USE ProposeAssumption DEF ProposeInv, Propose!Exit, Propose!Ends, Propose!git, Propose!github, Propose!options, Propose!plan, Propose!Gone, Propose!NoRequest
<1>1. /\ remote' \in [Propose!RemoteNames -> Propose!Repos \cup {"none"}] /\ tracked' \in [Propose!RemoteNames -> 0 .. MaxCommits]
      /\ branchAt' \in [Propose!Repos -> 0 .. MaxCommits] /\ commit' \in 1 .. MaxCommits
      /\ headRepo' \in Propose!Repos \cup {"none"}
  BY RemoteFound, NamesAreRemotes DEF Propose!TypeOK, PlanInv, Propose!RemoteNames, Propose!Repos
<1>2. \A m, n \in Propose!RemoteNames : m # n /\ remote'[m] = remote'[n] => remote'[n] = "none"
  BY DEF Propose!TypeOK, PlanInv, Propose!RemoteNames, Propose!HasRemote
<1>3. /\ resolved' \subseteq Propose!RemoteNames /\ pushRemote' \in Propose!RemoteNames \cup {"none"}
      /\ {forked', canPush', saved', survey', typed'} \subseteq BOOLEAN
      /\ proposed' \in PullRequests
  <2>1. proposed' \in PullRequests
    <3>1. Propose!NoRequest \in PullRequests
      BY DEF PullRequests, Propose!NoRequest
    <3>2. [open |-> TRUE, from |-> proposed.from, commit |-> 0, lacks |-> {}] \in PullRequests
      BY DEF Propose!TypeOK, PullRequests
    <3>3. proposed' \in {Propose!NoRequest, [open |-> TRUE, from |-> proposed.from, commit |-> 0, lacks |-> {}]}
      BY DEF Propose!NoRequest
    <3> QED
      BY <3>1, <3>2, <3>3
  <2> QED
    BY <2>1 DEF Propose!TypeOK
<1>4. /\ pc' \in {"idle", "context", "find", "survey", "confirm", "fork", "rename", "add", "resolve",
                 "push", "push_done", "submit", "metadata", "ok", "shown", "cancelled", "error"}
      /\ doing' \in {"none", "pr_create", "repo_fork"} /\ how' \in {"matched", "pushed", "forked", "skipped"}
      /\ count' \in 0 .. MaxCommands /\ tries' \in 0 .. MaxRetries
  BY DEF Propose!TypeOK
<1>5. Propose!TypeOK'
  BY <1>1, <1>2, <1>3, <1>4 DEF Propose!TypeOK, PullRequests
<1>6. RefsInv'
  BY <1>1, RemoteFound DEF RefsInv, Propose!TypeOK, Propose!RemoteNames, Propose!Repos, PlanInv
<1>7. PlanInv'
  BY <1>1, RemoteFound, NamesAreRemotes DEF PlanInv, Propose!TypeOK, RefsInv, Propose!HasRemote, Propose!RemoteNames, Propose!Repos, Pushed
<1>8. TypedInv'
  BY DEF TypedInv, Propose!TypeOK, PlanInv
<1>9. Propose!SuccessMeansProposed'
  BY DEF Propose!SuccessMeansProposed, PlanInv, Propose!TypeOK, Propose!HasRemote, Propose!RemoteNames
<1> QED
  BY <1>5, <1>6, <1>7, <1>8, <1>9

LEMMA ProposeKilledKeeps ==
  ASSUME ProposeInv, Propose!Killed
  PROVE  ProposeInv'
<1> USE ProposeAssumption DEF ProposeInv, Propose!Killed, Propose!Ends, Propose!git, Propose!github, Propose!options, Propose!plan, Propose!Gone, Propose!NoRequest
<1>1. /\ remote' \in [Propose!RemoteNames -> Propose!Repos \cup {"none"}] /\ tracked' \in [Propose!RemoteNames -> 0 .. MaxCommits]
      /\ branchAt' \in [Propose!Repos -> 0 .. MaxCommits] /\ commit' \in 1 .. MaxCommits
      /\ headRepo' \in Propose!Repos \cup {"none"}
  BY RemoteFound, NamesAreRemotes DEF Propose!TypeOK, PlanInv, Propose!RemoteNames, Propose!Repos
<1>2. \A m, n \in Propose!RemoteNames : m # n /\ remote'[m] = remote'[n] => remote'[n] = "none"
  BY DEF Propose!TypeOK, PlanInv, Propose!RemoteNames, Propose!HasRemote
<1>3. /\ resolved' \subseteq Propose!RemoteNames /\ pushRemote' \in Propose!RemoteNames \cup {"none"}
      /\ {forked', canPush', saved', survey', typed'} \subseteq BOOLEAN
      /\ proposed' \in PullRequests
  <2>1. proposed' \in PullRequests
    <3>1. Propose!NoRequest \in PullRequests
      BY DEF PullRequests, Propose!NoRequest
    <3>2. [open |-> TRUE, from |-> proposed.from, commit |-> 0, lacks |-> {}] \in PullRequests
      BY DEF Propose!TypeOK, PullRequests
    <3>3. proposed' \in {Propose!NoRequest, [open |-> TRUE, from |-> proposed.from, commit |-> 0, lacks |-> {}]}
      BY DEF Propose!NoRequest
    <3> QED
      BY <3>1, <3>2, <3>3
  <2> QED
    BY <2>1 DEF Propose!TypeOK
<1>4. /\ pc' \in {"idle", "context", "find", "survey", "confirm", "fork", "rename", "add", "resolve",
                 "push", "push_done", "submit", "metadata", "ok", "shown", "cancelled", "error"}
      /\ doing' \in {"none", "pr_create", "repo_fork"} /\ how' \in {"matched", "pushed", "forked", "skipped"}
      /\ count' \in 0 .. MaxCommands /\ tries' \in 0 .. MaxRetries
  BY DEF Propose!TypeOK
<1>5. Propose!TypeOK'
  BY <1>1, <1>2, <1>3, <1>4 DEF Propose!TypeOK, PullRequests
<1>6. RefsInv'
  BY <1>1, RemoteFound DEF RefsInv, Propose!TypeOK, Propose!RemoteNames, Propose!Repos, PlanInv
<1>7. PlanInv'
  BY <1>1, RemoteFound, NamesAreRemotes DEF PlanInv, Propose!TypeOK, RefsInv, Propose!HasRemote, Propose!RemoteNames, Propose!Repos, Pushed
<1>8. TypedInv'
  BY DEF TypedInv, Propose!TypeOK, PlanInv
<1>9. Propose!SuccessMeansProposed'
  BY DEF Propose!SuccessMeansProposed, PlanInv, Propose!TypeOK, Propose!HasRemote, Propose!RemoteNames
<1> QED
  BY <1>5, <1>6, <1>7, <1>8, <1>9

LEMMA UserWorkKeeps ==
  ASSUME ProposeInv, Propose!Work
  PROVE  ProposeInv'
<1> USE ProposeAssumption DEF ProposeInv, Propose!Work, Propose!Ends, Propose!git, Propose!github, Propose!options, Propose!plan
<1>1. /\ remote' \in [Propose!RemoteNames -> Propose!Repos \cup {"none"}] /\ tracked' \in [Propose!RemoteNames -> 0 .. MaxCommits]
      /\ branchAt' \in [Propose!Repos -> 0 .. MaxCommits] /\ commit' \in 1 .. MaxCommits
      /\ headRepo' \in Propose!Repos \cup {"none"}
  BY RemoteFound, NamesAreRemotes DEF Propose!TypeOK, PlanInv, Propose!RemoteNames, Propose!Repos
<1>2. \A m, n \in Propose!RemoteNames : m # n /\ remote'[m] = remote'[n] => remote'[n] = "none"
  BY DEF Propose!TypeOK, PlanInv, Propose!RemoteNames, Propose!HasRemote
<1>3. /\ resolved' \subseteq Propose!RemoteNames /\ pushRemote' \in Propose!RemoteNames \cup {"none"}
      /\ {forked', canPush', saved', survey', typed'} \subseteq BOOLEAN
      /\ proposed' \in PullRequests
  BY RemoteFound DEF Propose!TypeOK, PlanInv, Propose!RemoteNames, Propose!Metadata, PullRequests
<1>4. /\ pc' \in {"idle", "context", "find", "survey", "confirm", "fork", "rename", "add", "resolve",
                 "push", "push_done", "submit", "metadata", "ok", "shown", "cancelled", "error"}
      /\ doing' \in {"none", "pr_create", "repo_fork"} /\ how' \in {"matched", "pushed", "forked", "skipped"}
      /\ count' \in 0 .. MaxCommands /\ tries' \in 0 .. MaxRetries
  BY DEF Propose!TypeOK
<1>5. Propose!TypeOK'
  BY <1>1, <1>2, <1>3, <1>4 DEF Propose!TypeOK, PullRequests
<1>6. RefsInv'
  BY <1>1, RemoteFound DEF RefsInv, Propose!TypeOK, Propose!RemoteNames, Propose!Repos, PlanInv
<1>7. PlanInv'
  BY <1>1, RemoteFound, NamesAreRemotes DEF PlanInv, Propose!TypeOK, RefsInv, Propose!HasRemote, Propose!RemoteNames, Propose!Repos, Pushed
<1>8. TypedInv'
  BY DEF TypedInv, Propose!TypeOK, PlanInv
<1>9. Propose!SuccessMeansProposed'
  BY DEF Propose!SuccessMeansProposed, PlanInv, Propose!TypeOK, Propose!HasRemote, Propose!RemoteNames
<1> QED
  BY <1>5, <1>6, <1>7, <1>8, <1>9

LEMMA CloseKeeps ==
  ASSUME ProposeInv, Propose!Close
  PROVE  ProposeInv'
<1> USE ProposeAssumption DEF ProposeInv, Propose!Close, Propose!Ends, Propose!git, Propose!github, Propose!options, Propose!plan
<1>1. /\ remote' \in [Propose!RemoteNames -> Propose!Repos \cup {"none"}] /\ tracked' \in [Propose!RemoteNames -> 0 .. MaxCommits]
      /\ branchAt' \in [Propose!Repos -> 0 .. MaxCommits] /\ commit' \in 1 .. MaxCommits
      /\ headRepo' \in Propose!Repos \cup {"none"}
  <2>1. branchAt' \in [Propose!Repos -> 0 .. MaxCommits]
    <3>1. branchAt \in [Propose!Repos -> 0 .. MaxCommits] /\ 0 \in 0 .. MaxCommits
      BY DEF Propose!TypeOK
    <3>2. PICK f : f = proposed.from
      OBVIOUS
    <3>3. branchAt' = [branchAt EXCEPT ![f] = 0]
      BY <3>2
    <3> HIDE DEF Propose!Close, ProposeInv
    <3> QED
      BY <3>1, <3>3
  <2> QED
    BY <2>1 DEF Propose!TypeOK
<1>2. \A m, n \in Propose!RemoteNames : m # n /\ remote'[m] = remote'[n] => remote'[n] = "none"
  <2> HIDE DEF Propose!Close
  <2>1. branchAt \in [Propose!Repos -> 0 .. MaxCommits] /\ 0 \in 0 .. MaxCommits
    BY DEF Propose!TypeOK
  <2>2. branchAt' \in [Propose!Repos -> 0 .. MaxCommits]
    BY <2>1 DEF Propose!Close
  <2> QED
    BY <2>2 DEF Propose!Close, Propose!TypeOK
<1>3. /\ resolved' \subseteq Propose!RemoteNames /\ pushRemote' \in Propose!RemoteNames \cup {"none"}
      /\ {forked', canPush', saved', survey', typed'} \subseteq BOOLEAN
      /\ proposed' \in PullRequests
  BY RemoteFound DEF Propose!TypeOK, PlanInv, Propose!RemoteNames, Propose!Metadata, PullRequests
<1>4. /\ pc' \in {"idle", "context", "find", "survey", "confirm", "fork", "rename", "add", "resolve",
                 "push", "push_done", "submit", "metadata", "ok", "shown", "cancelled", "error"}
      /\ doing' \in {"none", "pr_create", "repo_fork"} /\ how' \in {"matched", "pushed", "forked", "skipped"}
      /\ count' \in 0 .. MaxCommands /\ tries' \in 0 .. MaxRetries
  BY DEF Propose!TypeOK
<1>5. Propose!TypeOK'
  BY <1>1, <1>2, <1>3, <1>4 DEF Propose!TypeOK, PullRequests
<1>6. RefsInv'
  BY <1>1, RemoteFound DEF RefsInv, Propose!TypeOK, Propose!RemoteNames, Propose!Repos, PlanInv
<1>7. PlanInv'
  BY <1>1, RemoteFound, NamesAreRemotes DEF PlanInv, Propose!TypeOK, RefsInv, Propose!HasRemote, Propose!RemoteNames, Propose!Repos, Pushed
<1>8. TypedInv'
  BY DEF TypedInv, Propose!TypeOK, PlanInv
<1>9. Propose!SuccessMeansProposed'
  BY DEF Propose!SuccessMeansProposed, PlanInv, Propose!TypeOK, Propose!HasRemote, Propose!RemoteNames
<1> QED
  BY <1>5, <1>6, <1>7, <1>8, <1>9

LEMMA ProposeInit == Propose!Init => ProposeInv
<1> SUFFICES ASSUME Propose!Init PROVE ProposeInv
  OBVIOUS
<1> USE ProposeAssumption DEF Propose!Init
<1>1. Propose!NoRequest \in PullRequests
  BY DEF Propose!NoRequest, PullRequests
<1>2. resolved \subseteq Propose!RemoteNames
  <2>1. Propose!HasRemote("base")
    BY DEF Propose!HasRemote, Propose!RemoteNames
  <2> QED
    BY <2>1, RemoteFound DEF Propose!Repos
<1>3. Propose!TypeOK
  <2>1. remote \in [Propose!RemoteNames -> Propose!Repos \cup {"none"}]
        /\ \A m, n \in Propose!RemoteNames : m # n /\ remote[m] = remote[n] => remote[n] = "none"
    OBVIOUS
  <2>2. /\ tracked \in [Propose!RemoteNames -> 0 .. MaxCommits] /\ commit \in 1 .. MaxCommits
        /\ branchAt \in [Propose!Repos -> 0 .. MaxCommits] /\ proposed \in PullRequests
        /\ {forked, canPush, saved, survey, typed} \subseteq BOOLEAN
    <3>1. /\ tracked = [n \in Propose!RemoteNames |-> 0] /\ commit = 1
          /\ branchAt = [r \in Propose!Repos |-> 0] /\ proposed \in PullRequests
          /\ {forked, canPush, saved, survey, typed} \subseteq BOOLEAN
      BY <1>1
    <3> HIDE DEF Propose!Init
    <3> QED
      BY <3>1
  <2>3. /\ pushRemote = "none" /\ pc = "idle" /\ count = 0 /\ doing = "none"
        /\ headRepo = "none" /\ how = "skipped" /\ tries = 0
    OBVIOUS
  <2> HIDE DEF Propose!Init
  <2> QED
    BY <1>2, <2>1, <2>2, <2>3 DEF Propose!TypeOK, PullRequests
<1>4. RefsInv /\ PlanInv /\ TypedInv /\ Propose!SuccessMeansProposed
  BY DEF RefsInv, PlanInv, TypedInv, Propose!SuccessMeansProposed
<1> QED
  BY <1>3, <1>4 DEF ProposeInv

LEMMA ProposeStutters ==
  ASSUME ProposeInv, UNCHANGED Propose!vars
  PROVE  ProposeInv'
<1>1. UNCHANGED <<remote, resolved, pushRemote, tracked, commit, branchAt, forked, canPush, proposed,
                  count, doing, survey, headRepo, how, saved, pc, typed, tries>>
  BY DEF Propose!vars, Propose!git, Propose!github, Propose!options, Propose!plan
<1>2. Propose!TypeOK' /\ RefsInv' /\ TypedInv'
  BY <1>1 DEF ProposeInv, Propose!TypeOK, RefsInv, TypedInv
<1>3. PlanInv' /\ Propose!SuccessMeansProposed'
  BY <1>1 DEF ProposeInv, PlanInv, Propose!HasRemote, Pushed, Propose!SuccessMeansProposed
<1> QED
  BY <1>2, <1>3 DEF ProposeInv

LEMMA ProposeNext == ProposeInv /\ [Propose!Next]_(Propose!vars) => ProposeInv'
<1> SUFFICES ASSUME ProposeInv, [Propose!Next]_(Propose!vars) PROVE ProposeInv'
  OBVIOUS
<1>1. CASE Propose!Command
  BY <1>1, ProposeBeginKeeps, NewCreateContextKeeps, FindExistingKeeps, SurveyKeeps, ConfirmKeeps, ForkRepoKeeps,
     RenameOriginKeeps, AddRemoteKeeps, SetRemoteResolutionKeeps, PushKeeps, PushDoneKeeps,
     CreatePullRequestKeeps, AddMetadataKeeps, BeginForkKeeps, ExitKeeps DEF Propose!Command
<1> QED
  BY <1>1, ProposeKilledKeeps, UserWorkKeeps, CloseKeeps, ProposeStutters DEF Propose!Next

LEMMA ProposeProperties == ProposeInv => Propose!TypeOK /\ Propose!SuccessMeansProposed
BY DEF ProposeInv

LEMMA ProposeKeepsExisting == ProposeInv /\ [Propose!Next]_(Propose!vars) => Propose!KeepsExisting
<1> SUFFICES ASSUME ProposeInv, [Propose!Next]_(Propose!vars), NEW m \in Propose!RemoteNames, remote[m] # "none"
             PROVE  \E n \in Propose!RemoteNames : remote'[n] = remote[m] /\ tracked'[n] >= tracked[m]
  BY DEF Propose!KeepsExisting
<1> USE ProposeAssumption DEF ProposeInv, Propose!TypeOK, RefsInv
<1>1. tracked[m] \in Nat /\ tracked[m] <= commit /\ commit \in Nat
  OBVIOUS
<1>2. CASE UNCHANGED <<remote, tracked>>
  BY <1>1, <1>2
<1>3. CASE Propose!RenameOrigin /\ remote' # remote
  <2>1. /\ remote["upstream"] = "none" /\ remote' = Propose!Moved(remote, "none") /\ tracked' = Propose!Moved(tracked, 0)
    BY <1>3 DEF Propose!RenameOrigin, Propose!git
  <2>2. CASE m = "origin"
    <3>1. remote'["upstream"] = remote[m] /\ tracked'["upstream"] = tracked[m]
      BY <2>1, <2>2 DEF Propose!Moved, Propose!RemoteNames
    <3> QED
      BY <1>1, <3>1 DEF Propose!RemoteNames
  <2>3. CASE m # "origin"
    <3>1. remote'[m] = remote[m] /\ tracked'[m] = tracked[m]
      BY <2>1, <2>3 DEF Propose!Moved, Propose!RemoteNames
    <3> QED
      BY <1>1, <3>1
  <2> QED
    BY <2>2, <2>3
<1>4. CASE Propose!AddRemote
  <2>1. remote'[m] = remote[m] /\ tracked'[m] = tracked[m]
    BY <1>4 DEF Propose!AddRemote, Propose!NewName, Propose!git, Propose!RemoteNames
  <2> QED
    BY <1>1, <2>1
<1>5. CASE Propose!Push
  BY <1>1, <1>5 DEF Propose!Push
<1>6. CASE Propose!Work
  BY <1>1, <1>6 DEF Propose!Work
<1>7. Propose!RenameOrigin /\ remote' = remote => UNCHANGED tracked
  <2>1. Propose!Renames => remote["origin"] # "none" /\ Propose!Moved(remote, "none")["origin"] = "none"
    BY DEF Propose!Renames, Propose!Moved, Propose!RemoteNames
  <2> QED
    BY <2>1 DEF Propose!RenameOrigin, Propose!git
<1> QED
  BY <1>2, <1>3, <1>4, <1>5, <1>6, <1>7 DEF Propose!Next, Propose!Command, Propose!Begin, Propose!NewCreateContext, Propose!FindExisting, Propose!Survey, Propose!Confirm,
     Propose!ForkRepo, Propose!SetRemoteResolution, Propose!PushDone, Propose!CreatePullRequest, Propose!AddMetadata, Propose!BeginFork, Propose!Exit, Propose!Killed, Propose!Gone,
     Propose!Close, Propose!git, Propose!vars

LEMMA ProposeInputKept == ProposeInv /\ [Propose!Next]_(Propose!vars) => Propose!InputKept
<1> SUFFICES ASSUME ProposeInv, [Propose!Next]_(Propose!vars), pc # "error", pc' = "error", survey, typed,
                    pc \notin {"submit", "metadata"}
             PROVE  saved'
  BY DEF Propose!InputKept
<1>1. doing = "pr_create" /\ pc \notin {"idle", "context", "find", "survey"}
  BY DEF ProposeInv, TypedInv
<1>2. (Propose!Ends("error", TRUE) => saved') /\ survey = TRUE
  BY <1>1 DEF Propose!Ends, ProposeInv, Propose!TypeOK
<1>3. CASE Propose!Confirm \/ Propose!ForkRepo \/ Propose!RenameOrigin
  BY <1>1, <1>2, <1>3 DEF Propose!Confirm, Propose!ForkRepo, Propose!RenameOrigin, Propose!FirstOfPush
<1>4. CASE Propose!AddRemote \/ Propose!SetRemoteResolution
  BY <1>1, <1>2, <1>4 DEF Propose!AddRemote, Propose!SetRemoteResolution
<1>5. CASE Propose!Push
  BY <1>1, <1>2, <1>5 DEF Propose!Push, Propose!PushFails
<1>6. CASE UNCHANGED pc
  BY <1>6
<1> QED
  BY <1>1, <1>3, <1>4, <1>5, <1>6 DEF Propose!Next, Propose!Command, Propose!Begin, Propose!NewCreateContext, Propose!FindExisting, Propose!Survey,
     Propose!PushDone, Propose!CreatePullRequest, Propose!AddMetadata, Propose!BeginFork, Propose!Exit, Propose!Killed, Propose!Gone, Propose!Work, Propose!Close, Propose!vars

-----------------------------------------------------------------------------
(* gh run watch. *)

LEMMA WatchAssumption == MaxJobs \in Nat
BY CommandsAssumption DEF CommandsAssumption

\* What has been answered stays true: of jobs that have completed, and of a
\* run that has.
AnsweredInv ==
  /\ conclusion # "none" => \A j \in Watch!Jobs : jobStatus[j] = "completed"
  /\ answered # "none" => answered = conclusion
  /\ pc = "select" => jobs = <<>>
  /\ pc \in {"annotations", "sleep"} => jobs \in [Watch!Jobs -> Watch!Statuses]
  /\ jobs \in [Watch!Jobs -> Watch!Statuses] =>
       \A j \in Watch!Jobs : jobs[j] = "completed" => jobStatus[j] = "completed"
  /\ answered # "none" /\ jobs \in [Watch!Jobs -> Watch!Statuses] =>
       pc = "jobs" \/ pc = "error" \/ \A j \in Watch!Jobs : jobs[j] = "completed"

\* A job whose annotations may still grow when a job after it is cached is
\* remembered.
EarlyInv ==
  jobs \in [Watch!Jobs -> Watch!Statuses] =>
    \A j \in Watch!Jobs, k \in Watch!Jobs :
      j <= k /\ jobs[j] # "completed" /\ jobs[k] # "in_progress" => j \in early

\* The cache of a job has the annotations of the jobs before it, too.
CacheInv ==
  \A k \in Watch!Jobs : Watch!Cached(k) =>
    /\ annotationCache[k] \subseteq annotated
    /\ \A j \in Watch!Jobs : j <= k /\ j \notin early =>
         jobStatus[j] = "completed" /\ (j \in annotated => j \in annotationCache[k])

\* So have the annotations at hand, of the jobs that have been seen to.
ReadInv ==
  /\ forbidden => looked = MaxJobs
  /\ annotations \subseteq annotated
  /\ jobs \in [Watch!Jobs -> Watch!Statuses] /\ ~forbidden =>
       \A j \in Watch!Jobs : j <= looked /\ j \notin early /\ jobs[j] = "completed" =>
         (j \in annotated => j \in annotations)

WatchEnd ==
  pc \in {"ok", "failed"} =>
    /\ pc = "failed" <=> exitStatus /\ conclusion = "failure"
    /\ Watch!Watched => looked = MaxJobs /\ answered # "none"

WatchInv == Watch!TypeOK /\ AnsweredInv /\ EarlyInv /\ CacheInv /\ ReadInv /\ WatchEnd

LEMMA WatchInit == Watch!Init => WatchInv
<1> SUFFICES ASSUME Watch!Init PROVE WatchInv OBVIOUS
<1> USE DEF Watch!Init
<1>1. Watch!TypeOK
  <2>1. looked \in 0 .. MaxJobs BY WatchAssumption
  <2> QED BY <2>1 DEF Watch!TypeOK, Watch!Statuses
<1>2. \A j \in Watch!Jobs : ~Watch!Cached(j) BY DEF Watch!Cached
<1>3. AnsweredInv /\ EarlyInv
  <2>1. jobs \in [Watch!Jobs -> Watch!Statuses] => Watch!Jobs = {} OBVIOUS
  <2> QED BY <2>1 DEF AnsweredInv, EarlyInv
<1>4. CacheInv BY <1>2 DEF CacheInv
<1>5. ReadInv BY WatchAssumption DEF ReadInv, Watch!Jobs
<1>6. WatchEnd BY DEF WatchEnd, Watch!Watched
<1> QED BY <1>1, <1>3, <1>4, <1>5, <1>6 DEF WatchInv

\* A job that has completed gets no more annotations.
LEMMA OtherJobsKeep == ASSUME WatchInv, Watch!Others PROVE WatchInv'
<1> USE DEF WatchInv
<1>1. UNCHANGED <<pc, exitStatus, answered, jobs, looked, annotations, annotationCache,
                  forbidden, early>>
  BY DEF Watch!Others, Watch!read
<1>2. CASE Watch!Conclude
  <2> USE <1>1, <1>2 DEF Watch!Conclude
  <2>1. Watch!TypeOK' BY DEF Watch!TypeOK
  <2>2. AnsweredInv' BY DEF AnsweredInv
  <2>3. EarlyInv' /\ CacheInv' /\ ReadInv' BY DEF EarlyInv, CacheInv, ReadInv, Watch!Cached
  <2>4. WatchEnd' BY DEF WatchEnd, Watch!Watched, Watch!Others, Watch!Ended
  <2> QED BY <2>1, <2>2, <2>3, <2>4
<1>3. CASE \E j \in Watch!Jobs : Watch!Job(j)
  <2> PICK j \in Watch!Jobs : Watch!Job(j) BY <1>3
  <2>1. /\ UNCHANGED conclusion
        /\ jobStatus[j] # "completed" /\ jobStatus' \in [Watch!Jobs -> Watch!Statuses]
        /\ \A k \in Watch!Jobs : jobStatus[k] = "completed" => jobStatus'[k] = "completed"
    BY DEF Watch!Job, Watch!TypeOK, Watch!Statuses
  <2>2. annotated' \in {annotated, annotated \cup {j}} BY DEF Watch!Job
  <2>3. Watch!TypeOK' BY <1>1, <2>1, <2>2 DEF Watch!TypeOK
  <2>4. AnsweredInv' BY <1>1, <2>1 DEF AnsweredInv
  <2>5. EarlyInv' BY <1>1 DEF EarlyInv
  <2>6. CacheInv' BY <1>1, <2>1, <2>2 DEF CacheInv, Watch!Cached
  <2>7. ReadInv' BY <1>1, <2>1, <2>2 DEF ReadInv, AnsweredInv
  <2>8. WatchEnd' BY <1>1, <2>1 DEF WatchEnd, Watch!Watched
  <2> QED BY <2>3, <2>4, <2>5, <2>6, <2>7, <2>8
<1> QED BY <1>2, <1>3 DEF Watch!Others

LEMMA RunStepsKeep ==
  ASSUME WatchInv, Watch!Select \/ Watch!GetRun \/ Watch!Render \/ Watch!Sleep \/ Watch!RequestFails
  PROVE  WatchInv'
<1> USE DEF WatchInv
<1>1. /\ UNCHANGED <<jobStatus, annotated, conclusion, exitStatus, jobs, looked, annotations,
                     annotationCache, forbidden, early>>
      /\ answered' = answered \/ (pc' = "jobs" /\ answered' = conclusion)
      /\ pc' \in {"run", "jobs", "sleep", "ok", "failed", "error"}
  <2>1. CASE Watch!Select BY <2>1 DEF Watch!Select, Watch!actions, Watch!read, Watch!ExitOf
  <2>2. CASE Watch!GetRun BY <2>2 DEF Watch!GetRun, Watch!actions
  <2>3. CASE Watch!Render BY <2>3 DEF Watch!Render, Watch!actions, Watch!read, Watch!ExitOf
  <2>4. CASE Watch!Sleep \/ Watch!RequestFails BY <2>4 DEF Watch!Sleep, Watch!RequestFails, Watch!actions, Watch!read
  <2> QED BY <2>1, <2>2, <2>3, <2>4
<1>2. Watch!TypeOK' BY <1>1 DEF Watch!TypeOK
<1>3. /\ pc' = "sleep" => pc = "annotations" /\ answered = "none"
      /\ pc' = "jobs" => pc = "run"
      /\ pc # "error" /\ (pc # "jobs" \/ pc' = "error")
  <2>1. CASE Watch!Select BY <2>1 DEF Watch!Select, Watch!ExitOf
  <2>2. CASE Watch!Render BY <2>2 DEF Watch!Render, Watch!ExitOf
  <2>3. CASE Watch!GetRun \/ Watch!Sleep \/ Watch!RequestFails BY <2>3 DEF Watch!GetRun, Watch!Sleep, Watch!RequestFails, Watch!NextJob
  <2> QED BY <2>1, <2>2, <2>3
<1>4. AnsweredInv'
  <2>1. CASE answered' = answered /\ pc' # "jobs"
    <3>1. pc = "jobs" => pc' = "error" BY <1>3
    <3>2. jobs' = jobs /\ jobStatus' = jobStatus /\ conclusion' = conclusion BY <1>1
    <3> QED BY <1>1, <1>3, <2>1, <3>1, <3>2 DEF AnsweredInv
  <2>2. CASE pc' = "jobs" /\ answered' \in {answered, conclusion}
    BY <1>1, <2>2 DEF AnsweredInv
  <2> QED BY <1>1, <2>1, <2>2
<1>5. EarlyInv' /\ CacheInv' /\ ReadInv' BY <1>1 DEF EarlyInv, CacheInv, ReadInv, Watch!Cached
<1>6. WatchEnd'
  <2>1. CASE Watch!Select
    <3>1. jobs = <<>> BY <2>1 DEF Watch!Select, AnsweredInv
    <3> QED BY <1>1, <2>1, <3>1 DEF Watch!Select, WatchEnd, Watch!Watched, Watch!ExitOf, Watch!TypeOK
  <2>2. CASE Watch!Render
    BY <1>1, <2>2 DEF Watch!Render, WatchEnd, Watch!Watched, Watch!ExitOf, Watch!TypeOK, AnsweredInv
  <2>3. CASE Watch!GetRun \/ Watch!Sleep \/ Watch!RequestFails
    BY <2>3 DEF Watch!GetRun, Watch!Sleep, Watch!RequestFails, WatchEnd
  <2> QED BY <2>1, <2>2, <2>3
<1> QED BY <1>2, <1>4, <1>5, <1>6

\* The new list of jobs: those that have not completed and come before one
\* whose annotations will be cached are remembered.
LEMMA GetJobsKeeps == ASSUME WatchInv, Watch!GetJobs PROVE WatchInv'
<1> USE DEF WatchInv
<1>1. /\ pc = "jobs" /\ pc' = "annotations" /\ jobs' = jobStatus
      /\ looked' = 0 /\ annotations' = {} /\ forbidden' = FALSE
      /\ early \subseteq early' /\ early' \subseteq early \cup Watch!Jobs
      /\ UNCHANGED <<jobStatus, annotated, conclusion, exitStatus, answered, annotationCache>>
  BY DEF Watch!GetJobs, Watch!actions
<1>2. Watch!TypeOK'
  <2>1. looked' \in 0 .. MaxJobs BY <1>1, WatchAssumption
  <2> QED BY <1>1, <2>1 DEF Watch!TypeOK
<1>3. AnsweredInv' BY <1>1 DEF AnsweredInv, Watch!TypeOK
<1>4. EarlyInv'
  <2> SUFFICES ASSUME NEW j \in Watch!Jobs, NEW k \in Watch!Jobs, j <= k,
                      jobStatus[j] # "completed", jobStatus[k] # "in_progress"
               PROVE  j \in early'
    BY <1>1 DEF EarlyInv
  <2>1. k \in j .. MaxJobs BY WatchAssumption DEF Watch!Jobs
  <2> QED BY <2>1 DEF Watch!GetJobs
<1>5. CacheInv' BY <1>1 DEF CacheInv, Watch!Cached
<1>6. ReadInv' BY <1>1, WatchAssumption DEF ReadInv, Watch!Jobs
<1>7. WatchEnd' BY <1>1 DEF WatchEnd
<1> QED BY <1>2, <1>3, <1>4, <1>5, <1>6, <1>7

LEMMA LookingKeeps ==
  ASSUME WatchInv, NEW i \in Watch!Jobs, Watch!TakeCached(i) \/ Watch!GetAnnotations(i) \/ Watch!Forbidden(i)
  PROVE  WatchInv'
<1> USE DEF WatchInv
<1>1. /\ pc = "annotations" /\ i = looked + 1 /\ jobs \in [Watch!Jobs -> Watch!Statuses]
      /\ UNCHANGED <<jobStatus, annotated, conclusion, pc, exitStatus, answered, jobs, early>>
  BY DEF Watch!TakeCached, Watch!GetAnnotations, Watch!Forbidden, Watch!NextJob, Watch!actions, AnsweredInv
<1>2. i \in Nat /\ i <= MaxJobs /\ MaxJobs \in Nat BY WatchAssumption DEF Watch!Jobs
<1>3. AnsweredInv' /\ EarlyInv' /\ WatchEnd' BY <1>1 DEF AnsweredInv, EarlyInv, WatchEnd
<1>4. (\A j \in Watch!Jobs : j \in Nat) /\ ~forbidden
  BY <1>1, <1>2 DEF Watch!Jobs, ReadInv, Watch!TypeOK
<1>5. CASE Watch!TakeCached(i)
  <2> USE <1>5 DEF Watch!TakeCached
  <2>1. /\ Watch!Cached(i) /\ annotations' = annotationCache[i] /\ looked' = i
        /\ UNCHANGED <<annotationCache, forbidden>>
    OBVIOUS
  <2>2. annotationCache[i] \subseteq annotated BY <2>1 DEF CacheInv
  <2>3. Watch!TypeOK'
    <3>1. looked' \in 0 .. MaxJobs BY <1>2, <2>1
    <3>2. annotations' \subseteq Watch!Jobs BY <2>1, <2>2 DEF Watch!TypeOK
    <3> QED BY <1>1, <2>1, <3>1, <3>2 DEF Watch!TypeOK
  <2>4. CacheInv' BY <1>1, <2>1 DEF CacheInv, Watch!Cached
  <2>5. ReadInv' BY <1>1, <1>4, <2>1, <2>2 DEF ReadInv, CacheInv
  <2> QED BY <1>3, <2>3, <2>4, <2>5
<1>6. CASE Watch!GetAnnotations(i)
  <2>1. /\ annotations' = annotations \cup (annotated \cap {i}) /\ looked' = i
        /\ UNCHANGED forbidden
        /\ \/ UNCHANGED annotationCache
           \/ /\ jobs[i] # "in_progress"
              /\ annotationCache' = [annotationCache EXCEPT ![i] = annotations']
    BY <1>6 DEF Watch!GetAnnotations
  <2>2. annotations' \subseteq annotated BY <2>1 DEF ReadInv
  <2>3. Watch!TypeOK'
    <3>1. looked' \in 0 .. MaxJobs BY <1>2, <2>1
    <3>2. annotations' \subseteq Watch!Jobs BY <2>2 DEF Watch!TypeOK
    <3>3. annotationCache' \in [Watch!Jobs -> {Watch!NotCached} \cup SUBSET Watch!Jobs]
      BY <2>1, <3>2 DEF Watch!TypeOK
    <3> QED BY <1>1, <2>1, <3>1, <3>2, <3>3 DEF Watch!TypeOK
  <2>4. ~forbidden =>
          \A j \in Watch!Jobs : j <= i /\ j \notin early /\ jobs[j] = "completed" =>
            (j \in annotated => j \in annotations')
    <3> SUFFICES ASSUME ~forbidden, NEW j \in Watch!Jobs, j <= i, j \notin early,
                        jobs[j] = "completed", j \in annotated
                 PROVE  j \in annotations'
      OBVIOUS
    <3>1. CASE j = i BY <2>1, <3>1
    <3>2. CASE j # i
      <4>1. j <= looked BY <1>1, <1>2, <1>4, <3>2 DEF Watch!TypeOK
      <4> QED BY <1>1, <2>1, <4>1 DEF ReadInv
    <3> QED BY <3>1, <3>2
  <2>5. ReadInv' BY <1>1, <1>4, <2>1, <2>2, <2>4 DEF ReadInv
  <2>6. CacheInv'
    <3>1. CASE UNCHANGED annotationCache BY <1>1, <3>1 DEF CacheInv, Watch!Cached
    <3>2. CASE jobs[i] # "in_progress" /\ annotationCache' = [annotationCache EXCEPT ![i] = annotations']
      <4>1. \A j \in Watch!Jobs : j <= i /\ j \notin early => jobs[j] = "completed"
        BY <1>1, <3>2 DEF EarlyInv
      <4>2. \A j \in Watch!Jobs : j <= i /\ j \notin early =>
              jobStatus[j] = "completed" /\ (j \in annotated => j \in annotations')
        BY <1>1, <2>4, <1>4, <4>1 DEF AnsweredInv
      <4>3. /\ annotationCache'[i] = annotations'
            /\ \A k \in Watch!Jobs : k # i => annotationCache'[k] = annotationCache[k]
        BY <3>2 DEF Watch!TypeOK
      <4> QED BY <1>1, <2>2, <4>2, <4>3 DEF CacheInv, Watch!Cached
    <3> QED BY <2>1, <3>1, <3>2
  <2> QED BY <1>3, <2>3, <2>5, <2>6
<1>7. CASE Watch!Forbidden(i)
  <2>1. /\ forbidden' = TRUE /\ looked' = MaxJobs
        /\ UNCHANGED <<annotations, annotationCache>>
    BY <1>7 DEF Watch!Forbidden
  <2>2. Watch!TypeOK'
    <3>1. looked' \in 0 .. MaxJobs BY <1>2, <2>1
    <3> QED BY <1>1, <2>1, <3>1 DEF Watch!TypeOK
  <2>3. CacheInv' /\ ReadInv' BY <1>1, <2>1 DEF CacheInv, ReadInv, Watch!Cached
  <2> QED BY <1>3, <2>2, <2>3
<1> QED BY <1>5, <1>6, <1>7

LEMMA WatchNext == WatchInv /\ [Watch!Next]_(Watch!vars) => WatchInv'
<1> SUFFICES ASSUME WatchInv, [Watch!Next]_(Watch!vars) PROVE WatchInv' OBVIOUS
<1>1. CASE UNCHANGED Watch!vars
  BY <1>1 DEF Watch!vars, Watch!actions, Watch!read, WatchInv, Watch!TypeOK, AnsweredInv, EarlyInv, CacheInv, ReadInv,
              WatchEnd, Watch!Watched, Watch!Cached
<1> QED BY <1>1, OtherJobsKeep, RunStepsKeep, GetJobsKeeps, LookingKeeps
        DEF Watch!Next, Watch!Command, Watch!Stop

LEMMA WatchProperties == WatchInv => Watch!TypeOK /\ Watch!SuccessMeansShown
<1> SUFFICES ASSUME WatchInv, pc \in {"ok", "failed"}, Watch!Watched
             PROVE  /\ \A j \in Watch!Jobs : jobs[j] = "completed"
                    /\ annotations \subseteq annotated
                    /\ forbidden \/ annotated \subseteq annotations \cup early
  BY DEF WatchInv, WatchEnd, Watch!SuccessMeansShown
<1> USE DEF WatchInv
<1>1. jobs \in [Watch!Jobs -> Watch!Statuses] /\ looked = MaxJobs /\ answered # "none"
  BY DEF Watch!TypeOK, Watch!Watched, WatchEnd
<1>2. \A j \in Watch!Jobs : jobs[j] = "completed" BY <1>1 DEF AnsweredInv
<1>3. \A j \in Watch!Jobs : j <= looked BY <1>1, WatchAssumption DEF Watch!Jobs
<1>4. annotated \subseteq Watch!Jobs BY DEF Watch!TypeOK
<1> QED BY <1>1, <1>2, <1>3, <1>4 DEF ReadInv

-----------------------------------------------------------------------------
(* gh release delete, and the two lookups of any release command. *)

LEMMA EraseAssumption == MaxReleases \in Nat \ {0}
BY CommandsAssumption DEF CommandsAssumption

EraseTypes ==
  /\ {made, release, found} \subseteq Nat /\ release <= made /\ found <= made
  /\ draft => release # 0
  /\ missed \in BOOLEAN
  /\ lookup \in [Erase!Lookups -> {"ask", "get", "found", "missing", "error"}]
  /\ number \in [Erase!Lookups -> Nat]
  /\ \A l \in Erase!Lookups : number[l] <= made

\* Without a gap, what neither lookup has seen so far is still to be seen by
\* the one that has not ended.
LookupInv ==
  pc \in {"find", "other"} /\ ~missed =>
    /\ release # 0
    /\ lookup["draft"] = "get" => number["draft"] = release
    /\ lookup["draft"] = "missing" => ~draft /\ lookup["published"] # "missing"
    /\ lookup["published"] = "missing" /\ lookup["draft"] = "ask" => draft

\* A release that was found has a number, and once deleted it never comes back:
\* the next release of the tag has another.
FoundInv ==
  /\ \A l \in Erase!Lookups : lookup[l] = "found" => number[l] # 0
  /\ pc \in {"confirm", "delete", "tag", "ok"} => found # 0
  /\ pc \in {"tag", "ok"} => release # found

MissedInv == pc = "missing" => missed

\* The rest of the types, and what is known when the tag is deleted.
EraseRest ==
  /\ tagOf \in 0 .. made /\ made \in 1 .. MaxReleases
  /\ {draft, cleanupTag} \subseteq BOOLEAN
  /\ pc \in {"find", "other", "drain", "confirm", "delete", "tag",
             "ok", "missing", "cancelled", "failed"}
  /\ pc = "tag" => cleanupTag

SearchInv == EraseTypes /\ LookupInv /\ FoundInv /\ MissedInv

EraseInv == SearchInv /\ EraseRest

LEMMA SearchInit == Erase!Init => SearchInv
<1> SUFFICES ASSUME Erase!Init PROVE SearchInv OBVIOUS
<1> USE DEF Erase!Init, Erase!Lookups
<1>1. EraseTypes BY DEF EraseTypes
<1>2. LookupInv BY DEF LookupInv
<1>3. FoundInv BY DEF FoundInv
<1>4. MissedInv BY DEF MissedInv
<1> QED BY <1>1, <1>2, <1>3, <1>4 DEF SearchInv

\* Whoever publishes between the two requests, or deletes, is remembered.
LEMMA OthersKeep ==
  ASSUME SearchInv, Erase!Others
  PROVE  SearchInv'
<1>0. UNCHANGED <<pc, lookup, number, found>> BY DEF Erase!Others
<1> USE <1>0 DEF SearchInv
<1>1. CASE Erase!Publish /\ missed' = (missed \/ (Erase!Answered("published") /\ lookup["draft"] = "ask"))
  <2> USE <1>1 DEF Erase!Publish
  <2>1. EraseTypes' BY DEF EraseTypes
  <2>2. LookupInv' BY DEF LookupInv, EraseTypes, Erase!Answered
  <2>3. FoundInv' BY DEF FoundInv
  <2>4. MissedInv' BY DEF MissedInv
  <2> QED BY <2>1, <2>2, <2>3, <2>4
<1>2. CASE Erase!Remove /\ missed' = TRUE
  <2> USE <1>2 DEF Erase!Remove
  <2>1. EraseTypes' BY DEF EraseTypes
  <2>2. LookupInv' BY DEF LookupInv
  <2>3. FoundInv' BY DEF FoundInv
  <2>4. MissedInv' BY DEF MissedInv
  <2> QED BY <2>1, <2>2, <2>3, <2>4
<1>3. CASE Erase!Make /\ UNCHANGED missed
  <2> USE <1>3 DEF Erase!Make
  <2>1. EraseTypes' BY DEF EraseTypes
  <2>2. LookupInv' BY DEF LookupInv
  <2>3. FoundInv' BY DEF FoundInv, EraseTypes
  <2>4. MissedInv' BY DEF MissedInv
  <2> QED BY <2>1, <2>2, <2>3, <2>4
<1> QED BY <1>1, <1>2, <1>3 DEF Erase!Others

LEMMA LookupsKeep ==
  ASSUME SearchInv,
         \/ Erase!AskPublished \/ Erase!AskDraft \/ Erase!GetDraft
         \/ \E l \in Erase!Lookups : Erase!LookFails(l)
  PROVE  SearchInv'
<1> USE DEF SearchInv
<1>1. CASE Erase!AskPublished
  <2> USE <1>1 DEF Erase!AskPublished, Erase!Found, Erase!github, Erase!Lookups
  <2>1. EraseTypes' BY DEF EraseTypes
  <2>2. LookupInv' BY DEF LookupInv, EraseTypes
  <2>3. FoundInv' BY DEF FoundInv, EraseTypes
  <2>4. MissedInv' BY DEF MissedInv
  <2> QED BY <2>1, <2>2, <2>3, <2>4
<1>2. CASE Erase!AskDraft
  <2> USE <1>2 DEF Erase!AskDraft, Erase!Found, Erase!github, Erase!Lookups
  <2>1. EraseTypes' BY DEF EraseTypes
  <2>2. LookupInv' BY DEF LookupInv, EraseTypes
  <2>3. FoundInv' BY DEF FoundInv, EraseTypes
  <2>4. MissedInv' BY DEF MissedInv
  <2> QED BY <2>1, <2>2, <2>3, <2>4
<1>3. CASE Erase!GetDraft
  <2> USE <1>3 DEF Erase!GetDraft, Erase!Found, Erase!github, Erase!Lookups
  <2>1. EraseTypes' BY DEF EraseTypes
  <2>2. LookupInv' BY DEF LookupInv, EraseTypes
  <2>3. FoundInv' BY DEF FoundInv, EraseTypes
  <2>4. MissedInv' BY DEF MissedInv
  <2> QED BY <2>1, <2>2, <2>3, <2>4
<1>4. CASE \E l \in Erase!Lookups : Erase!LookFails(l)
  <2> PICK l \in Erase!Lookups : Erase!LookFails(l) BY <1>4
  <2> USE DEF Erase!LookFails, Erase!github, Erase!Lookups
  <2>1. EraseTypes' BY DEF EraseTypes
  <2>2. LookupInv' BY DEF LookupInv, EraseTypes
  <2>3. FoundInv' BY DEF FoundInv, EraseTypes
  <2>4. MissedInv' BY DEF MissedInv
  <2> QED BY <2>1, <2>2, <2>3, <2>4
<1> QED BY <1>1, <1>2, <1>3, <1>4

\* What is received has been seen by a lookup; if both report "missing", the
\* invariant of the lookups says that there was a gap.
LEMMA ReceivesKeep ==
  ASSUME SearchInv,
         \/ \E l \in Erase!Lookups : Erase!Receive(l) \/ Erase!ReceiveOther(l)
         \/ Erase!Drain \/ Erase!Confirm \/ Erase!CannotDelete
  PROVE  SearchInv'
<1> USE DEF SearchInv, Erase!GoTo, Erase!github
<1>1. CASE \E l \in Erase!Lookups : Erase!Receive(l)
  <2> PICK l \in Erase!Lookups : Erase!Receive(l) BY <1>1
  <2> USE DEF Erase!Receive, Erase!Take
  <2>1. pc = "find" /\ pc' \in {"other", "drain"} OBVIOUS
  <2>2. EraseTypes' BY DEF EraseTypes
  <2>3. LookupInv' BY <2>1 DEF LookupInv
  <2>4. FoundInv' BY <2>1 DEF FoundInv
  <2>5. MissedInv' BY <2>1 DEF MissedInv
  <2> QED BY <2>2, <2>3, <2>4, <2>5
<1>2. CASE \E l \in Erase!Lookups : Erase!ReceiveOther(l)
  <2> PICK l \in Erase!Lookups : Erase!ReceiveOther(l) BY <1>2
  <2> USE DEF Erase!ReceiveOther, Erase!Take
  <2>1. /\ pc = "other" /\ pc' \in {"confirm", "missing", "failed"}
        /\ pc' = "confirm" => lookup[l] = "found"
        /\ pc' = "missing" => lookup[l] = "missing"
    BY DEF Erase!Answered
  <2>2. EraseTypes' BY DEF EraseTypes
  <2>3. LookupInv' BY <2>1 DEF LookupInv
  <2>4. FoundInv' BY <2>1 DEF FoundInv
  <2>5. MissedInv'
    BY <2>1 DEF MissedInv, LookupInv, EraseTypes, Erase!Lookups
  <2> QED BY <2>2, <2>3, <2>4, <2>5
<1>3. CASE Erase!Drain \/ Erase!Confirm \/ Erase!CannotDelete
  <2> USE <1>3 DEF Erase!Drain, Erase!Confirm, Erase!CannotDelete
  <2>1. EraseTypes' BY DEF EraseTypes
  <2>2. LookupInv' BY DEF LookupInv
  <2>3. FoundInv' BY DEF FoundInv
  <2>4. MissedInv' BY DEF MissedInv
  <2> QED BY <2>1, <2>2, <2>3, <2>4
<1> QED BY <1>1, <1>2, <1>3

LEMMA DeletionsKeep ==
  ASSUME SearchInv, Erase!Delete \/ Erase!DeleteTag
  PROVE  SearchInv'
<1> USE DEF SearchInv, Erase!Delete, Erase!DeleteTag, Erase!DeleteRelease
<1>1. EraseTypes' BY DEF EraseTypes
<1>2. LookupInv' BY DEF LookupInv
<1>3. FoundInv' BY DEF FoundInv
<1>4. MissedInv' BY DEF MissedInv
<1> QED BY <1>1, <1>2, <1>3, <1>4

LEMMA SearchNext ==
  SearchInv /\ [Erase!Next]_(Erase!vars) => SearchInv'
<1> SUFFICES ASSUME SearchInv, [Erase!Next]_(Erase!vars) PROVE SearchInv' OBVIOUS
<1>1. CASE Erase!Others BY <1>1, OthersKeep
<1>2. CASE Erase!Command
  BY <1>2, LookupsKeep, ReceivesKeep, DeletionsKeep DEF Erase!Command
<1>3. CASE UNCHANGED Erase!vars
  BY <1>3 DEF SearchInv, EraseTypes, LookupInv, FoundInv, MissedInv,
              Erase!vars, Erase!github
<1> QED BY <1>1, <1>2, <1>3 DEF Erase!Next, Erase!Stop

LEMMA EraseInit == Erase!Init => EraseInv
<1> SUFFICES ASSUME Erase!Init PROVE EraseInv OBVIOUS
<1>1. tagOf \in 0 .. made /\ made \in 1 .. MaxReleases BY EraseAssumption DEF Erase!Init
<1>2. EraseRest BY <1>1 DEF Erase!Init, EraseRest
<1> QED BY <1>2, SearchInit DEF EraseInv

LEMMA OtherReleasesKeep == ASSUME SearchInv, EraseRest, Erase!Others PROVE EraseRest'
<1> USE DEF EraseRest
<1>1. UNCHANGED <<pc, cleanupTag>> BY DEF Erase!Others
<1>2. CASE Erase!Publish
  <2>1. release \in 0 .. made BY DEF SearchInv, EraseTypes
  <2>2. tagOf' \in {tagOf, release} /\ UNCHANGED made /\ draft' \in BOOLEAN
    BY <1>2 DEF Erase!Publish, Erase!Tag
  <2> QED BY <1>1, <2>1, <2>2
<1>3. CASE Erase!Remove BY <1>1, <1>3 DEF Erase!Remove
<1>4. CASE Erase!Make
  <2>1. made < MaxReleases /\ made' = made + 1 /\ draft' \in BOOLEAN
        /\ tagOf' \in {tagOf, made + 1}
    BY <1>4 DEF Erase!Make, Erase!Tag
  <2>2. made' \in 1 .. MaxReleases /\ tagOf' \in 0 .. made' BY <2>1, EraseAssumption
  <2> QED BY <1>1, <2>1, <2>2
<1> QED BY <1>2, <1>3, <1>4 DEF Erase!Others

LEMMA EraseStepsKeep == ASSUME SearchInv, EraseRest, Erase!Command PROVE EraseRest'
<1> USE DEF EraseRest
<1>1. UNCHANGED <<made, cleanupTag>> /\ tagOf' \in {tagOf, 0} /\ draft' \in {draft, FALSE}
  BY Zenon DEF Erase!Command, Erase!AskPublished, Erase!AskDraft, Erase!GetDraft, Erase!LookFails, Erase!Found, Erase!Receive, Erase!ReceiveOther,
         Erase!Drain, Erase!Confirm, Erase!GoTo, Erase!Delete, Erase!DeleteRelease, Erase!DeleteTag, Erase!CannotDelete, Erase!github
<1>2. /\ pc' \in {pc, "find", "other", "drain", "confirm", "delete", "tag",
                  "ok", "missing", "cancelled", "failed"}
      /\ pc' = "tag" => pc = "tag" \/ cleanupTag
  <2>1. CASE UNCHANGED pc BY <2>1
  <2>2. CASE \E l \in Erase!Lookups : Erase!Receive(l)
    BY <2>2 DEF Erase!Receive, Erase!GoTo
  <2>3. CASE \E l \in Erase!Lookups : Erase!ReceiveOther(l)
    <3> PICK l \in Erase!Lookups : Erase!ReceiveOther(l) BY <2>3
    <3>1. lookup[l] \in {"found", "missing", "error"} BY DEF Erase!ReceiveOther, Erase!Answered
    <3> QED BY <3>1 DEF Erase!ReceiveOther, Erase!GoTo
  <2>4. CASE Erase!Drain \/ Erase!Confirm \/ Erase!CannotDelete BY <2>4 DEF Erase!Drain, Erase!Confirm, Erase!CannotDelete, Erase!GoTo
  <2>5. CASE Erase!Delete \/ Erase!DeleteTag BY <2>5 DEF Erase!Delete, Erase!DeleteRelease, Erase!DeleteTag
  <2> QED BY <2>1, <2>2, <2>3, <2>4, <2>5
          DEF Erase!Command, Erase!AskPublished, Erase!AskDraft, Erase!GetDraft, Erase!LookFails, Erase!Found
<1>3. made \in Nat /\ tagOf' \in 0 .. made' BY <1>1, EraseAssumption
<1> QED BY <1>1, <1>2, <1>3

LEMMA EraseNext == EraseInv /\ [Erase!Next]_(Erase!vars) => EraseInv'
<1> SUFFICES ASSUME EraseInv, [Erase!Next]_(Erase!vars) PROVE EraseInv' OBVIOUS
<1> USE DEF EraseInv
<1>1. SearchInv' BY SearchNext
<1>2. EraseRest'
  <2>1. CASE UNCHANGED Erase!vars BY <2>1 DEF Erase!vars, Erase!github, EraseRest
  <2> QED BY <2>1, OtherReleasesKeep, EraseStepsKeep DEF Erase!Next, Erase!Stop
<1> QED BY <1>1, <1>2

LEMMA EraseProperties == EraseInv => Erase!TypeOK /\ Erase!SuccessMeansDeleted /\ Erase!NotFoundIsTrue
<1> SUFFICES ASSUME EraseInv PROVE Erase!TypeOK /\ Erase!SuccessMeansDeleted /\ Erase!NotFoundIsTrue OBVIOUS
<1> USE DEF EraseInv, SearchInv
<1>1. Erase!SuccessMeansDeleted /\ Erase!NotFoundIsTrue
  BY DEF FoundInv, MissedInv, Erase!SuccessMeansDeleted, Erase!NotFoundIsTrue
<1>2. {release, tagOf, found} \subseteq 0 .. made BY DEF EraseTypes, EraseRest
<1>3. number \in [Erase!Lookups -> 0 .. made] BY DEF EraseTypes
<1>4. Erase!TypeOK BY <1>2, <1>3 DEF Erase!TypeOK, EraseTypes, EraseRest
<1> QED BY <1>1, <1>4

\* Only the deletions of gh change anything at GitHub while it goes on.
LEMMA EraseKeepsExisting == EraseInv /\ [Erase!Next]_(Erase!vars) => Erase!KeepsExisting
<1> SUFFICES ASSUME EraseInv, [Erase!Next]_(Erase!vars), pc' # pc
             PROVE  /\ release' # release => release = found
                    /\ tagOf' # tagOf => cleanupTag /\ release # found
  BY DEF Erase!KeepsExisting
<1>1. CASE Erase!Delete BY <1>1 DEF Erase!Delete, Erase!DeleteRelease
<1>2. CASE Erase!DeleteTag
  BY <1>2 DEF Erase!DeleteTag, EraseInv, SearchInv, FoundInv, EraseRest
<1>3. CASE UNCHANGED <<release, tagOf>> BY <1>3
<1> QED BY <1>1, <1>2, <1>3
        DEF Erase!Next, Erase!Others, Erase!Stop, Erase!vars, Erase!github, Erase!Command, Erase!AskPublished, Erase!AskDraft, Erase!GetDraft, Erase!LookFails,
            Erase!Found, Erase!Receive, Erase!ReceiveOther, Erase!Drain, Erase!Confirm, Erase!GoTo, Erase!CannotDelete

-----------------------------------------------------------------------------
(* gh issue edit and gh pr edit. *)

LEMMA EditAssumption == MaxChanges \in Nat
BY CommandsAssumption DEF CommandsAssumption

\* The requests that add and remove what was asked for.
AddRequest ==
  CASE field = "labels" -> "add"
    [] field = "projects" -> "items"
    [] field = "assignees" -> (IF actors THEN "replace" ELSE "fields")
    [] field = "reviewers" -> "request"

DropRequest ==
  CASE field = "labels" -> "remove"
    [] field = "projects" -> "items"
    [] field = "assignees" -> (IF actors THEN "replace" ELSE "fields")
    [] field = "reviewers" -> "withdraw"

Sendable ==
  CASE field = "labels" -> {"add", "remove"}
    [] field = "projects" -> {"items", "fields"}
    [] field = "assignees" -> (IF actors THEN {"replace", "fields"} ELSE {"fields"})
    [] field = "reviewers" -> {"fields", "request", "withdraw"}

\* Until the requests are sent, the issue has what was read, but for what
\* others have changed.
FreshInv ==
  /\ pc = "survey" => Edit!Interactive
  /\ pc \in {"fetch", "survey", "send"} =>
       has \subseteq listed \cup touched /\ listed \subseteq has \cup touched

\* With flags they say what the issue is to have.
ValueInv ==
  pc \in {"send", "wait", "ok"} /\ ~Edit!Interactive => value = (listed \cup add) \ drop

\* From then on it may have also what is to be added, and lack what is to be
\* removed.
SentInv ==
  pc \in {"wait", "ok"} =>
    /\ requests \subseteq Sendable
    /\ has \subseteq listed \cup touched \cup value \cup (IF field = "assignees" THEN {} ELSE Edit!Added)
    /\ listed \subseteq has \cup touched \cup Edit!Dropped

\* A request that has been served without an error has done its part.
ServedInv ==
  pc \in {"wait", "ok"} /\ ~errored =>
    /\ AddRequest \notin requests => Edit!Added \subseteq has \cup touched \cup drop
    /\ DropRequest \notin requests => Edit!Dropped \cap has \subseteq touched \cup add

EditEnd == pc = "ok" => requests = {} /\ ~errored

EditInv == Edit!TypeOK /\ FreshInv /\ ValueInv /\ SentInv /\ ServedInv /\ EditEnd

LEMMA EditedSets ==
  ASSUME EditInv, pc \in {"send", "wait"}
  PROVE  /\ value \cap Edit!Dropped = {} /\ listed \ value \subseteq Edit!Dropped
         /\ value \subseteq listed \cup Edit!Added /\ Edit!Added \subseteq value \cup drop
         /\ Edit!Added \cap Edit!Dropped \subseteq add \cap drop
         /\ Edit!Interactive => Edit!ToAdd = value
         /\ ~Edit!Interactive => Edit!ToAdd = Edit!Added
         /\ Edit!Added \subseteq Edit!ToAdd /\ Edit!ToAdd \subseteq value \cup Edit!Added
<1>1. CASE Edit!Interactive
  <2>1. Edit!Added = value \ listed /\ Edit!Dropped = listed \ value /\ Edit!ToAdd = value
    BY <1>1 DEF Edit!Added, Edit!Dropped, Edit!ToAdd
  <2> QED BY <1>1, <2>1
<1>2. CASE ~Edit!Interactive
  <2>1. Edit!Added = add /\ Edit!Dropped = drop /\ Edit!ToAdd = add /\ value = (listed \cup add) \ drop
    BY <1>2 DEF Edit!Added, Edit!Dropped, Edit!ToAdd, EditInv, ValueInv
  <2> QED BY <1>2, <2>1
<1> QED BY <1>1, <1>2

LEMMA EditInit == Edit!Init => EditInv
<1> SUFFICES ASSUME Edit!Init PROVE EditInv OBVIOUS
<1> USE DEF Edit!Init
<1>1. Edit!TypeOK
  <2>1. count \in 0 .. MaxChanges BY EditAssumption
  <2> QED BY <2>1 DEF Edit!TypeOK
<1>2. FreshInv /\ ValueInv /\ SentInv /\ ServedInv /\ EditEnd
  BY DEF FreshInv, ValueInv, SentInv, ServedInv, EditEnd
<1> QED BY <1>1, <1>2 DEF EditInv

\* What others change is remembered.
LEMMA OtherUsersKeep == ASSUME EditInv, Edit!Others PROVE EditInv'
<1> USE DEF EditInv
<1>1. /\ pc \notin {"ok", "failed"} /\ count < MaxChanges /\ count' = count + 1
      /\ UNCHANGED <<pc, field, actors, add, drop, listed, value, requests, errored>>
  BY DEF Edit!Others, Edit!asked, Edit!Ended
<1>2. PICK v \in Values :
        /\ has' = IF v \in has THEN has \ {v} ELSE has \cup {v}
        /\ touched' = IF pc = "find" THEN touched ELSE touched \cup {v}
  BY DEF Edit!Others
<1>3. has' \subseteq has \cup {v} /\ has \subseteq has' \cup {v} BY <1>2
<1>4. /\ Edit!Added' = Edit!Added /\ Edit!Dropped' = Edit!Dropped /\ (Edit!Interactive' <=> Edit!Interactive)
      /\ AddRequest' = AddRequest /\ DropRequest' = DropRequest /\ Sendable' = Sendable
  BY <1>1 DEF Edit!Added, Edit!Dropped, Edit!Interactive, AddRequest, DropRequest, Sendable
<1>5. Edit!TypeOK'
  <2>1. count' \in 0 .. MaxChanges BY <1>1, EditAssumption DEF Edit!TypeOK
  <2>2. has' \subseteq Values /\ touched' \subseteq Values BY <1>2, <1>3 DEF Edit!TypeOK
  <2> QED BY <1>1, <2>1, <2>2 DEF Edit!TypeOK
<1>6. FreshInv'
  <2>1. CASE pc = "find" BY <1>1, <1>2, <1>4, <2>1 DEF FreshInv
  <2>2. CASE pc # "find" BY <1>1, <1>2, <1>3, <1>4, <2>2 DEF FreshInv
  <2> QED BY <2>1, <2>2
<1>7. ValueInv' BY <1>1, <1>4 DEF ValueInv
<1>8. pc = "wait" => touched' = touched \cup {v} BY <1>2
<1>9. SentInv' BY <1>1, <1>3, <1>4, <1>8 DEF SentInv
<1>10. ServedInv' BY <1>1, <1>3, <1>4, <1>8 DEF ServedInv
<1>11. EditEnd' BY <1>1 DEF EditEnd
<1> QED BY <1>5, <1>6, <1>7, <1>9, <1>10, <1>11

LEMMA ReadingKeeps ==
  ASSUME EditInv, Edit!Find \/ Edit!Fetch \/ Edit!Select \/ Edit!LookFails
  PROVE  EditInv'
<1> USE DEF EditInv
<1>1. /\ pc \in {"find", "fetch", "survey"} /\ pc' \in {"fetch", "survey", "send", "failed"}
      /\ UNCHANGED <<has, count, touched, field, actors, add, drop, requests, errored>>
      /\ listed' \in {listed, has} /\ value' \subseteq Values
  <2>1. CASE Edit!Find BY <2>1 DEF Edit!Find, Edit!github, Edit!asked, Edit!TypeOK
  <2>2. CASE Edit!Fetch BY <2>2 DEF Edit!Fetch, Edit!github, Edit!asked, Edit!TypeOK
  <2>3. CASE Edit!Select BY <2>3 DEF Edit!Select, Edit!github, Edit!asked, Edit!TypeOK
  <2>4. CASE Edit!LookFails BY <2>4 DEF Edit!LookFails, Edit!github, Edit!asked, Edit!TypeOK
  <2> QED BY <2>1, <2>2, <2>3, <2>4
<1>2. Edit!TypeOK' BY <1>1 DEF Edit!TypeOK
<1>3. FreshInv'
  <2>1. CASE Edit!Find BY <1>1, <2>1 DEF Edit!Find, FreshInv
  <2>2. CASE Edit!Fetch \/ Edit!Select \/ Edit!LookFails
    BY <1>1, <2>2 DEF Edit!Fetch, Edit!Select, Edit!LookFails, FreshInv, Edit!Interactive
  <2> QED BY <2>1, <2>2
<1>4. ValueInv'
  <2>1. pc' = "send" => \/ Edit!Fetch /\ ~Edit!Interactive
                        \/ Edit!Select
    BY DEF Edit!Find, Edit!Fetch, Edit!Select, Edit!LookFails
  <2>2. Edit!Select => Edit!Interactive \/ pc = "survey" BY DEF Edit!Select
  <2>3. Edit!Interactive' <=> Edit!Interactive BY <1>1 DEF Edit!Interactive
  <2>4. pc = "survey" => Edit!Interactive BY DEF FreshInv
  <2> QED BY <1>1, <2>1, <2>2, <2>3, <2>4 DEF ValueInv, Edit!Fetch
<1>5. SentInv' /\ ServedInv' /\ EditEnd' BY <1>1 DEF SentInv, ServedInv, EditEnd
<1> QED BY <1>2, <1>3, <1>4, <1>5

LEMMA SendKeeps == ASSUME EditInv, Edit!Send PROVE EditInv'
<1> USE DEF EditInv
<1>1. /\ pc = "send" /\ pc' = "wait" /\ requests' = Edit!RequestsOf
      /\ UNCHANGED <<has, count, touched, field, actors, add, drop, listed, value, errored>>
  BY DEF Edit!Send, Edit!github, Edit!asked
<1>2. /\ Edit!Added' = Edit!Added /\ Edit!Dropped' = Edit!Dropped /\ (Edit!Interactive' <=> Edit!Interactive)
      /\ AddRequest' = AddRequest /\ DropRequest' = DropRequest /\ Sendable' = Sendable
  BY <1>1 DEF Edit!Added, Edit!Dropped, Edit!Interactive, AddRequest, DropRequest, Sendable
<1>3. has \subseteq listed \cup touched /\ listed \subseteq has \cup touched
  BY <1>1 DEF FreshInv
<1>4. field \in Edit!Fields BY DEF Edit!TypeOK
<1>5. Edit!RequestsOf \subseteq Sendable
  BY <1>4 DEF Edit!RequestsOf, Sendable, Edit!Fields
<1>6. Edit!TypeOK'
  <2>1. Sendable \subseteq {"add", "remove", "items", "replace", "fields", "request", "withdraw"}
    BY <1>4 DEF Sendable, Edit!Fields
  <2> QED BY <1>1, <1>5, <2>1 DEF Edit!TypeOK
<1>7. FreshInv' /\ ValueInv' /\ EditEnd' BY <1>1, <1>2 DEF FreshInv, ValueInv, EditEnd
<1>8. SentInv' BY <1>1, <1>2, <1>3, <1>5 DEF SentInv
<1>9. AddRequest \notin Edit!RequestsOf => Edit!Added \subseteq drop
  <2>1. CASE field = "labels"
    <3>1. "add" \notin Edit!RequestsOf => Edit!ToAdd = {} BY <2>1 DEF Edit!RequestsOf
    <3> QED BY <1>1, <2>1, <3>1, EditedSets DEF AddRequest
  <2>2. CASE field = "reviewers"
    <3>1. "request" \notin Edit!RequestsOf => value = {} BY <2>2 DEF Edit!RequestsOf
    <3> QED BY <1>1, <2>2, <3>1, EditedSets DEF AddRequest
  <2>3. CASE field \in {"projects", "assignees"}
    BY <2>3 DEF AddRequest, Edit!RequestsOf
  <2> QED BY <1>4, <2>1, <2>2, <2>3 DEF Edit!Fields
<1>10. DropRequest \notin Edit!RequestsOf => Edit!Dropped \cap has \subseteq touched
  <2>1. CASE field = "labels"
    <3>1. "remove" \notin Edit!RequestsOf => Edit!Dropped = {} BY <2>1 DEF Edit!RequestsOf
    <3> QED BY <2>1, <3>1 DEF DropRequest
  <2>2. CASE field = "reviewers"
    <3>1. "withdraw" \notin Edit!RequestsOf => listed \ value = {} BY <2>2 DEF Edit!RequestsOf
    <3>2. value \cap Edit!Dropped = {} BY <1>1, EditedSets
    <3> QED BY <1>3, <2>2, <3>1, <3>2 DEF DropRequest
  <2>3. CASE field \in {"projects", "assignees"}
    BY <2>3 DEF DropRequest, Edit!RequestsOf
  <2> QED BY <1>4, <2>1, <2>2, <2>3 DEF Edit!Fields
<1>11. ServedInv' BY <1>1, <1>2, <1>9, <1>10 DEF ServedInv
<1> QED BY <1>6, <1>7, <1>8, <1>11

\* What a request changes is what was asked for, or what others have changed.
LEMMA Effect ==
  ASSUME EditInv, pc = "wait", NEW r \in requests
  PROVE  /\ has \ Edit!After(r) \subseteq Edit!Dropped \cup (IF field = "assignees" THEN touched ELSE {})
         /\ Edit!After(r) \ has \subseteq Edit!Added \cup
              CASE field = "projects" -> {}
                [] field = "labels"   -> IF Edit!Interactive THEN touched ELSE {}
                [] field \in {"assignees", "reviewers"} -> touched
         /\ Edit!After(r) \subseteq Values
         /\ Edit!After(r) \subseteq has \cup value \cup (IF field = "assignees" THEN {} ELSE Edit!Added)
<1> USE DEF EditInv
<1>1. field \in Edit!Fields /\ r \in Sendable BY DEF Edit!TypeOK, SentInv
<1>2. /\ value \cap Edit!Dropped = {} /\ listed \ value \subseteq Edit!Dropped
      /\ value \subseteq listed \cup Edit!Added /\ (Edit!Interactive => Edit!ToAdd = value)
      /\ (~Edit!Interactive => Edit!ToAdd = Edit!Added)
  BY EditedSets
<1>3. /\ has \subseteq listed \cup touched \cup value \cup (IF field = "assignees" THEN {} ELSE Edit!Added)
      /\ listed \subseteq has \cup touched \cup Edit!Dropped
  BY DEF SentInv
<1>4. /\ has \subseteq Values /\ value \subseteq Values /\ Edit!Added \subseteq Values
      /\ Edit!ToAdd \subseteq Values
  BY DEF Edit!TypeOK, Edit!Added, Edit!ToAdd
<1>5. value \ has \subseteq Edit!Added \cup touched BY <1>2, <1>3
<1>6. CASE field = "labels"
  <2>1. r \in {"add", "remove"} BY <1>1, <1>6 DEF Sendable
  <2>2. CASE r = "add"
    <3>1. Edit!After(r) = has \cup Edit!ToAdd BY <2>2 DEF Edit!After
    <3>2. CASE Edit!Interactive BY <1>2, <1>4, <1>5, <1>6, <3>1, <3>2
    <3>3. CASE ~Edit!Interactive BY <1>2, <1>4, <1>6, <3>1, <3>3
    <3> QED BY <3>2, <3>3
  <2>3. CASE r = "remove"
    <3>1. Edit!After(r) = has \ Edit!Dropped BY <2>3 DEF Edit!After
    <3> QED BY <1>4, <1>6, <3>1
  <2> QED BY <2>1, <2>2, <2>3
<1>7. CASE field = "projects"
  <2>1. r \in {"items", "fields"} BY <1>1, <1>7 DEF Sendable
  <2>2. CASE r = "items"
    <3>1. Edit!After(r) = (has \cup Edit!Added) \ Edit!Items BY <2>2 DEF Edit!After
    <3>2. Edit!Items \subseteq Edit!Dropped BY DEF Edit!Items
    <3> QED BY <1>4, <1>7, <3>1, <3>2
  <2>3. CASE r = "fields"
    <3>1. Edit!After(r) = has BY <1>7, <2>3 DEF Edit!After
    <3> QED BY <1>4, <1>7, <3>1
  <2> QED BY <2>1, <2>2, <2>3
<1>8. CASE field = "assignees"
  <2>1. Edit!After(r) \in {has, value} BY <1>1, <1>8 DEF Edit!After, Sendable
  <2>2. has \ value \subseteq Edit!Dropped \cup touched BY <1>2, <1>3, <1>8
  <2> QED BY <1>4, <1>5, <1>8, <2>1, <2>2
<1>9. CASE field = "reviewers"
  <2>1. r \in {"fields", "request", "withdraw"} BY <1>1, <1>9 DEF Sendable
  <2>2. Edit!After(r) \in {has, has \cup value, has \ (listed \ value)}
    BY <1>9, <2>1 DEF Edit!After
  <2> QED BY <1>2, <1>4, <1>5, <1>9, <2>2
<1> QED BY <1>1, <1>6, <1>7, <1>8, <1>9 DEF Edit!Fields

\* The request that adds, or removes, has done so.
LEMMA Fulfilled ==
  ASSUME EditInv, pc = "wait", NEW r \in requests, r = "items" => Edit!Dropped \subseteq Edit!Items
  PROVE  /\ r = AddRequest => Edit!Added \subseteq Edit!After(r) \cup drop
         /\ r = DropRequest => Edit!Dropped \cap Edit!After(r) \subseteq touched \cup add
<1> USE DEF EditInv
<1>1. field \in Edit!Fields /\ r \in Sendable BY DEF Edit!TypeOK, SentInv
<1>2. /\ value \cap Edit!Dropped = {} /\ Edit!Added \subseteq value \cup drop
      /\ Edit!Added \cap Edit!Dropped \subseteq add \cap drop /\ Edit!Added \subseteq Edit!ToAdd
  BY EditedSets
<1>3. CASE field = "labels"
  <2>1. AddRequest = "add" /\ DropRequest = "remove" BY <1>3 DEF AddRequest, DropRequest
  <2>2. r = "add" => Edit!After(r) = has \cup Edit!ToAdd BY DEF Edit!After
  <2>3. r = "remove" => Edit!After(r) = has \ Edit!Dropped BY DEF Edit!After
  <2> QED BY <1>2, <2>1, <2>2, <2>3
<1>4. CASE field = "projects"
  <2>1. AddRequest = "items" /\ DropRequest = "items" BY <1>4 DEF AddRequest, DropRequest
  <2>2. r = "items" => Edit!After(r) = (has \cup Edit!Added) \ Edit!Items BY DEF Edit!After
  <2>3. Edit!Items \subseteq Edit!Dropped BY DEF Edit!Items
  <2> QED BY <1>2, <2>1, <2>2, <2>3
<1>5. CASE field = "assignees"
  <2>1. r = AddRequest \/ r = DropRequest => Edit!After(r) = value
    BY <1>5 DEF AddRequest, DropRequest, Edit!After
  <2> QED BY <1>2, <2>1
<1>6. CASE field = "reviewers"
  <2>1. AddRequest = "request" /\ DropRequest = "withdraw" BY <1>6 DEF AddRequest, DropRequest
  <2>2. r = "request" => Edit!After(r) = has \cup value BY DEF Edit!After
  <2>3. r = "withdraw" => Edit!After(r) = has \ (listed \ value) BY DEF Edit!After
  <2>4. has \subseteq listed \cup touched \cup value \cup Edit!Added BY <1>6 DEF SentInv
  <2> QED BY <1>2, <2>1, <2>2, <2>3, <2>4
<1> QED BY <1>1, <1>3, <1>4, <1>5, <1>6 DEF Edit!Fields

LEMMA ServeKeeps ==
  ASSUME EditInv, NEW r \in requests, Edit!Serve(r) \/ Edit!Refuse(r)
  PROVE  EditInv'
<1> USE DEF EditInv
<1>1. /\ pc = "wait" /\ pc' = "wait"
      /\ UNCHANGED <<count, touched, field, actors, add, drop, listed, value>>
      /\ has' \in {has, Edit!After(r)}
      /\ errored' \in BOOLEAN
      /\ ~errored' => /\ ~errored /\ has' = Edit!After(r)
                      /\ r = "items" => Edit!Dropped \subseteq Edit!Items
  <2>1. CASE Edit!Serve(r) BY <2>1 DEF Edit!Serve, Edit!asked, Edit!TypeOK
  <2>2. CASE Edit!Refuse(r) BY <2>2 DEF Edit!Refuse, Edit!github, Edit!asked
  <2> QED BY <2>1, <2>2
<1>2. /\ requests' = requests \ {r} \/ (r = "replace" /\ requests' = {"fields"})
  BY DEF Edit!Serve, Edit!Refuse
<1>3. /\ Edit!Added' = Edit!Added /\ Edit!Dropped' = Edit!Dropped /\ (Edit!Interactive' <=> Edit!Interactive)
      /\ AddRequest' = AddRequest /\ DropRequest' = DropRequest /\ Sendable' = Sendable
  BY <1>1 DEF Edit!Added, Edit!Dropped, Edit!Interactive, AddRequest, DropRequest, Sendable
<1>4. field \in Edit!Fields /\ r \in Sendable /\ requests \subseteq Sendable BY <1>1 DEF Edit!TypeOK, SentInv
<1>5. r = "replace" => /\ field = "assignees" /\ actors /\ Sendable = {"replace", "fields"}
                       /\ AddRequest = "replace" /\ DropRequest = "replace"
  BY <1>4 DEF Sendable, Edit!Fields, AddRequest, DropRequest
<1>6. requests' \subseteq Sendable BY <1>2, <1>4, <1>5
<1>7. /\ has \ has' \subseteq Edit!Dropped \cup touched
      /\ has' \ has \subseteq Edit!Added \cup touched
      /\ has' \subseteq Values
      /\ has' \subseteq has \cup value \cup (IF field = "assignees" THEN {} ELSE Edit!Added)
  <2>1. CASE has' = has BY <2>1 DEF Edit!TypeOK
  <2>2. CASE has' = Edit!After(r)
    <3>1. /\ has \ has' \subseteq Edit!Dropped \cup (IF field = "assignees" THEN touched ELSE {})
          /\ has' \ has \subseteq Edit!Added \cup
              CASE field = "projects" -> {}
                [] field = "labels"   -> IF Edit!Interactive THEN touched ELSE {}
                [] field \in {"assignees", "reviewers"} -> touched
          /\ has' \subseteq Values
          /\ has' \subseteq has \cup value \cup (IF field = "assignees" THEN {} ELSE Edit!Added)
      BY <1>1, <2>2, Effect
    <3>2. has \ has' \subseteq Edit!Dropped \cup touched BY <3>1
    <3>3. has' \ has \subseteq Edit!Added \cup touched BY <1>4, <3>1 DEF Edit!Fields
    <3> QED BY <3>1, <3>2, <3>3
  <2> QED BY <1>1, <2>1, <2>2
<1>8. Edit!TypeOK'
  <2>1. requests' \subseteq {"add", "remove", "items", "replace", "fields", "request", "withdraw"}
    BY <1>2 DEF Edit!TypeOK
  <2> QED BY <1>1, <1>7, <2>1 DEF Edit!TypeOK
<1>9. FreshInv' /\ ValueInv' /\ EditEnd' BY <1>1, <1>3 DEF FreshInv, ValueInv, EditEnd
<1>10. SentInv'
  <2>1. /\ has \subseteq listed \cup touched \cup value \cup (IF field = "assignees" THEN {} ELSE Edit!Added)
        /\ listed \subseteq has \cup touched \cup Edit!Dropped
    BY <1>1 DEF SentInv
  <2>2. has' \subseteq listed \cup touched \cup value \cup (IF field = "assignees" THEN {} ELSE Edit!Added)
    BY <1>7, <2>1
  <2>3. listed \subseteq has' \cup touched \cup Edit!Dropped BY <1>7, <2>1
  <2> QED BY <1>1, <1>3, <1>6, <2>2, <2>3 DEF SentInv
<1>11. ServedInv'
  <2> SUFFICES ASSUME ~errored'
               PROVE  /\ AddRequest \notin requests' => Edit!Added \subseteq has' \cup touched \cup drop
                      /\ DropRequest \notin requests' => Edit!Dropped \cap has' \subseteq touched \cup add
    BY <1>1, <1>3 DEF ServedInv
  <2>1. Edit!Added \cap Edit!Dropped \subseteq add \cap drop BY <1>1, EditedSets
  <2>2. /\ r = AddRequest => Edit!Added \subseteq has' \cup drop
        /\ r = DropRequest => Edit!Dropped \cap has' \subseteq touched \cup add
    BY <1>1, Fulfilled
  <2>3. \A q \in {AddRequest, DropRequest} : q \notin requests' => q \notin requests \/ q = r
    BY <1>2, <1>5
  <2>4. /\ AddRequest \notin requests => Edit!Added \subseteq has \cup touched \cup drop
        /\ DropRequest \notin requests => Edit!Dropped \cap has \subseteq touched \cup add
    BY <1>1 DEF ServedInv
  <2>5. AddRequest \notin requests => Edit!Added \subseteq has' \cup touched \cup drop
    BY <1>7, <2>1, <2>4
  <2>6. DropRequest \notin requests => Edit!Dropped \cap has' \subseteq touched \cup add
    BY <1>7, <2>1, <2>4
  <2> QED BY <2>2, <2>3, <2>5, <2>6
<1> QED BY <1>8, <1>9, <1>10, <1>11

LEMMA FinishKeeps == ASSUME EditInv, Edit!Finish PROVE EditInv'
<1> USE DEF EditInv
<1>1. /\ pc = "wait" /\ requests = {} /\ pc' = IF errored THEN "failed" ELSE "ok"
      /\ UNCHANGED <<has, count, touched, field, actors, add, drop, listed, value, requests,
                     errored>>
  BY DEF Edit!Finish, Edit!github, Edit!asked
<1>2. Edit!TypeOK' BY <1>1 DEF Edit!TypeOK
<1>3. FreshInv' /\ ValueInv' /\ EditEnd'
  BY <1>1 DEF FreshInv, ValueInv, EditEnd, Edit!Interactive
<1>4. SentInv' /\ ServedInv'
  BY <1>1 DEF SentInv, ServedInv, Sendable, AddRequest, DropRequest, Edit!Added, Edit!Dropped, Edit!Interactive
<1> QED BY <1>2, <1>3, <1>4

LEMMA EditNext == EditInv /\ [Edit!Next]_(Edit!vars) => EditInv'
<1> SUFFICES ASSUME EditInv, [Edit!Next]_(Edit!vars) PROVE EditInv' OBVIOUS
<1>1. CASE UNCHANGED Edit!vars
  <2>1. UNCHANGED <<has, count, touched, pc, field, actors, add, drop, listed, value, requests,
                    errored>>
    BY <1>1 DEF Edit!vars, Edit!github, Edit!asked
  <2>2. /\ Edit!Added' = Edit!Added /\ Edit!Dropped' = Edit!Dropped /\ (Edit!Interactive' <=> Edit!Interactive)
        /\ AddRequest' = AddRequest /\ DropRequest' = DropRequest /\ Sendable' = Sendable
    BY <2>1 DEF Edit!Added, Edit!Dropped, Edit!Interactive, AddRequest, DropRequest, Sendable
  <2> QED
    BY <2>1, <2>2 DEF EditInv, Edit!TypeOK, FreshInv, ValueInv, SentInv, ServedInv, EditEnd
<1> QED BY <1>1, OtherUsersKeep, ReadingKeeps, SendKeeps, ServeKeeps, FinishKeeps
        DEF Edit!Next, Edit!Command, Edit!Stop

LEMMA EditProperties == EditInv => Edit!TypeOK /\ Edit!SuccessMeansEdited
BY DEF EditInv, EditEnd, ServedInv, Edit!SuccessMeansEdited

\* Only the requests change the issue, if others do not.
LEMMA EditKeepsExisting == EditInv /\ [Edit!Next]_(Edit!vars) => Edit!KeepsExisting
<1> SUFFICES ASSUME EditInv, [Edit!Next]_(Edit!vars), pc = "wait", count' = count
             PROVE  /\ has \ has' \subseteq Edit!Dropped \cup (IF field = "assignees" THEN touched ELSE {})
                    /\ has' \ has \subseteq Edit!Added \cup
                         CASE field = "projects" -> {}
                           [] field = "labels"   -> IF Edit!Interactive THEN touched ELSE {}
                           [] field \in {"assignees", "reviewers"} -> touched
  BY DEF Edit!KeepsExisting
<1>1. CASE has' = has BY <1>1
<1>2. CASE \E r \in requests : Edit!Serve(r)
  <2> PICK r \in requests : Edit!Serve(r) BY <1>2
  <2>1. has' = Edit!After(r) BY DEF Edit!Serve
  <2> QED BY <2>1, Effect
<1>3. ~Edit!Others BY EditAssumption DEF Edit!Others, EditInv, Edit!TypeOK
<1> QED BY <1>1, <1>2, <1>3
        DEF Edit!Next, Edit!Command, Edit!Stop, Edit!vars, Edit!github, Edit!Find, Edit!Fetch, Edit!Select, Edit!LookFails, Edit!Send, Edit!Refuse, Edit!Finish

-----------------------------------------------------------------------------
(* Whichever command it is. *)

Names == {"label_clone", "status", "release_download", "pr_reply_comment",
          "codespace_connection", "codespace_ports", "codespace_create",
          "codespace_delete", "pr_create", "extension", "run_watch",
          "codespace_keys", "release_delete", "issue_edit"}

\* The command that runs keeps its own invariant.
IInv ==
  /\ cmd \in Names
  /\ cmd = "label_clone"          => LabelInv
  /\ cmd = "status"               => StatusInv
  /\ cmd = "release_download"     => DownloadInv
  /\ cmd = "pr_reply_comment"     => ReplyInv
  /\ cmd = "codespace_connection" => ConnectInv
  /\ cmd = "codespace_ports"      => VisibilityInv
  /\ cmd = "codespace_create"     => CreateInv
  /\ cmd = "codespace_delete"     => DeleteInv
  /\ cmd = "pr_create"            => ProposeInv
  /\ cmd = "extension"            => ExtensionInv
  /\ cmd = "run_watch"            => WatchInv
  /\ cmd = "codespace_keys"       => KeysInv
  /\ cmd = "release_delete"       => EraseInv
  /\ cmd = "issue_edit"           => EditInv

\* Each command begins as its module says.
LEMMA OwnInit ==
  Init => /\ cmd \in Names
          /\ cmd = "label_clone"          => Label!Init
          /\ cmd = "status"               => Status!Init
          /\ cmd = "release_download"     => Download!Init
          /\ cmd = "pr_reply_comment"     => Reply!Init
          /\ cmd = "codespace_connection" => Connect!Init
          /\ cmd = "codespace_ports"      => Visibility!Init
          /\ cmd = "codespace_create"     => Create!Init
          /\ cmd = "codespace_delete"     => Delete!Init
          /\ cmd = "pr_create"            => Propose!Init
          /\ cmd = "extension"            => Extension!Init
          /\ cmd = "run_watch"            => Watch!Init
          /\ cmd = "codespace_keys"       => Keys!Init
          /\ cmd = "release_delete"       => Erase!Init
          /\ cmd = "issue_edit"           => Edit!Init
BY DEF Init, Names

LEMMA InvariantInit == Init => IInv
BY OwnInit, LabelInit, StatusInit, DownloadInit, ReplyInit, ConnectInit,
   VisibilityInit, CreateInit, DeleteInit, ProposeInit, ExtensionInit,
   WatchInit, KeysInit, EraseInit, EditInit
   DEF IInv

\* A step is one of the command that runs, which remains the one that runs.
OwnStep ==
  /\ cmd = "label_clone"          => [Label!Next]_(Label!vars)
  /\ cmd = "status"               => [Status!Next]_(Status!vars)
  /\ cmd = "release_download"     => [Download!Next]_(Download!vars)
  /\ cmd = "pr_reply_comment"     => [Reply!Next]_(Reply!vars)
  /\ cmd = "codespace_connection" => [Connect!Next]_(Connect!vars)
  /\ cmd = "codespace_ports"      => [Visibility!Next]_(Visibility!vars)
  /\ cmd = "codespace_create"     => [Create!Next]_(Create!vars)
  /\ cmd = "codespace_delete"     => [Delete!Next]_(Delete!vars)
  /\ cmd = "pr_create"            => [Propose!Next]_(Propose!vars)
  /\ cmd = "extension"            => [Extension!Next]_(Extension!vars)
  /\ cmd = "run_watch"            => [Watch!Next]_(Watch!vars)
  /\ cmd = "codespace_keys"       => [Keys!Next]_(Keys!vars)
  /\ cmd = "release_delete"       => [Erase!Next]_(Erase!vars)
  /\ cmd = "issue_edit"           => [Edit!Next]_(Edit!vars)

LEMMA StepIsOwn == [Next]_vars => OwnStep /\ cmd' = cmd
<1> SUFFICES ASSUME [Next]_vars PROVE OwnStep /\ cmd' = cmd OBVIOUS
<1>1. CASE Next
  <2>1. OwnStep
    BY <1>1 DEF OwnStep, Next, LabelStep, StatusStep, DownloadStep,
        ReplyStep, ConnectStep, VisibilityStep, CreateStep, DeleteStep,
        ProposeStep, ExtensionStep, WatchStep, KeysStep, EraseStep, EditStep
  <2>2. cmd' = cmd
    BY <1>1 DEF Next, LabelStep, labelRest, StatusStep, statusRest,
        DownloadStep, downloadRest, ReplyStep, replyRest, ConnectStep,
        connectRest, VisibilityStep, visibilityRest, CreateStep, createRest,
        DeleteStep, deleteRest, ProposeStep, proposeRest, ExtensionStep,
        extensionRest, WatchStep, watchRest, KeysStep, keysRest, EraseStep,
        eraseRest, EditStep, editRest
  <2> QED BY <2>1, <2>2
<1>2. CASE UNCHANGED vars
  <2> USE <1>2 DEF vars, pool, label, status, selection, download, reply, connection, ports,
              creation, deletion, proposal, extension, watching, sshKeys, erasure, editing
  <2>1. UNCHANGED Label!vars BY DEF Label!vars
  <2>2. UNCHANGED Status!vars BY DEF Status!vars
  <2>3. UNCHANGED Download!vars BY DEF Download!vars
  <2>4. UNCHANGED Reply!vars BY DEF Reply!vars, Reply!server, Reply!found
  <2>5. UNCHANGED Connect!vars BY DEF Connect!vars, Connect!server, Connect!waiter
  <2>6. UNCHANGED Visibility!vars BY DEF Visibility!vars, Visibility!service, Visibility!progress, Visibility!history
  <2>7. UNCHANGED Create!vars BY DEF Create!vars, Create!server, Create!status
  <2>8. UNCHANGED Delete!vars BY DEF Delete!vars, Delete!service, Delete!choice
  <2>9. UNCHANGED Propose!vars BY DEF Propose!vars, Propose!git, Propose!github, Propose!options, Propose!plan
  <2>10. UNCHANGED Extension!vars BY DEF Extension!vars, Extension!remote, Extension!checker, Extension!command
  <2>11. UNCHANGED Watch!vars BY DEF Watch!vars, Watch!actions, Watch!read
  <2>12. UNCHANGED Keys!vars BY DEF Keys!vars, Keys!keys
  <2>13. UNCHANGED Erase!vars BY DEF Erase!vars, Erase!github
  <2>14. UNCHANGED Edit!vars BY DEF Edit!vars, Edit!github, Edit!asked
  <2>15. cmd' = cmd BY <1>2 DEF vars
  <2> QED
    BY <2>1, <2>2, <2>3, <2>4, <2>5, <2>6, <2>7, <2>8, <2>9, <2>10, <2>11,
       <2>12, <2>13, <2>14, <2>15 DEF OwnStep
<1> QED BY <1>1, <1>2

LEMMA InvariantNext == IInv /\ [Next]_vars => IInv'
BY StepIsOwn, LabelNext, StatusNext, DownloadNext, ReplyNext, ConnectNext,
   VisibilityNext, CreateNext, DeleteNext, ProposeNext, ExtensionNext,
   WatchNext, KeysNext, EraseNext, EditNext
   DEF IInv, OwnStep

LEMMA Invariance == Spec => []IInv
BY InvariantInit, InvariantNext, PTL DEF Spec

\* In every state that a command reaches, also after failures, the variables of
\* the command have their types: in particular no worker of a pool is lost or
\* duplicated by a hand-over, no second codespace is created by a repeated
\* request, and no directory is both a clone and a binary extension.
THEOREM TypeCorrect == Spec => []TypeOK
<1>1. IInv => TypeOK
  <2> SUFFICES ASSUME IInv PROVE TypeOK OBVIOUS
  <2>1. CASE cmd = "label_clone"
    <3>1. Label!TypeOK BY <2>1, LabelProperties DEF IInv
    <3> QED BY <2>1, <3>1 DEF TypeOK
  <2>2. CASE cmd = "status"
    <3>1. Status!TypeOK BY <2>2, StatusProperties DEF IInv
    <3> QED BY <2>2, <3>1 DEF TypeOK
  <2>3. CASE cmd = "release_download"
    <3>1. Download!TypeOK BY <2>3, DownloadProperties DEF IInv
    <3> QED BY <2>3, <3>1 DEF TypeOK
  <2>4. CASE cmd = "pr_reply_comment"
    <3>1. Reply!TypeOK BY <2>4, ReplyProperties DEF IInv
    <3> QED BY <2>4, <3>1 DEF TypeOK
  <2>5. CASE cmd = "codespace_connection"
    <3>1. Connect!TypeOK BY <2>5, ConnectProperties DEF IInv
    <3> QED BY <2>5, <3>1 DEF TypeOK
  <2>6. CASE cmd = "codespace_ports"
    <3>1. Visibility!TypeOK BY <2>6, VisibilityProperties DEF IInv
    <3> QED BY <2>6, <3>1 DEF TypeOK
  <2>7. CASE cmd = "codespace_create"
    <3>1. Create!TypeOK BY <2>7, CreateProperties DEF IInv
    <3> QED BY <2>7, <3>1 DEF TypeOK
  <2>8. CASE cmd = "codespace_delete"
    <3>1. Delete!TypeOK BY <2>8, DeleteProperties DEF IInv
    <3> QED BY <2>8, <3>1 DEF TypeOK
  <2>9. CASE cmd = "pr_create"
    <3>1. Propose!TypeOK BY <2>9, ProposeProperties DEF IInv
    <3> QED BY <2>9, <3>1 DEF TypeOK
  <2>10. CASE cmd = "extension"
    <3>1. Extension!TypeOK BY <2>10, ExtensionProperties DEF IInv
    <3> QED BY <2>10, <3>1 DEF TypeOK
  <2>11. CASE cmd = "run_watch"
    <3>1. Watch!TypeOK BY <2>11, WatchProperties DEF IInv
    <3> QED BY <2>11, <3>1 DEF TypeOK
  <2>12. CASE cmd = "codespace_keys"
    <3>1. Keys!TypeOK BY <2>12, KeysProperties DEF IInv
    <3> QED BY <2>12, <3>1 DEF TypeOK
  <2>13. CASE cmd = "release_delete"
    <3>1. Erase!TypeOK BY <2>13, EraseProperties DEF IInv
    <3> QED BY <2>13, <3>1 DEF TypeOK
  <2>14. CASE cmd = "issue_edit"
    <3>1. Edit!TypeOK BY <2>14, EditProperties DEF IInv
    <3> QED BY <2>14, <3>1 DEF TypeOK
  <2> QED
    BY <2>1, <2>2, <2>3, <2>4, <2>5, <2>6, <2>7, <2>8, <2>9, <2>10, <2>11,
       <2>12, <2>13, <2>14 DEF IInv, Names
<1> QED BY <1>1, Invariance, PTL

\* However the steps of the command, of others and of the service interleave,
\* and whatever fails in between: a command that reports success has done all
\* that it was asked for.
THEOREM SuccessIsDone == Spec => []SuccessMeansDone
<1>1. IInv => SuccessMeansDone
  <2> SUFFICES ASSUME IInv PROVE SuccessMeansDone OBVIOUS
  <2>1. CASE cmd = "label_clone"
    <3>1. Label!SuccessMeansCloned BY <2>1, LabelProperties DEF IInv
    <3> QED BY <2>1, <3>1 DEF SuccessMeansDone
  <2>2. CASE cmd = "status"
    <3>1. Status!MentionsComplete BY <2>2, StatusProperties DEF IInv
    <3> QED BY <2>2, <3>1 DEF SuccessMeansDone
  <2>3. CASE cmd = "release_download"
    <3>1. Download!SuccessMeansDownloaded BY <2>3, DownloadProperties DEF IInv
    <3> QED BY <2>3, <3>1 DEF SuccessMeansDone
  <2>4. CASE cmd = "pr_reply_comment"
    <3>1. (pc = "ok" => replies >= 1) BY <2>4, ReplyProperties DEF IInv
    <3> QED BY <2>4, <3>1 DEF SuccessMeansDone
  <2>5. CASE cmd = "codespace_connection"
    <3>1. Connect!SuccessMeansConnected BY <2>5, ConnectProperties DEF IInv
    <3> QED BY <2>5, <3>1 DEF SuccessMeansDone
  <2>6. CASE cmd = "codespace_ports"
    <3>1. Visibility!SuccessMeansVisible BY <2>6, VisibilityProperties DEF IInv
    <3> QED BY <2>6, <3>1 DEF SuccessMeansDone
  <2>7. CASE cmd = "codespace_create"
    <3>1. Create!SuccessMeansCreated BY <2>7, CreateProperties DEF IInv
    <3> QED BY <2>7, <3>1 DEF SuccessMeansDone
  <2>8. CASE cmd = "codespace_delete"
    <3>1. Delete!SuccessMeansDeleted BY <2>8, DeleteProperties DEF IInv
    <3> QED BY <2>8, <3>1 DEF SuccessMeansDone
  <2>9. CASE cmd = "pr_create"
    <3>1. Propose!SuccessMeansProposed BY <2>9, ProposeProperties DEF IInv
    <3> QED BY <2>9, <3>1 DEF SuccessMeansDone
  <2>10. CASE cmd = "extension"
    <3>1. Extension!SuccessMeansInstalled BY <2>10, ExtensionProperties DEF IInv
    <3> QED BY <2>10, <3>1 DEF SuccessMeansDone
  <2>11. CASE cmd = "run_watch"
    <3>1. Watch!SuccessMeansShown BY <2>11, WatchProperties DEF IInv
    <3> QED BY <2>11, <3>1 DEF SuccessMeansDone
  <2>12. CASE cmd = "codespace_keys"
    <3>1. Keys!SuccessMeansPair BY <2>12, KeysProperties DEF IInv
    <3> QED BY <2>12, <3>1 DEF SuccessMeansDone
  <2>13. CASE cmd = "release_delete"
    <3>1. Erase!SuccessMeansDeleted BY <2>13, EraseProperties DEF IInv
    <3> QED BY <2>13, <3>1 DEF SuccessMeansDone
  <2>14. CASE cmd = "issue_edit"
    <3>1. Edit!SuccessMeansEdited BY <2>14, EditProperties DEF IInv
    <3> QED BY <2>14, <3>1 DEF SuccessMeansDone
  <2> QED
    BY <2>1, <2>2, <2>3, <2>4, <2>5, <2>6, <2>7, <2>8, <2>9, <2>10, <2>11,
       <2>12, <2>13, <2>14 DEF IInv, Names
<1> QED BY <1>1, Invariance, PTL

\* Without --force and --clobber no step of any command, nor of those it runs
\* beside, undoes what was there: see ExistingKept for what that is.  An old key
\* pair may lie beside an automatic one from the start; that its renaming, where
\* gh looks for no automatic pair, loses a key is the exception SshKeys!KeepsExisting
\* states, and the only way in which a private key goes.
THEOREM NothingUndone == Spec => ExistingKept
<1> DEFINE Kept ==
      /\ cmd = "label_clone"      => Label!KeepsExisting
      /\ cmd = "release_download" => Download!KeepsExisting
      /\ cmd = "codespace_delete" => Delete!KeepsExisting
      /\ cmd = "pr_create"        => Propose!KeepsExisting
      /\ cmd = "extension"        => Extension!KeepsExisting
      /\ cmd = "codespace_keys"   => Keys!KeepsExisting
      /\ cmd = "release_delete"   => Erase!KeepsExisting
      /\ cmd = "issue_edit"       => Edit!KeepsExisting
<1>1. IInv /\ [Next]_vars => Kept
  BY StepIsOwn, LabelKeepsExisting, DownloadKeepsExisting,
     DeleteKeepsExisting, ProposeKeepsExisting, ExtensionKeepsExisting,
     KeysKeepExisting, EraseKeepsExisting, EditKeepsExisting DEF IInv, OwnStep
<1>2. IInv /\ [Next]_vars => [Kept]_vars BY <1>1
<1>3. Spec => [][Kept]_vars BY <1>2, Invariance, PTL DEF Spec
<1> QED BY <1>3 DEF ExistingKept

\* Whichever step of gh pr create fails after something was typed, it has been
\* saved, unless it is the pull request itself that cannot be created.
THEOREM TypedInputKept == Spec => InputKept
<1> DEFINE Kept == cmd = "pr_create" => Propose!InputKept
<1>1. IInv /\ [Next]_vars => [Kept]_vars BY StepIsOwn, ProposeInputKept DEF IInv, OwnStep
<1>2. Spec => [][Kept]_vars BY <1>1, Invariance, PTL DEF Spec
<1> QED BY <1>2 DEF InputKept

\* However long the service takes to show a start, and whatever it does in
\* between, gh starts a codespace once, and once more for each shutdown.
THEOREM StartedOnce == Spec => []StartedOncePerStop
<1>1. IInv => StartedOncePerStop BY ConnectProperties DEF IInv, StartedOncePerStop
<1> QED BY <1>1, Invariance, PTL

\* Whatever fails while gh changes the visibility of ports, a port that was
\* forwarded is put back, but for the exceptions that PortsKept names.
THEOREM NoPortLost == Spec => []PortsKept
<1>1. IInv => PortsKept BY VisibilityProperties DEF IInv, PortsKept
<1> QED BY <1>1, Invariance, PTL

\* However the update check, which runs beside an extension, interleaves with
\* the commands that remove it and install another of the same name, the update
\* state is that of the extension installed, but for the check that ends late.
THEOREM UpdateStateOwn == Spec => []UpdateStateIsOwn
<1>1. IInv => UpdateStateIsOwn BY ExtensionProperties DEF IInv, UpdateStateIsOwn
<1> QED BY <1>1, Invariance, PTL

\* However often RestClient repeats its requests, and whichever of them the
\* server answers late or never, an answered reply is not posted again.
THEOREM RepliesAccounted == Spec => []RepliesAccountedFor
<1>1. IInv => RepliesAccountedFor BY ReplyProperties DEF IInv, RepliesAccountedFor
<1> QED BY <1>1, Invariance, PTL

\* A review submitted for the user, or about to be by a late request, is their
\* own, --auto-submit-pending was given, and gh is still at it, has succeeded, or
\* ends with a message that says that it was submitting.
THEOREM SubmittedOnlyIfAsked == Spec => []AutoSubmitTold
<1>1. IInv => AutoSubmitTold BY ReplyProperties DEF IInv, AutoSubmitTold
<1> QED BY <1>1, Invariance, PTL

\* However reviews come and go during the listing, the second reply is asked
\* for only after all that was found pending has been submitted.
THEOREM SubmittedFirst == Spec => []SubmittedBeforeReply
<1>1. IInv => SubmittedBeforeReply BY ReplyProperties DEF IInv, SubmittedBeforeReply
<1> QED BY <1>1, Invariance, PTL

\* However the requests of the two lookups, their answers and the others'
\* changes are interleaved, a release that was there throughout is found,
\* unless it was published between the two requests.
THEOREM NotFoundTrue == Spec => []NotFoundIsTrue
<1>1. IInv => NotFoundIsTrue BY EraseProperties DEF IInv, NotFoundIsTrue
<1> QED BY <1>1, Invariance, PTL

=============================================================================
