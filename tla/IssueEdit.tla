------------------------------ MODULE IssueEdit ------------------------------
(***************************************************************************)
(* gh issue edit and gh pr edit, of one field that has several values.     *)
(* The values are read first; which are to be added and removed is said    *)
(* with flags, or selected from those read.  Then requests are sent by     *)
(* goroutines, and all of them waited for.  Labels are added and removed,  *)
(* so are the items of projects; assignees are replaced, and reviewers     *)
(* requested, from the values read.  Others edit the same issue.  Of       *)
(* several issues in one command each is edited by steps like these.       *)
(***************************************************************************)
EXTENDS Naturals

CONSTANTS
  Values,      \* labels, projects or logins
  MaxChanges,  \* changes by others
  Faults       \* a subset of {"look", "update", "lost"}

VARIABLES
  has,       \* at GitHub: the values of the issue
  count,     \* changes by others so far
  touched,   \* the values changed by others since they were read
  pc,        \* "find", "fetch", "survey", "send", "wait", or the end
  field,     \* the field that is edited
  actors,    \* whether assignees are replaced by a request of its own, as on
             \* hosts that can assign other actors than users
  add, drop, \* the flags; without any, the values are selected
  listed,    \* the values that were read
  value,     \* the values the issue is to have
  requests,  \* those sent and not answered
  errored    \* whether one has failed

github == <<has, count, touched>>
asked  == <<field, actors, add, drop>>
vars   == <<github, pc, asked, listed, value, requests, errored>>

Fields == {"labels", "assignees", "projects", "reviewers"}

Ended == pc \in {"ok", "failed"}

Interactive == add \cup drop = {}

Init ==
  /\ has \in SUBSET Values /\ count = 0 /\ touched = {}
  /\ pc = "find"
  /\ field \in Fields /\ actors \in BOOLEAN /\ (actors => field = "assignees")
  /\ add \in SUBSET Values /\ drop \in SUBSET Values
  /\ listed = {} /\ value = {}
  /\ requests = {} /\ errored = FALSE

\* Another user adds or removes a value.
Others ==
  /\ ~Ended /\ count < MaxChanges
  /\ count' = count + 1
  /\ \E v \in Values :
       /\ has' = IF v \in has THEN has \ {v} ELSE has \cup {v}
       /\ touched' = IF pc = "find" THEN touched ELSE touched \cup {v}
  /\ UNCHANGED <<pc, asked, listed, value, requests, errored>>

-----------------------------------------------------------------------------
(* What is to be done. *)

Find ==
  /\ pc = "find"
  /\ listed' = has
  /\ pc' = "fetch"
  /\ UNCHANGED <<github, asked, value, requests, errored>>

\* FetchOptions, and with flags the values that the issue is to have.
Fetch ==
  /\ pc = "fetch"
  /\ pc' = IF Interactive THEN "survey" ELSE "send"
  /\ value' = (listed \cup add) \ drop
  /\ UNCHANGED <<github, asked, listed, requests, errored>>

Select ==
  /\ pc = "survey"
  /\ value' \in SUBSET Values
  /\ pc' = "send"
  /\ UNCHANGED <<github, asked, listed, requests, errored>>

LookFails ==
  /\ "look" \in Faults
  /\ pc \in {"find", "fetch", "survey"}
  /\ pc' = "failed"
  /\ UNCHANGED <<github, asked, listed, value, requests, errored>>

-----------------------------------------------------------------------------
(* The requests; each is sent by a goroutine. *)

Added   == IF Interactive THEN value \ listed ELSE add
Dropped == IF Interactive THEN listed \ value ELSE drop

\* Of labels all that were selected are added, also those that were listed.
ToAdd == IF Interactive THEN value ELSE add

RequestsOf ==
  CASE field = "labels" ->
         {r \in {"add", "remove"} : IF r = "add" THEN ToAdd # {} ELSE Dropped # {}}
    [] field = "projects"  -> {"items", "fields"}
    [] field = "assignees" -> {IF actors THEN "replace" ELSE "fields"}
    [] field = "reviewers" -> {"fields"}
         \cup {r \in {"request", "withdraw"} :
                 IF r = "request" THEN value # {} ELSE listed \ value # {}}

Send ==
  /\ pc = "send"
  /\ pc' = "wait"
  /\ requests' = RequestsOf
  /\ UNCHANGED <<github, asked, listed, value, errored>>

\* An item that another user has removed is not found, though the issue may
\* have been added to the project again; nor is one that was never there.
Items == (listed \cap Dropped) \ touched

\* Slip: labels are replaced like other fields.
ReplaceAll(r) == IF r \in {"add", "remove", "replace"} THEN value ELSE has

After(r) ==
  CASE r = "add"      -> has \cup ToAdd
    [] r = "remove"   -> has \ Dropped
    [] r = "items"    -> (has \cup Added) \ Items
    [] r = "request"  -> has \cup value
    [] r = "withdraw" -> has \ (listed \ value)
    [] r = "replace"  -> value
    [] r = "fields"   -> IF field = "assignees" /\ ~actors THEN value ELSE has

Serve(r) ==
  /\ pc = "wait" /\ r \in requests
  /\ has' = After(r)
  /\ LET refused == r = "items" /\ Dropped \ Items # {} IN
       \/ /\ errored' = (errored \/ refused)
          /\ requests' = IF r = "replace" THEN {"fields"} ELSE requests \ {r}
       \/ /\ "lost" \in Faults
          /\ errored' = TRUE
          /\ requests' = requests \ {r}
  /\ UNCHANGED <<count, touched, pc, asked, listed, value>>

Refuse(r) ==
  /\ "update" \in Faults
  /\ pc = "wait" /\ r \in requests
  /\ errored' = TRUE
  /\ requests' = requests \ {r}
  /\ UNCHANGED <<github, pc, asked, listed, value>>

\* Slip: the command ends with the first answer.
FinishEarly ==
  /\ pc = "wait" /\ (requests = {} \/ requests # RequestsOf)
  /\ pc' = IF errored THEN "failed" ELSE "ok"
  /\ UNCHANGED <<github, asked, listed, value, requests, errored>>

Finish ==
  /\ pc = "wait" /\ requests = {}
  /\ pc' = IF errored THEN "failed" ELSE "ok"
  /\ UNCHANGED <<github, asked, listed, value, requests, errored>>

Command ==
  \/ Find \/ Fetch \/ Select \/ LookFails \/ Send
  \/ \E r \in requests : Serve(r) \/ Refuse(r)
  \/ Finish

Stop == Ended /\ UNCHANGED vars

Next == Command \/ Others \/ Stop

\* Requests are answered, and so are the questions.
Spec == Init /\ [][Next]_vars /\ WF_vars(Command)

-----------------------------------------------------------------------------
(* Properties. *)

TypeOK ==
  /\ {has, touched, add, drop, listed, value} \subseteq SUBSET Values
  /\ count \in 0 .. MaxChanges
  /\ pc \in {"find", "fetch", "survey", "send", "wait", "ok", "failed"}
  /\ field \in Fields /\ {actors, errored} \subseteq BOOLEAN
  /\ requests \subseteq {"add", "remove", "items", "replace", "fields",
                         "request", "withdraw"}

\* An edit that succeeds has been made, but for what others have changed since
\* the values were read; what is both added and removed may come out either way.
SuccessMeansEdited ==
  pc = "ok" =>
    /\ Added \subseteq has \cup touched \cup drop
    /\ Dropped \cap has \subseteq touched \cup add

\* Only what was asked for is changed: whatever others do, no label or project
\* that was not named by a flag, and no project that was not selected.  What
\* others have changed since is undone for assignees; what they have removed is
\* added again for reviewers and selected labels.
KeepsExisting ==
  pc = "wait" /\ count' = count =>
    /\ has \ has' \subseteq Dropped \cup (IF field = "assignees" THEN touched ELSE {})
    /\ has' \ has \subseteq Added \cup
         CASE field = "projects" -> {}
           [] field = "labels"   -> IF Interactive THEN touched ELSE {}
           [] field \in {"assignees", "reviewers"} -> touched

=============================================================================
