--------------------------- MODULE CodespaceDelete ---------------------------
(***************************************************************************)
(* gh codespace delete: the codespaces are read, those that match and, if  *)
(* they have unsaved changes, are confirmed, are deleted all at once, each *)
(* by a goroutine of an errgroup.                                          *)
(***************************************************************************)
EXTENDS FiniteSets

CONSTANTS
  Codespaces,
  Faults        \* the requests that may fail: "list", "delete", or "lost"

VARIABLES
  there,     \* the codespaces at the service
  unsaved,   \* those with unsaved changes
  given,     \* those that match the name, the repository and --days
  force,
  pc,        \* "list", "confirm", "delete", "ok" or "error"
  listed,    \* those with unsaved changes in the records that were read
  undecided, \* not yet confirmed
  confirmed, \* the user agreed to delete them
  chosen,    \* codespacesToDelete
  job        \* of each: "none", "request", "deleted" or "failed"

service == <<there, unsaved>>
choice  == <<given, force, listed, undecided, confirmed, chosen>>
vars    == <<service, choice, pc, job>>

Ended == pc \in {"ok", "error"}

-----------------------------------------------------------------------------

Init ==
  /\ there = Codespaces
  /\ unsaved \in SUBSET Codespaces
  /\ given = {}
  /\ force \in BOOLEAN
  /\ pc = "list"
  /\ listed = {} /\ undecided = {} /\ confirmed = {} /\ chosen = {}
  /\ job = [c \in Codespaces |-> "none"]

List ==
  /\ pc = "list"
  /\ given' \in SUBSET there
  /\ undecided' = given'
  /\ listed' = unsaved
  /\ \/ pc' = "confirm"
     \/ "list" \in Faults /\ pc' = "error"
  /\ UNCHANGED <<service, force, confirmed, chosen, job>>

\* Slip: without a terminal nobody can be asked, so it goes ahead.
ConfirmOrAssume(c) ==
  /\ pc = "confirm"
  /\ c \in undecided
  /\ undecided' = undecided \ {c}
  /\ chosen' = chosen \cup {c}
  /\ UNCHANGED <<pc, confirmed, service, given, force, listed, job>>

\* confirmDeletion: there is nothing to confirm, the user is asked, or nobody
\* can be, which is an error.
Confirm(c) ==
  /\ pc = "confirm"
  /\ c \in undecided
  /\ undecided' = undecided \ {c}
  /\ IF force \/ c \notin listed
     THEN chosen' = chosen \cup {c} /\ UNCHANGED <<pc, confirmed>>
     ELSE \/ chosen' = chosen \cup {c} /\ confirmed' = confirmed \cup {c} /\ UNCHANGED pc
          \/ UNCHANGED <<chosen, confirmed, pc>>
          \/ pc' = "error" /\ UNCHANGED <<chosen, confirmed>>
  /\ UNCHANGED <<service, given, force, listed, job>>

Start ==
  /\ pc = "confirm"
  /\ undecided = {}
  /\ pc' = IF chosen = {} THEN "error" ELSE "delete"
  /\ job' = [c \in Codespaces |-> IF c \in chosen THEN "request" ELSE "none"]
  /\ UNCHANGED <<service, choice>>

\* One that somebody else has deleted is not found.
Delete(c) ==
  /\ job[c] = "request"
  /\ \/ c \in there /\ there' = there \ {c} /\ job' = [job EXCEPT ![c] = "deleted"]
     \/ c \notin there /\ job' = [job EXCEPT ![c] = "failed"] /\ UNCHANGED there
     \/ "delete" \in Faults /\ job' = [job EXCEPT ![c] = "failed"] /\ UNCHANGED there
     \/ "lost" \in Faults /\ job' = [job EXCEPT ![c] = "failed"] /\ there' = there \ {c}
  /\ UNCHANGED <<unsaved, choice, pc>>

\* Slip: the command ends with the first that is deleted.
ReturnEarly ==
  /\ pc = "delete"
  /\ \E c \in chosen : job[c] # "request"
  /\ pc' = IF \E c \in chosen : job[c] = "failed" THEN "error" ELSE "ok"
  /\ UNCHANGED <<service, choice, job>>

\* g.Wait: all goroutines have ended.
Return ==
  /\ pc = "delete"
  /\ \A c \in chosen : job[c] # "request"
  /\ pc' = IF \E c \in chosen : job[c] = "failed" THEN "error" ELSE "ok"
  /\ UNCHANGED <<service, choice, job>>

Command == List \/ Start \/ Return \/ \E c \in Codespaces : Confirm(c) \/ Delete(c)

\* The owner works in a codespace, also after it was listed, or deletes it.
Others ==
  /\ ~Ended
  /\ \E c \in there :
       \/ unsaved' = unsaved \cup {c} /\ UNCHANGED there
       \/ there' = there \ {c} /\ UNCHANGED unsaved
  /\ UNCHANGED <<choice, pc, job>>

Stop == Ended /\ UNCHANGED vars

Next == Command \/ Others \/ Stop

\* gh runs, and requests are answered or given up.
Spec == Init /\ [][Next]_vars /\ WF_vars(Command)

-----------------------------------------------------------------------------
(* Properties. *)

TypeOK ==
  /\ there \subseteq Codespaces /\ unsaved \subseteq Codespaces
  /\ given \subseteq Codespaces /\ listed \subseteq Codespaces
  /\ force \in BOOLEAN
  /\ pc \in {"list", "confirm", "delete", "ok", "error"}
  /\ undecided \subseteq given
  /\ confirmed \subseteq chosen /\ chosen \subseteq given
  /\ job \in [Codespaces -> {"none", "request", "deleted", "failed"}]

\* Success means that everything chosen is gone, and that nothing which was
\* asked for was left out but what the user has kept.
SuccessMeansDeleted ==
  pc = "ok" => /\ chosen \cap there = {}
               /\ given \ chosen \subseteq listed
               /\ chosen # {}

\* gh deletes only what was asked for; and what it has read to have unsaved
\* changes only with --force or the user's agreement.
KeepsExisting ==
  \A c \in Codespaces :
    job[c] = "request" /\ job'[c] = "deleted" =>
      c \in given /\ (force \/ c \notin listed \/ c \in confirmed)

=============================================================================
