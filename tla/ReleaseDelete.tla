---------------------------- MODULE ReleaseDelete ----------------------------
(***************************************************************************)
(* gh release delete.  The release of a tag is looked up by two            *)
(* goroutines, as every release command does: a published one by its tag,  *)
(* a draft by a query and then by its number.  The first answer that is    *)
(* not "missing" is taken.  Meanwhile others publish, delete and create    *)
(* releases; of one tag there is one release at a time.                    *)
(***************************************************************************)
EXTENDS Naturals

CONSTANTS
  MaxReleases,
  Faults        \* a subset of {"look", "delete", "lost"}

VARIABLES
  release,    \* at GitHub: the number of the release of the tag, 0 if none
  draft,      \* at GitHub: whether it is a draft, whose tag need not exist
  tagOf,      \* at GitHub: the release that the tag was made for, 0 if none
  made,       \* releases made so far
  pc,         \* "find", "other", "drain", "confirm", "delete", "tag", or the end
  cleanupTag, \* --cleanup-tag
  lookup,     \* of each goroutine: "ask", "get", or what it has sent: "found",
              \* "missing" or "error"
  number,     \* the release that it has found
  found,      \* the release taken, 0 if none
  missed      \* since the lookup began there has been no release for a time, or
              \* it was published when it had been asked for a published one, and
              \* not yet for a draft; kept for the property only

github == <<release, draft, tagOf, made>>
vars   == <<github, pc, cleanupTag, lookup, number, found, missed>>

Lookups == {"published", "draft"}

Answered(l) == lookup[l] \in {"found", "missing", "error"}

Ended == pc \in {"ok", "missing", "cancelled", "failed"}

Init ==
  /\ release \in {0, 1} /\ made = 1
  /\ draft \in BOOLEAN /\ (draft => release = 1)
  /\ tagOf \in {0, 1} /\ (tagOf = 0 => draft \/ release = 0)
  /\ pc = "find"
  /\ cleanupTag \in BOOLEAN
  /\ lookup = [l \in Lookups |-> "ask"] /\ number = [l \in Lookups |-> 0]
  /\ found = 0
  /\ missed = (release = 0)

-----------------------------------------------------------------------------
(* The others. *)

Tag(n) == tagOf' = IF tagOf = 0 THEN n ELSE tagOf

Publish ==
  /\ draft
  /\ draft' = FALSE /\ Tag(release)
  /\ UNCHANGED <<release, made>>

Remove ==
  /\ release # 0
  /\ release' = 0 /\ draft' = FALSE
  /\ UNCHANGED <<tagOf, made>>

Make ==
  /\ release = 0 /\ made < MaxReleases
  /\ release' = made + 1 /\ made' = made + 1
  /\ \/ draft' = TRUE /\ UNCHANGED tagOf
     \/ draft' = FALSE /\ Tag(release')

Others ==
  /\ ~Ended
  /\ \/ Publish /\ missed' = (missed \/ (Answered("published") /\ lookup["draft"] = "ask"))
     \/ Remove /\ missed' = TRUE
     \/ Make /\ UNCHANGED missed
  /\ UNCHANGED <<pc, cleanupTag, lookup, number, found>>

-----------------------------------------------------------------------------
(* The two lookups. *)

Found(l, n) ==
  /\ number' = [number EXCEPT ![l] = n]
  /\ lookup' = [lookup EXCEPT ![l] = IF n = 0 THEN "missing" ELSE "found"]
  /\ UNCHANGED <<github, pc, cleanupTag, found, missed>>

AskPublished ==
  /\ lookup["published"] = "ask"
  /\ Found("published", IF draft THEN 0 ELSE release)

AskDraft ==
  /\ lookup["draft"] = "ask"
  /\ \/ ~draft /\ Found("draft", 0)
     \/ /\ draft
        /\ lookup' = [lookup EXCEPT !["draft"] = "get"]
        /\ number' = [number EXCEPT !["draft"] = release]
        /\ UNCHANGED <<github, pc, cleanupTag, found, missed>>

\* It may have been published in the meantime.
GetDraft ==
  /\ lookup["draft"] = "get"
  /\ Found("draft", IF release = number["draft"] THEN release ELSE 0)

\* A request fails, or is given up when the context has been cancelled.
LookFails(l) ==
  /\ "look" \in Faults \/ pc = "drain"
  /\ ~Answered(l)
  /\ lookup' = [lookup EXCEPT ![l] = "error"]
  /\ UNCHANGED <<github, pc, cleanupTag, number, found, missed>>

-----------------------------------------------------------------------------
(* FetchRelease receives from the goroutines, in either order. *)

GoTo(s) == pc' = s /\ UNCHANGED <<github, cleanupTag, lookup, number, missed>>

Take(l) == found' = IF lookup[l] = "found" THEN number[l] ELSE 0

\* Slip: the first answer is taken, whatever it is.
ReceiveOnce(l) ==
  /\ pc = "find" /\ Answered(l)
  /\ Take(l)
  /\ GoTo(IF lookup[l] = "missing" THEN "missing" ELSE "drain")

Receive(l) ==
  /\ pc = "find" /\ Answered(l)
  /\ Take(l)
  /\ GoTo(IF lookup[l] = "missing" THEN "other" ELSE "drain")

ReceiveOther(l) ==
  /\ pc = "other"
  /\ \A k \in Lookups : Answered(k) /\ (k # l => lookup[k] = "missing")
  /\ Take(l)
  /\ GoTo(CASE lookup[l] = "found"     -> "confirm"
            [] lookup[l] = "missing"   -> "missing"
            [] lookup[l] = "error"     -> "failed")

\* The context is cancelled and the other goroutine waited for.
Drain ==
  /\ pc = "drain"
  /\ \A l \in Lookups : Answered(l)
  /\ GoTo(IF found = 0 THEN "failed" ELSE "confirm")
  /\ UNCHANGED found

-----------------------------------------------------------------------------
(* deleteRun. *)

Confirm ==
  /\ pc = "confirm"
  /\ GoTo("delete") \/ GoTo("cancelled")
  /\ UNCHANGED found

DeleteRelease ==
  /\ release' = 0 /\ draft' = FALSE
  /\ \/ pc' = IF cleanupTag THEN "tag" ELSE "ok"
     \/ "lost" \in Faults /\ pc' = "failed"
  /\ UNCHANGED <<tagOf, made, cleanupTag, lookup, number, found, missed>>

\* Slip: the release that has the tag by now is deleted.
DeleteByTag == pc = "delete" /\ release # 0 /\ DeleteRelease

\* By its number, also if it has been published since.
Delete == pc = "delete" /\ release = found /\ DeleteRelease

DeleteTag ==
  /\ pc = "tag" /\ tagOf # 0
  /\ tagOf' = 0
  /\ \/ pc' = "ok"
     \/ "lost" \in Faults /\ pc' = "failed"
  /\ UNCHANGED <<release, draft, made, cleanupTag, lookup, number, found, missed>>

CannotDelete ==
  /\ \/ pc = "delete" /\ (release # found \/ "delete" \in Faults)
     \/ pc = "tag" /\ (tagOf = 0 \/ "delete" \in Faults)
  /\ GoTo("failed")
  /\ UNCHANGED found

Command ==
  \/ AskPublished \/ AskDraft \/ GetDraft
  \/ \E l \in Lookups : LookFails(l) \/ Receive(l) \/ ReceiveOther(l)
  \/ Drain \/ Confirm \/ Delete \/ DeleteTag \/ CannotDelete

Stop == Ended /\ UNCHANGED vars

Next == Command \/ Others \/ Stop

\* Requests are answered, and so is the question.
Spec == Init /\ [][Next]_vars /\ WF_vars(Command)

-----------------------------------------------------------------------------
(* Properties. *)

TypeOK ==
  /\ {release, tagOf, found} \subseteq 0 .. made
  /\ {draft, cleanupTag, missed} \subseteq BOOLEAN
  /\ made \in 1 .. MaxReleases
  /\ pc \in {"find", "other", "drain", "confirm", "delete", "tag",
             "ok", "missing", "cancelled", "failed"}
  /\ lookup \in [Lookups -> {"ask", "get", "found", "missing", "error"}]
  /\ number \in [Lookups -> 0 .. made]

\* The release that is reported as deleted is gone.
SuccessMeansDeleted == pc = "ok" => release # found

\* A release is not found only if there was none at some time, or it was
\* published between the request for a published one and the query for a draft.
NotFoundIsTrue == pc = "missing" => missed

\* The command deletes no release but the one it has found, though another may
\* have taken its place, and no tag without --cleanup-tag, or while that
\* release is still there.
KeepsExisting ==
  pc' # pc =>
    /\ release' # release => release = found
    /\ tagOf' # tagOf => cleanupTag /\ release # found

=============================================================================
