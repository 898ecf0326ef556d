--------------------------- MODULE ReleaseCreate ---------------------------
(***************************************************************************)
(* gh release create.  A release with assets that is to be public is made  *)
(* as a draft, filled, and published last; when the upload or the          *)
(* publishing fails the draft is deleted again.  The calls for the release *)
(* are made one after the other and are not repeated; like an upload, one  *)
(* may be refused, or served without gh learning of it, now or later.      *)
(* Meanwhile somebody else may publish a release of the same tag, and the  *)
(* user may interrupt the command.                                         *)
(***************************************************************************)
EXTENDS AssetUpload

CONSTANTS
  CallFaults,    \* as Faults, for the calls that are not uploads
  OthersPublish, \* whether somebody else may take the tag
  Interrupts     \* whether the user may interrupt the command

ASSUME CreateAssumption ==
  /\ CallFaults \subseteq {"refused", "lost", "unreadable"}
  /\ OthersPublish \in BOOLEAN /\ Interrupts \in BOOLEAN

VARIABLES
  pc,         \* the next call, or "done", "failed" or "interrupted"
  draft,      \* --draft
  taken,      \* on the server: a published release of somebody else has the tag
  lateCalls   \* calls for the release nobody waits for that may still be served

calls == <<release, content, lateCalls>>
env   == <<late, given, replaces, draft, taken>>
vars  == <<calls, env, uploads, pc>>

draftWhileUploading == given # {} /\ ~draft

Init ==
  /\ UploadsInit
  /\ release = "absent"
  /\ content = [n \in Names |-> Free]
  /\ draft \in BOOLEAN
  /\ taken \in BOOLEAN
  /\ lateCalls = {}
  /\ pc = IF draftWhileUploading THEN "check" ELSE "create"

-----------------------------------------------------------------------------
(* The server.  A tag has one published release and any number of drafts.  *)

\* Slip: the draft parameter is not set for the time of the upload.
CanCallPublic(kind) ==
  CASE kind = "create"  -> release = "absent" /\ (draft \/ ~taken)
    [] kind = "publish" -> release # "absent" /\ ~taken
    [] kind = "delete"  -> release # "absent"

CanCall(kind) ==
  CASE kind = "create"  -> release = "absent" /\ (draft \/ draftWhileUploading \/ ~taken)
    [] kind = "publish" -> release # "absent" /\ (release = "published" \/ ~taken)
    [] kind = "delete"  -> release # "absent"

\* Slip: as above.
DoCallPublic(kind) ==
  /\ release' = CASE kind = "create"  -> IF draft THEN "draft" ELSE "published"
                  [] kind = "publish" -> "published"
                  [] kind = "delete"  -> "absent"
  /\ content' = IF kind = "delete" THEN [n \in Names |-> Free] ELSE content

DoCall(kind) ==
  /\ release' = CASE kind = "create" -> IF draft \/ draftWhileUploading
                                          THEN "draft" ELSE "published"
                  [] kind = "publish" -> "published"
                  [] kind = "delete"  -> "absent"
  /\ content' = IF kind = "delete" THEN [n \in Names |-> Free] ELSE content

Served(kind) == CanCall(kind) /\ DoCall(kind) /\ UNCHANGED lateCalls

\* The call returns an error, whatever became of it on the server.
CallFails(kind) ==
  \/ (~CanCall(kind) \/ "refused" \in CallFaults) /\ UNCHANGED calls
  \/ "unreadable" \in CallFaults /\ kind # "delete" /\ Served(kind)
  \/ "lost" \in CallFaults /\ Served(kind)
  \/ "lost" \in CallFaults /\ lateCalls' = lateCalls \cup {kind} /\ UNCHANGED <<release, content>>

LateCall ==
  /\ \E kind \in lateCalls :
       CanCall(kind) /\ DoCall(kind) /\ lateCalls' = lateCalls \ {kind}
  /\ UNCHANGED <<env, uploads, pc>>

\* The tag is free for others as long as this release is not published.
OtherPublishes ==
  /\ OthersPublish /\ release # "published"
  /\ ~taken /\ taken' = TRUE
  /\ UNCHANGED <<calls, late, given, replaces, draft, uploads, pc>>

-----------------------------------------------------------------------------
(* The command. *)

\* publishedReleaseExists: the command stops at a release of the same tag.
PublishedReleaseExists ==
  /\ pc = "check"
  /\ \/ pc' = IF taken THEN "failed" ELSE "create"
     \/ CallFaults # {} /\ pc' = "failed"
  /\ UNCHANGED <<calls, env, uploads>>

CreateRelease ==
  /\ pc = "create"
  /\ \/ Served("create") /\ pc' = IF given # {} THEN "upload" ELSE "done"
     \/ CallFails("create") /\ pc' = "failed"
  /\ UNCHANGED <<env, uploads>>

Upload ==
  /\ pc = "upload"
  /\ \E a \in Assets : Work(a)
  /\ UNCHANGED <<pc, draft, taken, lateCalls>>

\* Slip: the error of the upload is shadowed and not looked at.
UploadReturnsOk ==
  /\ pc = "upload"
  /\ AllReturned
  /\ pc' = IF draftWhileUploading THEN "publish" ELSE "done"
  /\ UNCHANGED <<calls, env, uploads>>

UploadReturns ==
  /\ pc = "upload"
  /\ AllReturned
  /\ pc' = CASE draftWhileUploading /\ ~cancelled -> "publish"
             [] draftWhileUploading /\ cancelled  -> "delete"
             [] ~draftWhileUploading /\ ~cancelled -> "done"
             [] ~draftWhileUploading /\ cancelled  -> "failed"
  /\ UNCHANGED <<calls, env, uploads>>

\* Slip: an error of the publishing is not returned.
PublishUnheard ==
  /\ pc = "publish"
  /\ \/ Served("publish") /\ pc' = "done"
     \/ CallFails("publish") /\ pc' = "done"
  /\ UNCHANGED <<env, uploads>>

PublishRelease ==
  /\ pc = "publish"
  /\ \/ Served("publish") /\ pc' = "done"
     \/ CallFails("publish") /\ pc' = "delete"
  /\ UNCHANGED <<env, uploads>>

\* cleanupDraftRelease: the command fails with the first error all the same.
CleanupDraftRelease ==
  /\ pc = "delete"
  /\ Served("delete") \/ CallFails("delete")
  /\ pc' = "failed"
  /\ UNCHANGED <<env, uploads>>

\* The uploads under way may have reached the server.
Interrupt ==
  /\ Interrupts
  /\ pc \notin {"done", "failed", "interrupted"}
  /\ pc' = "interrupted"
  /\ late' \in {late \cup S : S \in SUBSET ({"post"} \X {a \in given : worker[a] = "posting"})}
  /\ UNCHANGED <<calls, given, replaces, draft, taken, uploads>>

Ended == pc \in {"done", "failed", "interrupted"} /\ UNCHANGED vars

LateUpload == LateRequest /\ UNCHANGED <<pc, draft, taken, lateCalls>>

Command == PublishedReleaseExists \/ CreateRelease \/ Upload \/ UploadReturns
             \/ PublishRelease \/ CleanupDraftRelease

Next == Command \/ LateUpload \/ LateCall \/ OtherPublishes \/ Interrupt \/ Ended

\* The scheduler runs gh, and a call is answered or given up.
Fairness == WF_vars(Command)

Spec == Init /\ [][Next]_vars /\ Fairness

-----------------------------------------------------------------------------

Stored == \A a \in given : content[NameOf[a]] = a

\* Types, and the assets of an unfinished release are uploads of this command.
TypeOK ==
  /\ UploadsTypeOK
  /\ pc \in {"check", "create", "upload", "publish", "delete", "done", "failed", "interrupted"}
  /\ draft \in BOOLEAN /\ taken \in BOOLEAN
  /\ lateCalls \subseteq {"create", "publish", "delete"}
  /\ \A n \in Names : content[n] \in given \cup {Free}
  /\ release = "absent" => content = [n \in Names |-> Free]

\* No visitor ever sees a release with an asset missing: whatever fails, is lost,
\* comes late or is interrupted, a published release has all its assets, and it
\* is published only if that was asked for.
PublishedComplete == release = "published" => ~draft /\ Stored

\* A command that succeeds leaves the release it was asked for, and nothing of
\* its own that could still change it.
SuccessMeansReleased ==
  pc = "done" => /\ release = IF draft THEN "draft" ELSE "published"
                 /\ Stored
                 /\ lateCalls = {}

\* A command that fails leaves nothing behind, unless a draft was asked for.
\* This is for a server that answers every call for the release.
FailureLeavesNothing == pc = "failed" /\ ~draft => release = "absent"

\* What a visitor sees, and what the caller has been told.
Visible == IF release = "published" THEN {content[n] : n \in Names} \ {Free} ELSE Free
Outcome == CASE pc = "done" -> "ok"
             [] pc \in {"failed", "interrupted"} -> "error"
             [] OTHER -> "running"

View == INSTANCE ReleaseView WITH
  visible <- Visible, outcome <- Outcome, wanted <- given, private <- draft, Nothing <- Free

\* They see what ReleaseView promises: the whole release or none, withdrawn only
\* by a command that fails; and the command ends.
KeepsReleaseView == View!Spec

=============================================================================
