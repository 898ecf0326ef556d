------------------------ MODULE ReleaseCreateProofs ------------------------
(***************************************************************************)
(* gh release create, for any assets, limits, faults and interruptions.    *)
(* IInv is inductive: beside the properties it says how far the release    *)
(* and the uploads are at each label, and what a call that may still be    *)
(* served can find on the server.                                          *)
(***************************************************************************)
EXTENDS ReleaseCreate, AssetUploadProofs

\* No asset is replaced, and only the given ones are uploaded.
WorkersInv ==
  /\ replaces = {}
  /\ late \subseteq {"post"} \X given
  /\ \A a \in Assets : /\ worker[a] \notin {"delete", "deleting"}
                       /\ worker[a] # "queued" => a \in given

\* How far the release is at each label.
PhaseInv ==
  /\ pc \in {"check", "create"} =>
       /\ release = "absent" /\ late = {} /\ lateCalls = {}
       /\ worker = [a \in Assets |-> "queued"]
  /\ pc \in {"upload", "publish"} =>
       /\ given # {} /\ release = "draft" /\ lateCalls = {}
       /\ \A a \in given : worker[a] = "ok" => content[NameOf[a]] = a
  /\ pc = "check" => draftWhileUploading
  /\ pc = "publish" => ~draft /\ Stored
  /\ pc = "delete" => draftWhileUploading /\ lateCalls \subseteq {"publish"}

\* What a call that is served late finds.
CallsInv ==
  /\ "create" \in lateCalls =>
       pc = "failed" /\ lateCalls = {"create"} /\ release = "absent" /\ late = {}
  /\ "publish" \in lateCalls =>
       /\ draftWhileUploading /\ pc \in {"delete", "failed", "interrupted"}
       /\ release # "absent" => Stored
  /\ "delete" \in lateCalls => pc = "failed"

\* Calls that are all answered are not served late.
AnsweredInv == CallFaults = {} => lateCalls = {} /\ FailureLeavesNothing

IInv ==
  /\ TypeOK /\ WorkersInv /\ PhaseInv /\ CallsInv /\ AnsweredInv
  /\ PublishedComplete /\ SuccessMeansReleased

-----------------------------------------------------------------------------

LEMMA InitialInvariant == Init => IInv
<1> SUFFICES ASSUME Init PROVE IInv
  OBVIOUS
<1> USE DEF Init, UploadsInit
<1>1. Running = {}
  BY DEF Running
<1>2. Cardinality(Running) <= Concurrency
  BY <1>1, FS_EmptySet, UploadAssumption
<1>3. TypeOK
  <2>1. content \in [Names -> Assets \cup {Free, Old, Other}] /\ late = {} /\ given \subseteq Assets
    OBVIOUS
  <2>2. retries \in [Assets -> 0 .. MaxRetries]
    BY UploadAssumption
  <2>3. UploadsTypeOK
    BY <1>2, <2>1, <2>2 DEF UploadsTypeOK
  <2> QED
    BY <2>3 DEF TypeOK, draftWhileUploading
<1>4. WorkersInv /\ CallsInv /\ PublishedComplete /\ SuccessMeansReleased
  BY DEF WorkersInv, CallsInv, PublishedComplete, SuccessMeansReleased, draftWhileUploading
<1>5. PhaseInv /\ AnsweredInv
  BY DEF PhaseInv, AnsweredInv, FailureLeavesNothing, draftWhileUploading
<1> QED
  BY <1>3, <1>4, <1>5 DEF IInv

\* A step that is not an upload's leaves the workers alone.
LEMMA UploadsUntouched ==
  ASSUME IInv, UNCHANGED <<given, replaces, worker, retries, cancelled>>
  PROVE  Cardinality(Running') <= Concurrency
<1>1. Running' = Running
  BY DEF Running
<1> QED
  BY <1>1 DEF IInv, TypeOK, UploadsTypeOK

\* A call that fails may have been served, may be served later, or never.
LEMMA CallFailsEffect ==
  ASSUME IInv, NEW kind \in {"create", "publish", "delete"}, CallFails(kind)
  PROVE  /\ \/ UNCHANGED <<release, content>>
            \/ CanCall(kind) /\ DoCall(kind)
         /\ lateCalls' = lateCalls \/ lateCalls' = lateCalls \cup {kind}
         /\ CallFaults = {} => ~CanCall(kind) /\ UNCHANGED <<release, content, lateCalls>>
BY DEF CallFails, Served, calls

LEMMA DoCallEffect ==
  /\ DoCall("create") => /\ release' = IF draft \/ draftWhileUploading THEN "draft" ELSE "published"
                         /\ content' = content
  /\ DoCall("publish") => release' = "published" /\ content' = content
  /\ DoCall("delete") => release' = "absent" /\ content' = [n \in Names |-> Free]
BY DEF DoCall

LEMMA CanCallMeans ==
  /\ CanCall("create") => release = "absent"
  /\ CanCall("publish") => release # "absent"
  /\ CanCall("delete") <=> release # "absent"
BY DEF CanCall

LEMMA CheckStep == IInv /\ PublishedReleaseExists => IInv'
<1> SUFFICES ASSUME IInv, PublishedReleaseExists PROVE IInv'
  OBVIOUS
<1> USE DEF IInv, PublishedReleaseExists, calls, env, uploads
<1>1. TypeOK'
  BY UploadsUntouched DEF TypeOK, UploadsTypeOK
<1>2. WorkersInv' /\ CallsInv' /\ PublishedComplete' /\ SuccessMeansReleased'
  BY DEF WorkersInv, CallsInv, PublishedComplete, SuccessMeansReleased, PhaseInv, Stored
<1>3. PhaseInv' /\ AnsweredInv'
  BY DEF PhaseInv, AnsweredInv, FailureLeavesNothing, draftWhileUploading, Stored
<1> QED
  BY <1>1, <1>2, <1>3

LEMMA CreateStep == IInv /\ CreateRelease => IInv'
<1> SUFFICES ASSUME IInv, CreateRelease PROVE IInv'
  OBVIOUS
<1> USE DEF IInv, CreateRelease, env, uploads
<1>1. /\ release = "absent" /\ lateCalls = {} /\ late = {}
      /\ worker = [a \in Assets |-> "queued"] /\ content = [n \in Names |-> Free]
  BY DEF PhaseInv, TypeOK
<1>2. CASE Served("create") /\ pc' = IF given # {} THEN "upload" ELSE "done"
  <2>1. /\ release' = IF draft \/ draftWhileUploading THEN "draft" ELSE "published"
        /\ content' = content /\ lateCalls' = {}
    BY <1>1, <1>2, DoCallEffect DEF Served
  <2>2. TypeOK'
    BY <1>2, <2>1, UploadsUntouched DEF TypeOK, UploadsTypeOK
  <2>3. WorkersInv' /\ CallsInv' /\ AnsweredInv'
    BY <1>1, <1>2, <2>1 DEF WorkersInv, CallsInv, AnsweredInv, FailureLeavesNothing
  <2>4. PhaseInv'
    BY <1>1, <1>2, <2>1 DEF PhaseInv, draftWhileUploading, TypeOK, UploadsTypeOK
  <2>5. PublishedComplete' /\ SuccessMeansReleased'
    BY <1>1, <1>2, <2>1 DEF PublishedComplete, SuccessMeansReleased, Stored, draftWhileUploading
  <2> QED
    BY <2>2, <2>3, <2>4, <2>5
<1>3. CASE CallFails("create") /\ pc' = "failed"
  <2>1. /\ release' \in {"absent", IF draft \/ draftWhileUploading THEN "draft" ELSE "published"}
        /\ content' = content
        /\ \/ lateCalls' = {}
           \/ lateCalls' = {"create"} /\ release' = "absent"
        /\ CallFaults = {} => UNCHANGED <<release, lateCalls>>
    BY <1>1, <1>3, DoCallEffect DEF CallFails, Served, calls
  <2>2. TypeOK'
    BY <1>1, <1>3, <2>1, UploadsUntouched DEF TypeOK, UploadsTypeOK
  <2>3. WorkersInv' /\ CallsInv' /\ AnsweredInv' /\ PhaseInv'
    BY <1>1, <1>3, <2>1 DEF WorkersInv, CallsInv, AnsweredInv, FailureLeavesNothing, PhaseInv
  <2>4. PublishedComplete' /\ SuccessMeansReleased'
    BY <1>1, <1>3, <2>1 DEF PublishedComplete, SuccessMeansReleased, Stored, draftWhileUploading
  <2> QED
    BY <2>2, <2>3, <2>4
<1> QED
  BY <1>2, <1>3

\* A worker's step.
LEMMA UploadStep == IInv /\ Upload => IInv'
<1> SUFFICES ASSUME IInv, Upload PROVE IInv'
  OBVIOUS
<1> USE DEF IInv, Upload
<1>1. PICK a \in Assets : Work(a)
  OBVIOUS
<1>2. PICK to \in Label : WorkEffect(a, to)
  BY <1>1, WorkSteps DEF TypeOK
<1>3. UploadsTypeOK'
  BY <1>2, WorkKeepsTypes DEF TypeOK
<1>4. /\ given # {} /\ release = "draft" /\ lateCalls = {}
      /\ \A b \in given : worker[b] = "ok" => content[NameOf[b]] = b
      /\ worker \in [Assets -> Label]
      /\ content \in [Names -> Assets \cup {Free, Old, Other}]
      /\ given \subseteq Assets
      /\ replaces = {} /\ worker[a] \notin {"delete", "deleting"}
  BY DEF PhaseInv, TypeOK, UploadsTypeOK, WorkersInv, Label
<1>5. a \in given
  BY <1>2 DEF WorkersInv, WorkEffect
<1>6. /\ worker' = [worker EXCEPT ![a] = to]
      /\ to \notin {"delete", "deleting", "queued"}
      /\ to = "ok" => CanStore(a) /\ Store(a)
      /\ content' = content \/ (CanStore(a) /\ Store(a))
      /\ late' = late \/ late' = late \cup {<<"post", a>>}
      /\ UNCHANGED <<release, given, replaces>>
  BY <1>2, <1>4 DEF WorkEffect
<1>7. \A b \in given : worker'[b] = "ok" => content'[NameOf[b]] = b
  <2> SUFFICES ASSUME NEW b \in given, worker'[b] = "ok" PROVE content'[NameOf[b]] = b
    OBVIOUS
  <2>1. CASE b = a
    BY <1>4, <1>5, <1>6, <2>1, UploadAssumption DEF Store
  <2>2. CASE b # a
    BY <1>4, <1>5, <1>6, <2>2, StoreKeeps
  <2> QED
    BY <2>1, <2>2
<1>8. \A n \in Names : content'[n] \in given \cup {Free}
  BY <1>4, <1>5, <1>6 DEF TypeOK, Store
<1>9. TypeOK'
  BY <1>3, <1>4, <1>6, <1>8 DEF TypeOK
<1>10. WorkersInv'
  BY <1>4, <1>5, <1>6 DEF WorkersInv
<1>11. PhaseInv' /\ CallsInv' /\ AnsweredInv'
  BY <1>4, <1>6, <1>7 DEF PhaseInv, CallsInv, AnsweredInv, FailureLeavesNothing
<1>12. PublishedComplete' /\ SuccessMeansReleased'
  BY <1>4, <1>6 DEF PublishedComplete, SuccessMeansReleased
<1> QED
  BY <1>9, <1>10, <1>11, <1>12

LEMMA UploadReturnsStep == IInv /\ UploadReturns => IInv'
<1> SUFFICES ASSUME IInv, UploadReturns PROVE IInv'
  OBVIOUS
<1> USE DEF IInv, UploadReturns, calls, env, uploads
<1>1. /\ given # {} /\ release = "draft" /\ lateCalls = {}
      /\ \A b \in given : worker[b] = "ok" => content[NameOf[b]] = b
  BY DEF PhaseInv
<1>2. ~cancelled => Stored
  BY <1>1 DEF AllReturned, Stored, TypeOK, UploadsTypeOK
<1>3. pc' \in {"publish", "delete", "done", "failed"}
  BY DEF draftWhileUploading, TypeOK, UploadsTypeOK
<1>4. /\ pc' \in {"publish", "delete"} => draftWhileUploading
      /\ pc' \in {"done", "failed"} => draft
      /\ pc' \in {"publish", "done"} => ~cancelled
  BY <1>1 DEF draftWhileUploading, TypeOK, UploadsTypeOK
<1>5. Stored' = Stored /\ draftWhileUploading' = draftWhileUploading
  BY DEF Stored, draftWhileUploading
<1>6. TypeOK'
  BY <1>3, UploadsUntouched DEF TypeOK, UploadsTypeOK
<1>7. WorkersInv' /\ CallsInv' /\ AnsweredInv'
  BY <1>1, <1>3, <1>4 DEF WorkersInv, CallsInv, AnsweredInv, FailureLeavesNothing
<1>8. PhaseInv'
  BY <1>1, <1>2, <1>3, <1>4, <1>5 DEF PhaseInv, draftWhileUploading
<1>9. PublishedComplete' /\ SuccessMeansReleased'
  BY <1>1, <1>2, <1>3, <1>4, <1>5 DEF PublishedComplete, SuccessMeansReleased
<1> QED
  BY <1>6, <1>7, <1>8, <1>9

LEMMA PublishStep == IInv /\ PublishRelease => IInv'
<1> SUFFICES ASSUME IInv, PublishRelease PROVE IInv'
  OBVIOUS
<1> USE DEF IInv, PublishRelease, env, uploads
<1>1. /\ given # {} /\ release = "draft" /\ lateCalls = {} /\ ~draft /\ Stored
      /\ draftWhileUploading
  BY DEF PhaseInv, draftWhileUploading
<1>2. /\ release' \in {"draft", "published"} /\ content' = content
      /\ \/ pc' = "done" /\ release' = "published" /\ lateCalls' = {}
         \/ pc' = "delete" /\ lateCalls' \in {{}, {"publish"}}
                           /\ (CallFaults = {} => lateCalls' = {})
  BY <1>1, DoCallEffect DEF CallFails, Served, calls
<1>3. Stored' /\ draftWhileUploading'
  BY <1>1, <1>2 DEF Stored, draftWhileUploading
<1>4. TypeOK'
  BY <1>2, UploadsUntouched DEF TypeOK, UploadsTypeOK
<1>5. WorkersInv' /\ CallsInv' /\ AnsweredInv'
  BY <1>1, <1>2, <1>3 DEF WorkersInv, CallsInv, AnsweredInv, FailureLeavesNothing
<1>6. PhaseInv' /\ PublishedComplete' /\ SuccessMeansReleased'
  BY <1>1, <1>2, <1>3 DEF PhaseInv, PublishedComplete, SuccessMeansReleased
<1> QED
  BY <1>4, <1>5, <1>6

LEMMA CleanupStep == IInv /\ CleanupDraftRelease => IInv'
<1> SUFFICES ASSUME IInv, CleanupDraftRelease PROVE IInv'
  OBVIOUS
<1> USE DEF IInv, CleanupDraftRelease, env, uploads
<1>1. draftWhileUploading /\ lateCalls \subseteq {"publish"}
  BY DEF PhaseInv
<1>2. /\ \/ release' = "absent" /\ content' = [n \in Names |-> Free]
         \/ UNCHANGED <<release, content>>
      /\ lateCalls' = lateCalls \/ lateCalls' = lateCalls \cup {"delete"}
      /\ CallFaults = {} => release' = "absent" /\ lateCalls' = lateCalls
  BY DoCallEffect, CanCallMeans DEF CallFails, Served, calls
<1>3. TypeOK'
  <2>1. /\ content' \in [Names -> Assets \cup {Free, Old, Other}]
        /\ \A n \in Names : content'[n] \in given' \cup {Free}
    BY <1>2 DEF TypeOK, UploadsTypeOK
  <2>2. release' \in {"absent", "draft", "published"}
    BY <1>2 DEF TypeOK, UploadsTypeOK
  <2>3. UploadsTypeOK'
    BY <2>1, <2>2, UploadsUntouched DEF TypeOK, UploadsTypeOK
  <2> QED
    BY <1>2, <2>1, <2>3 DEF TypeOK
<1>4. draftWhileUploading' /\ (release' # "absent" => release' = release /\ (Stored => Stored'))
  BY <1>1, <1>2 DEF Stored, draftWhileUploading
<1>5. WorkersInv' /\ AnsweredInv'
  BY <1>1, <1>2, <1>4 DEF WorkersInv, AnsweredInv, FailureLeavesNothing
<1>6. CallsInv'
  BY <1>1, <1>2, <1>4 DEF CallsInv
<1>7. PhaseInv' /\ PublishedComplete' /\ SuccessMeansReleased'
  BY <1>1, <1>2, <1>4 DEF PhaseInv, PublishedComplete, SuccessMeansReleased
<1> QED
  BY <1>3, <1>5, <1>6, <1>7

LEMMA InterruptStep == IInv /\ Interrupt => IInv'
<1> SUFFICES ASSUME IInv, Interrupt PROVE IInv'
  OBVIOUS
<1> USE DEF IInv, Interrupt, calls, uploads
<1>1. late' \subseteq {"post"} \X given
  BY DEF WorkersInv
<1>2. "create" \notin lateCalls /\ "delete" \notin lateCalls
  BY DEF CallsInv
<1>3. UploadsTypeOK'
  BY <1>1, UploadsUntouched DEF TypeOK, UploadsTypeOK
<1>4. TypeOK'
  BY <1>3 DEF TypeOK
<1>5. WorkersInv' /\ CallsInv' /\ AnsweredInv'
  BY <1>1, <1>2 DEF WorkersInv, CallsInv, AnsweredInv, FailureLeavesNothing, Stored,
                    draftWhileUploading
<1>6. PhaseInv' /\ PublishedComplete' /\ SuccessMeansReleased'
  BY DEF PhaseInv, PublishedComplete, SuccessMeansReleased, Stored
<1> QED
  BY <1>4, <1>5, <1>6

\* An upload that is served late.
LEMMA LateUploadStep == IInv /\ LateUpload => IInv'
<1> SUFFICES ASSUME IInv, LateUpload PROVE IInv'
  OBVIOUS
<1> USE DEF IInv, LateUpload
<1>1. LateRequest /\ UploadsTypeOK'
  BY LateKeepsTypes DEF TypeOK
<1>2. PICK a \in given : CanStore(a) /\ Store(a)
  BY <1>1 DEF LateRequest, WorkersInv
<1>3. /\ late' \subseteq late /\ late # {}
      /\ UNCHANGED <<release, given, replaces, worker, retries, cancelled>>
  BY <1>1 DEF LateRequest, uploads
<1>4. /\ content \in [Names -> Assets \cup {Free, Old, Other}] /\ given \subseteq Assets
      /\ release # "absent"
  BY <1>2 DEF TypeOK, UploadsTypeOK, CanStore
<1>5. \A b \in given : content[NameOf[b]] = b => content'[NameOf[b]] = b
  BY <1>2, <1>4, StoreKeeps
<1>6. Stored => Stored'
  BY <1>3, <1>5 DEF Stored
<1>7. \A n \in Names : content'[n] \in given \cup {Free}
  BY <1>2, <1>4 DEF TypeOK, Store
<1>8. TypeOK'
  BY <1>1, <1>3, <1>4, <1>7 DEF TypeOK
<1>9. WorkersInv' /\ CallsInv' /\ AnsweredInv'
  BY <1>3, <1>4, <1>6 DEF WorkersInv, CallsInv, AnsweredInv, FailureLeavesNothing,
                          draftWhileUploading
<1>10. PhaseInv' /\ PublishedComplete' /\ SuccessMeansReleased'
  BY <1>3, <1>4, <1>5, <1>6 DEF PhaseInv, PublishedComplete, SuccessMeansReleased,
                                draftWhileUploading
<1> QED
  BY <1>8, <1>9, <1>10

\* A call that is served late.
LEMMA LateCallStep == IInv /\ LateCall => IInv'
<1> SUFFICES ASSUME IInv, LateCall PROVE IInv'
  OBVIOUS
<1> USE DEF IInv, LateCall, env, uploads
<1>1. PICK kind \in lateCalls : CanCall(kind) /\ DoCall(kind) /\ lateCalls' = lateCalls \ {kind}
  OBVIOUS
<1>2. kind \in {"create", "publish", "delete"}
  BY DEF TypeOK
<1>3. UNCHANGED <<late, given, replaces, draft, taken, worker, retries, cancelled, pc>>
  OBVIOUS
<1>4. draftWhileUploading' = draftWhileUploading
  BY <1>3 DEF draftWhileUploading
<1>5. CallFaults # {}
  BY DEF AnsweredInv
<1>6. CASE kind = "create"
  <2>1. /\ pc = "failed" /\ lateCalls' = {} /\ content' = content
        /\ release' = IF draft \/ draftWhileUploading THEN "draft" ELSE "published"
    BY <1>1, <1>6, DoCallEffect DEF CallsInv
  <2>2. TypeOK'
    BY <1>3, <2>1, UploadsUntouched DEF TypeOK, UploadsTypeOK
  <2>3. WorkersInv' /\ CallsInv' /\ AnsweredInv' /\ PhaseInv'
    BY <1>3, <1>5, <2>1 DEF WorkersInv, CallsInv, AnsweredInv, PhaseInv
  <2>4. PublishedComplete' /\ SuccessMeansReleased'
    BY <1>3, <2>1 DEF PublishedComplete, SuccessMeansReleased, Stored, draftWhileUploading
  <2> QED
    BY <2>2, <2>3, <2>4
<1>7. CASE kind = "publish"
  <2>1. /\ pc \in {"delete", "failed", "interrupted"} /\ Stored /\ draftWhileUploading
        /\ release # "absent" /\ release' = "published" /\ content' = content
        /\ lateCalls' = lateCalls \ {"publish"} /\ "create" \notin lateCalls
    BY <1>1, <1>7, DoCallEffect, CanCallMeans DEF CallsInv
  <2>2. Stored'
    BY <1>3, <2>1 DEF Stored
  <2>3. TypeOK'
    BY <1>3, <2>1, UploadsUntouched DEF TypeOK, UploadsTypeOK
  <2>4. WorkersInv' /\ CallsInv' /\ AnsweredInv' /\ PhaseInv'
    BY <1>3, <1>4, <1>5, <2>1 DEF WorkersInv, CallsInv, AnsweredInv, PhaseInv
  <2>5. PublishedComplete' /\ SuccessMeansReleased'
    BY <1>3, <2>1, <2>2 DEF PublishedComplete, SuccessMeansReleased, draftWhileUploading
  <2> QED
    BY <2>3, <2>4, <2>5
<1>8. CASE kind = "delete"
  <2>1. /\ pc = "failed" /\ release' = "absent" /\ content' = [n \in Names |-> Free]
        /\ lateCalls' \subseteq lateCalls /\ "create" \notin lateCalls
    BY <1>1, <1>8, DoCallEffect DEF CallsInv
  <2>2. content' \in [Names -> Assets \cup {Free, Old, Other}]
    BY <2>1
  <2>3. UploadsTypeOK'
    BY <1>3, <2>1, <2>2, UploadsUntouched DEF TypeOK, UploadsTypeOK
  <2>4. TypeOK'
    BY <1>3, <2>1, <2>3 DEF TypeOK
  <2>5. WorkersInv' /\ CallsInv' /\ AnsweredInv' /\ PhaseInv'
    BY <1>3, <1>4, <1>5, <2>1 DEF WorkersInv, CallsInv, AnsweredInv, PhaseInv
  <2>6. PublishedComplete' /\ SuccessMeansReleased'
    BY <1>3, <2>1 DEF PublishedComplete, SuccessMeansReleased
  <2> QED
    BY <2>4, <2>5, <2>6
<1> QED
  BY <1>2, <1>6, <1>7, <1>8

\* What others do, and steps that change nothing.
LEMMA OtherSteps == IInv /\ (OtherPublishes \/ UNCHANGED vars) => IInv'
<1> SUFFICES ASSUME IInv, OtherPublishes \/ UNCHANGED vars PROVE IInv'
  OBVIOUS
<1> USE DEF IInv
<1>1. /\ UNCHANGED <<calls, late, given, replaces, draft, uploads, pc>>
      /\ taken' \in BOOLEAN
  BY DEF OtherPublishes, vars, env, TypeOK
<1>2. /\ UNCHANGED <<release, content, lateCalls, late, given, replaces, draft, pc>>
      /\ UNCHANGED <<worker, retries, cancelled>>
  BY <1>1 DEF calls, uploads
<1>3. TypeOK'
  BY <1>1, <1>2, UploadsUntouched DEF TypeOK, UploadsTypeOK
<1>4. WorkersInv' /\ CallsInv' /\ AnsweredInv'
  BY <1>2 DEF WorkersInv, CallsInv, AnsweredInv, FailureLeavesNothing, Stored,
              draftWhileUploading
<1>5. PhaseInv' /\ PublishedComplete' /\ SuccessMeansReleased'
  BY <1>2 DEF PhaseInv, PublishedComplete, SuccessMeansReleased, Stored, draftWhileUploading
<1> QED
  BY <1>3, <1>4, <1>5

LEMMA InvariantPreserved == IInv /\ [Next]_vars => IInv'
<1>1. ASSUME IInv, Command PROVE IInv'
  BY <1>1, CheckStep, CreateStep, UploadStep, UploadReturnsStep, PublishStep, CleanupStep
     DEF Command
<1>2. ASSUME IInv, Ended PROVE IInv'
  BY <1>2, OtherSteps DEF Ended
<1> QED
  BY <1>1, <1>2, LateUploadStep, LateCallStep, OtherSteps, InterruptStep DEF Next

\* The inductive invariant holds throughout.
THEOREM Invariant == Spec => []IInv
BY InitialInvariant, InvariantPreserved, PTL DEF Spec

\* Types, the limit on the workers, and that the first failure cancels the rest.
THEOREM TypeCorrect == Spec => []TypeOK
BY Invariant, PTL DEF IInv

\* A published release always has all its assets, for any number of assets and
\* workers and whatever is refused, lost, late or interrupted.
THEOREM NeverPublishedIncomplete == Spec => []PublishedComplete
BY Invariant, PTL DEF IInv

\* A command that succeeds has made the release it was asked for, for good.
THEOREM SuccessIsFinal == Spec => []SuccessMeansReleased
BY Invariant, PTL DEF IInv

\* If every call for the release is answered, a command that fails leaves none.
THEOREM FailureIsClean == ASSUME CallFaults = {} PROVE Spec => []FailureLeavesNothing
<1>1. IInv => FailureLeavesNothing
  BY DEF IInv, AnsweredInv
<1> QED
  BY <1>1, Invariant, PTL

-----------------------------------------------------------------------------
(* The steps of ReleaseView. *)

VisibleAll == Visible = IF release = "published" THEN given ELSE Free

LEMMA VisibleIsAll == IInv => VisibleAll
<1> SUFFICES ASSUME IInv PROVE VisibleAll
  OBVIOUS
<1> USE DEF VisibleAll
<1>1. CASE release = "published"
  <2>1. Stored /\ given \subseteq Assets /\ \A n \in Names : content[n] \in given \cup {Free}
    BY <1>1 DEF IInv, PublishedComplete, TypeOK, UploadsTypeOK
  <2>2. {content[n] : n \in Names} \ {Free} = given
    BY <2>1, UploadAssumption DEF Stored
  <2> QED
    BY <1>1, <2>2 DEF Visible
<1>2. CASE release # "published"
  BY <1>2 DEF Visible
<1> QED
  BY <1>1, <1>2

LEMMA InitialView == Init => View!Init
BY DEF Init, View!Init, Visible, Outcome, draftWhileUploading

\* What a step does to the release and to the outcome.
ViewStep ==
  \/ UNCHANGED <<release, Outcome>>
  \/ release = "draft" /\ release' = "draft" /\ Outcome = "running" /\ Outcome' = "ok" /\ draft
  \/ Outcome # "ok" /\ release' = "published" /\ ~draft /\ UNCHANGED Outcome
  \/ Outcome # "ok" /\ release' # "published" /\ Outcome' = "error"
  \/ Outcome = "running" /\ release' = release /\ Outcome' = "error"
  \/ release # "published" /\ release' # "published" /\ UNCHANGED Outcome
  \/ Outcome = "running" /\ Outcome' = "ok" /\ release' = IF draft THEN "draft" ELSE "published"
  \/ Outcome = "running" /\ Outcome' = "error" /\ release' = "published" /\ ~draft

LEMMA ViewSteps == IInv /\ [Next]_vars => ViewStep /\ UNCHANGED <<given, draft>>
<1> SUFFICES ASSUME IInv, [Next]_vars PROVE ViewStep /\ UNCHANGED <<given, draft>>
  OBVIOUS
<1> USE DEF ViewStep, Outcome
<1>1. CASE PublishedReleaseExists
  BY <1>1 DEF PublishedReleaseExists, calls, env
<1>2. CASE CreateRelease
  <2>1. release = "absent"
    BY <1>2 DEF CreateRelease, IInv, PhaseInv
  <2>2. CASE Served("create") /\ pc' = IF given # {} THEN "upload" ELSE "done"
    BY <1>2, <2>1, <2>2, DoCallEffect DEF CreateRelease, Served, env, draftWhileUploading
  <2>3. CASE CallFails("create") /\ pc' = "failed"
    BY <1>2, <2>1, <2>3, DoCallEffect DEF CreateRelease, CallFails, Served, calls, env,
                                          draftWhileUploading
  <2> QED
    BY <1>2, <2>2, <2>3 DEF CreateRelease
<1>3. CASE Upload
  <2>1. PICK a \in Assets, to \in Label : WorkEffect(a, to)
    BY <1>3, WorkSteps DEF Upload, IInv, TypeOK
  <2> QED
    BY <1>3, <2>1 DEF Upload, WorkEffect
<1>4. CASE UploadReturns
  <2>1. release = "draft" /\ given # {} /\ draft \in BOOLEAN /\ cancelled \in BOOLEAN
    BY <1>4 DEF UploadReturns, IInv, PhaseInv, TypeOK, UploadsTypeOK
  <2> QED
    BY <1>4, <2>1 DEF UploadReturns, calls, env, draftWhileUploading
<1>5. CASE PublishRelease
  <2>1. release = "draft" /\ ~draft
    BY <1>5 DEF PublishRelease, IInv, PhaseInv
  <2> QED
    BY <1>5, <2>1, DoCallEffect DEF PublishRelease, CallFails, Served, calls, env
<1>6. CASE CleanupDraftRelease
  <2>1. release' \in {release, "absent"} /\ pc = "delete" /\ pc' = "failed"
    BY <1>6, DoCallEffect DEF CleanupDraftRelease, CallFails, Served, calls
  <2> QED
    BY <1>6, <2>1 DEF CleanupDraftRelease, env
<1>7. CASE LateUpload
  BY <1>7 DEF LateUpload, LateRequest
<1>8. CASE LateCall
  <2>1. PICK kind \in lateCalls : DoCall(kind)
    BY <1>8 DEF LateCall
  <2>2. kind \in {"create", "publish", "delete"}
    BY DEF IInv, TypeOK
  <2>3. pc # "done"
    BY <2>1, <2>2 DEF IInv, CallsInv
  <2>4. UNCHANGED <<pc, given, draft>> /\ draft \in BOOLEAN
    BY <1>8 DEF LateCall, env, IInv, TypeOK
  <2>5. CASE kind = "create"
    BY <2>1, <2>3, <2>4, <2>5, DoCallEffect DEF IInv, CallsInv
  <2>6. CASE kind = "publish"
    BY <2>1, <2>3, <2>4, <2>6, DoCallEffect DEF IInv, CallsInv, draftWhileUploading
  <2>7. CASE kind = "delete"
    BY <2>1, <2>3, <2>4, <2>7, DoCallEffect DEF IInv, CallsInv
  <2> QED
    BY <2>2, <2>5, <2>6, <2>7
<1>9. CASE Interrupt
  BY <1>9 DEF Interrupt, calls
<1>10. CASE OtherPublishes \/ Ended \/ UNCHANGED vars
  BY <1>10 DEF OtherPublishes, Ended, vars, calls, env
<1> QED
  BY <1>1, <1>2, <1>3, <1>4, <1>5, <1>6, <1>7, <1>8, <1>9, <1>10 DEF Next, Command

LEMMA StepsKeepView == IInv /\ IInv' /\ [Next]_vars => [View!Next]_(View!vars)
<1> SUFFICES ASSUME IInv, IInv', [Next]_vars PROVE View!Next \/ UNCHANGED View!vars
  OBVIOUS
<1>1. VisibleAll /\ VisibleAll'
  BY VisibleIsAll, PTL
<1>2. ViewStep /\ UNCHANGED <<given, draft>>
  BY ViewSteps
<1>3. draft \in BOOLEAN /\ Outcome \in {"running", "ok", "error"}
  BY DEF IInv, TypeOK, Outcome
<1>4. \/ UNCHANGED <<Visible, Outcome>>
      \/ View!Appear \/ View!Withdraw \/ View!Succeed \/ View!Fail
  BY <1>1, <1>2, <1>3
     DEF VisibleAll, ViewStep, View!Appear, View!Withdraw, View!Succeed, View!Fail
<1> QED
  BY <1>2, <1>4 DEF View!Next, View!vars, View!End

\* What visitors and the caller see of the command is what ReleaseView allows.
THEOREM ImplementsReleaseView == Spec => View!Init /\ [][View!Next]_(View!vars)
<1>1. Spec => []IInv
  BY Invariant
<1> QED
  BY <1>1, InitialView, StepsKeepView, PTL DEF Spec

-----------------------------------------------------------------------------

\* As in gh release upload, the workers take finitely many steps; and the calls
\* for the release are made in one order, each at most once.
Order(label) ==
  CASE label = "check"   -> 5
    [] label = "create"  -> 4
    [] label = "upload"  -> 3
    [] label = "publish" -> 2
    [] label = "delete"  -> 1
    [] OTHER -> 0

CommandAdvances ==
  /\ NoneSetBack /\ Order(pc') <= Order(pc)
  /\ Command => OneAdvances \/ Order(pc') < Order(pc)

\* Every step of the command uses something up that it has finitely much of: a
\* place of a worker, a retry, or a call; and nothing else gives any back.
THEOREM CommandComesToAnEnd == Spec => [][CommandAdvances]_vars
<1>1. ASSUME IInv, Next PROVE CommandAdvances
  <2>1. UploadsTypeOK /\ Order(pc) \in Nat
    BY <1>1 DEF IInv, TypeOK, Order
  <2>2. CASE Upload
    BY <2>1, <2>2, WorkAdvances DEF Upload, CommandAdvances
  <2>3. CASE PublishedReleaseExists \/ CreateRelease \/ UploadReturns \/ PublishRelease
             \/ CleanupDraftRelease
    <3>1. UNCHANGED <<worker, retries>>
      BY <2>3 DEF PublishedReleaseExists, CreateRelease, UploadReturns, PublishRelease,
                  CleanupDraftRelease, uploads
    <3>2. Order(pc') < Order(pc)
      BY <2>3 DEF PublishedReleaseExists, CreateRelease, UploadReturns, PublishRelease,
                  CleanupDraftRelease, Order, draftWhileUploading
    <3>3. NoneSetBack
      BY <2>1, <3>1, OthersSetNoneBack
    <3>4. Order(pc') \in Nat
      BY DEF Order
    <3> QED
      BY <2>1, <3>2, <3>3, <3>4 DEF CommandAdvances
  <2>4. CASE Interrupt
    <3>1. UNCHANGED <<worker, retries>> /\ Order(pc') = 0
      BY <2>4 DEF Interrupt, uploads, Order
    <3>2. ~Command
      BY <2>4 DEF Command, Interrupt, PublishedReleaseExists, CreateRelease, Upload, UploadReturns,
                  PublishRelease, CleanupDraftRelease
    <3> QED
      BY <2>1, <3>1, <3>2, OthersSetNoneBack DEF CommandAdvances
  <2>5. CASE ~Command /\ ~Interrupt
    <3>1. UNCHANGED <<worker, retries, pc>>
      BY <1>1, <2>5 DEF Next, LateUpload, LateRequest, LateCall, OtherPublishes, Ended, vars, uploads
    <3> QED
      BY <2>1, <2>5, <3>1, OthersSetNoneBack DEF CommandAdvances
  <2> QED
    BY <2>2, <2>3, <2>4, <2>5 DEF Command
<1>2. IInv /\ [Next]_vars => [CommandAdvances]_vars
  BY <1>1
<1> QED
  BY <1>2, Invariant, PTL DEF Spec

=============================================================================
