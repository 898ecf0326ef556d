------------------------ MODULE ReleaseUploadProofs ------------------------
(***************************************************************************)
(* gh release upload, for any files, names, limits and faults.  IInv says, *)
(* beside the types, that what a worker has stored is there, and that only *)
(* with --clobber a deletion can be under way; LossInv, which names of     *)
(* replaced assets are at risk.                                            *)
(***************************************************************************)
EXTENDS ReleaseUpload, AssetUploadProofs

\* What has been uploaded is on the server.
StoredInv ==
  /\ \A a \in given : worker[a] = "ok" => content[NameOf[a]] = a
  /\ SuccessMeansStored

\* Deletions are under way for replaced assets only, and only with --clobber.
DeletionInv ==
  /\ pc = "fetch" => worker = [a \in Assets |-> "queued"] /\ late = {}
  /\ \A a \in Assets : worker[a] \in {"delete", "deleting"} => clobber
  /\ \A a \in Assets : <<"delete", a>> \in late => clobber

IInv == TypeOK /\ StoredInv /\ DeletionInv

LEMMA InitialInvariant == Init => IInv
<1> SUFFICES ASSUME Init PROVE IInv
  OBVIOUS
<1> USE DEF Init, UploadsInit
<1>1. Running = {}
  BY DEF Running
<1>2. Cardinality(Running) <= Concurrency
  BY <1>1, FS_EmptySet, UploadAssumption
<1>3. retries \in [Assets -> 0 .. MaxRetries]
  BY UploadAssumption
<1>4. TypeOK
  BY <1>2, <1>3 DEF TypeOK, UploadsTypeOK
<1> QED
  BY <1>4 DEF IInv, StoredInv, SuccessMeansStored, DeletionInv

LEMMA UploadsUntouched ==
  ASSUME IInv, UNCHANGED <<given, worker>>
  PROVE  Cardinality(Running') <= Concurrency
<1>1. Running' = Running
  BY DEF Running
<1> QED
  BY <1>1 DEF IInv, TypeOK, UploadsTypeOK

\* Fetch, Finish, and what others do.
LEMMA CommandSteps == IInv /\ (Fetch \/ FetchFails \/ Finish) => IInv'
<1> SUFFICES ASSUME IInv, Fetch \/ FetchFails \/ Finish PROVE IInv'
  OBVIOUS
<1> USE DEF IInv
<1>1. UNCHANGED <<release, content, late, given, worker, retries, cancelled, clobber>>
  BY DEF Fetch, FetchFails, Finish, server, uploads
<1>2. /\ replaces' \subseteq given /\ pc' \in {"upload", "done", "failed"}
      /\ pc' = "upload" /\ ~clobber => replaces' = {}
  BY DEF Fetch, FetchFails, Finish, TypeOK, UploadsTypeOK
<1>3. TypeOK'
  BY <1>1, <1>2, UploadsUntouched DEF TypeOK, UploadsTypeOK
<1>4. pc' = "done" => \A a \in given : worker[a] = "ok"
  BY DEF Fetch, FetchFails, Finish, AllReturned, TypeOK, UploadsTypeOK
<1>5. StoredInv' /\ DeletionInv'
  BY <1>1, <1>2, <1>4 DEF StoredInv, SuccessMeansStored, DeletionInv
<1> QED
  BY <1>3, <1>5

LEMMA OtherSteps == IInv /\ (OtherUpload \/ UNCHANGED vars) => IInv'
<1> SUFFICES ASSUME IInv, OtherUpload \/ UNCHANGED vars PROVE IInv'
  OBVIOUS
<1> USE DEF IInv
<1>1. UNCHANGED <<release, late, given, replaces, worker, retries, cancelled, pc, clobber>>
  BY DEF OtherUpload, vars, uploads
<1>2. /\ content' \in [Names -> Assets \cup {Free, Old, Other}]
      /\ \A n \in Names : content[n] # Free => content'[n] = content[n]
  BY DEF OtherUpload, vars, TypeOK, UploadsTypeOK
<1>3. TypeOK'
  BY <1>1, <1>2, UploadsUntouched DEF TypeOK, UploadsTypeOK
<1>4. \A a \in given : content[NameOf[a]] = a => content'[NameOf[a]] = a
  BY <1>2, UploadAssumption DEF TypeOK, UploadsTypeOK
<1>5. StoredInv' /\ DeletionInv'
  BY <1>1, <1>4 DEF StoredInv, SuccessMeansStored, DeletionInv
<1> QED
  BY <1>3, <1>5

\* Storing or deleting one asset leaves the stored ones.
LEMMA ChangeKeeps ==
  ASSUME content \in [Names -> Assets \cup {Free, Old, Other}],
         NEW a \in Assets, NEW b \in Assets,
         (CanStore(b) /\ Store(b)) \/ (CanDelete(b) /\ Delete(b)),
         content[NameOf[a]] = a
  PROVE  content'[NameOf[a]] = a
BY UploadAssumption, StoreKeeps DEF CanDelete, Delete

LEMMA UploadStep == IInv /\ Upload => IInv'
<1> SUFFICES ASSUME IInv, Upload PROVE IInv'
  OBVIOUS
<1> USE DEF IInv, Upload
<1>1. PICK a \in Assets, to \in Label : WorkEffect(a, to)
  BY WorkSteps DEF TypeOK
<1>2. UploadsTypeOK'
  BY <1>1, WorkKeepsTypes DEF TypeOK
<1>3. UNCHANGED <<given, replaces, pc, clobber>>
  BY <1>1 DEF WorkEffect
<1>4. TypeOK'
  BY <1>2, <1>3 DEF TypeOK
<1>5. /\ content \in [Names -> Assets \cup {Free, Old, Other}]
      /\ worker \in [Assets -> Label] /\ given \subseteq Assets
  BY DEF TypeOK, UploadsTypeOK, Label
<1>6. StoredInv'
  <2>1. ASSUME NEW b \in given, worker'[b] = "ok" PROVE content'[NameOf[b]] = b
    <3>1. CASE b = a
      BY <1>1, <1>5, <2>1, <3>1, UploadAssumption DEF WorkEffect, Store
    <3>2. CASE b # a
      <4>1. content[NameOf[b]] = b
        BY <1>1, <1>5, <2>1, <3>2 DEF WorkEffect, StoredInv
      <4> QED
        BY <1>1, <1>5, <2>1, <4>1, ChangeKeeps DEF WorkEffect
    <3> QED
      BY <3>1, <3>2
  <2> QED
    BY <1>3, <2>1 DEF StoredInv, SuccessMeansStored
<1>7. DeletionInv'
  <2>1. ~clobber => replaces = {}
    BY DEF TypeOK
  <2> QED
    BY <1>1, <1>3, <1>5, <2>1 DEF DeletionInv, WorkEffect
<1> QED
  BY <1>4, <1>6, <1>7

LEMMA LateStepKeeps == IInv /\ LateStep => IInv'
<1> SUFFICES ASSUME IInv, LateStep PROVE IInv'
  OBVIOUS
<1> USE DEF IInv, LateStep
<1>1. UploadsTypeOK'
  BY LateKeepsTypes DEF TypeOK
<1>2. /\ late' \subseteq late
      /\ UNCHANGED <<release, given, replaces, worker, retries, cancelled, pc, clobber>>
  BY DEF LateRequest, uploads
<1>3. /\ content \in [Names -> Assets \cup {Free, Old, Other}]
      /\ given \subseteq Assets /\ late \subseteq {"post", "delete"} \X Assets
  BY DEF TypeOK, UploadsTypeOK
<1>4. PICK b \in Assets : (CanStore(b) /\ Store(b)) \/ (CanDelete(b) /\ Delete(b))
  BY <1>3 DEF LateRequest
<1>5. \A a \in given : content[NameOf[a]] = a => content'[NameOf[a]] = a
  BY <1>3, <1>4, ChangeKeeps
<1>6. TypeOK' /\ DeletionInv'
  BY <1>1, <1>2 DEF TypeOK, DeletionInv
<1>7. StoredInv'
  BY <1>2, <1>5 DEF StoredInv, SuccessMeansStored
<1> QED
  BY <1>6, <1>7

LEMMA InvariantPreserved == IInv /\ [Next]_vars => IInv'
BY CommandSteps, UploadStep, LateStepKeeps, OtherSteps DEF Next, Ended

\* The inductive invariant holds throughout.
THEOREM Invariant == Spec => []IInv
BY InitialInvariant, InvariantPreserved, PTL DEF Spec

\* Types, the limit on the workers, and that the first failure cancels the rest.
THEOREM TypeCorrect == Spec => []TypeOK
BY Invariant, PTL DEF IInv

\* A command that succeeds has put every file on the server, whatever is lost,
\* retried, late or added by others, for any number of files and workers.
THEOREM SuccessIsStored == Spec => []SuccessMeansStored
BY Invariant, PTL DEF IInv, StoredInv

-----------------------------------------------------------------------------

\* No step removes what others added, or without --clobber anything at all.
Untouched ==
  \A n \in Names : content[n] = Other \/ (content[n] = Old /\ ~clobber)
                     => content'[n] = content[n]

LEMMA DeletionNeedsClobber ==
  ASSUME IInv, NEW b \in Assets,
         \/ content' = content
         \/ CanStore(b) /\ Store(b)
         \/ clobber /\ CanDelete(b) /\ Delete(b)
  PROVE  Untouched
BY UploadAssumption DEF IInv, TypeOK, UploadsTypeOK, Untouched, CanStore, Store, CanDelete, Delete

LEMMA StepLosesNothing == IInv /\ [Next]_vars => Untouched
<1> SUFFICES ASSUME IInv, [Next]_vars PROVE Untouched
  OBVIOUS
<1>1. CASE Upload
  <2>1. PICK a \in Assets, to \in Label : WorkEffect(a, to)
    BY <1>1, WorkSteps DEF Upload, IInv, TypeOK
  <2>2. worker[a] = "deleting" => clobber
    BY DEF IInv, DeletionInv
  <2> QED
    BY <2>1, <2>2, DeletionNeedsClobber DEF WorkEffect
<1>2. CASE LateStep
  <2>1. late \subseteq {"post", "delete"} \X Assets
    BY DEF IInv, TypeOK, UploadsTypeOK
  <2>2. PICK b \in Assets : \/ CanStore(b) /\ Store(b)
                            \/ clobber /\ CanDelete(b) /\ Delete(b)
    BY <1>2, <2>1 DEF LateStep, LateRequest, IInv, DeletionInv
  <2> QED
    BY <2>2, DeletionNeedsClobber
<1>3. CASE OtherUpload
  BY <1>3, UploadAssumption DEF OtherUpload, Untouched, IInv, TypeOK, UploadsTypeOK
<1>4. CASE Fetch \/ FetchFails \/ Finish \/ Ended \/ UNCHANGED vars
  BY <1>4 DEF Fetch, FetchFails, Finish, Ended, vars, server, Untouched
<1> QED
  BY <1>1, <1>2, <1>3, <1>4 DEF Next

\* Nothing that is not to be replaced is ever removed from the release.
THEOREM OthersKeepTheirs == Spec => NothingElseLost
<1>1. IInv /\ [Next]_vars => [Untouched]_vars
  BY StepLosesNothing
<1>2. Spec => [][Untouched]_vars
  BY <1>1, Invariant, PTL DEF Spec
<1> QED
  BY <1>2 DEF NothingElseLost, Untouched

-----------------------------------------------------------------------------

\* A name that is at risk is to be replaced, and either holds neither the old
\* asset nor a new one, or a deletion of it has been sent.
AtRisk ==
  {n \in {NameOf[a] : a \in replaces} :
     \/ content[n] \notin Assets \cup {Old}
     \/ \E a \in Assets : NameOf[a] = n /\ (worker[a] = "deleting" \/ <<"delete", a>> \in late)}

Busy == {NameOf[a] : a \in Running}

\* While nothing has failed, a name at risk is that of a running worker; from
\* then on their number does not grow.
LossInv ==
  /\ pc = "fetch" => content \in [Names -> {Free, Old}]
  /\ \A a \in Assets : worker[a] \in {"delete", "deleting"} => a \in replaces
  /\ ~cancelled => AtRisk \subseteq Busy /\ \A a \in Assets : <<"delete", a>> \notin late
  /\ Cardinality(AtRisk) <= Concurrency

\* The names of some files are no more than the files.
LEMMA NamesAreLimited ==
  ASSUME NEW R \in SUBSET Assets, NEW S, S \subseteq {NameOf[a] : a \in R}
  PROVE  IsFiniteSet(S) /\ Cardinality(S) <= Cardinality(R)
<1> DEFINE T == {NameOf[a] : a \in R}
           f == [a \in R |-> NameOf[a]]
<1>1. IsFiniteSet(R)
  BY FS_Subset, UploadAssumption
<1>2. f \in Surjection(R, T)
  BY DEF Surjection
<1>3. IsFiniteSet(T) /\ Cardinality(T) <= Cardinality(R)
  BY <1>1, <1>2, FS_Surjection
<1>4. IsFiniteSet(S) /\ Cardinality(S) <= Cardinality(T)
  BY <1>3, FS_Subset
<1> QED
  BY <1>1, <1>3, <1>4, FS_CardinalityType

LEMMA RiskIsFinite ==
  ASSUME IInv
  PROVE  IsFiniteSet(AtRisk)
BY NamesAreLimited DEF AtRisk, IInv, TypeOK, UploadsTypeOK

\* It is enough that a step puts nothing new at risk, or that all at risk is of
\* a running worker after it.
LEMMA RiskStaysLimited ==
  ASSUME IInv, IInv', LossInv, AtRisk' \subseteq AtRisk \/ AtRisk' \subseteq Busy'
  PROVE  (Cardinality(AtRisk) <= Concurrency)'
<1>1. CASE AtRisk' \subseteq AtRisk
  <2>1. IsFiniteSet(AtRisk) /\ Cardinality(AtRisk) \in Nat
    BY RiskIsFinite, FS_CardinalityType
  <2>2. IsFiniteSet(AtRisk') /\ Cardinality(AtRisk') <= Cardinality(AtRisk)
    BY <1>1, <2>1, FS_Subset
  <2> QED
    BY <2>1, <2>2, FS_CardinalityType, UploadAssumption DEF LossInv
<1>2. CASE AtRisk' \subseteq Busy'
  <2>1. /\ Running' \in SUBSET Assets /\ Cardinality(Running') <= Concurrency
        /\ Cardinality(Running') \in Nat
    BY FS_Subset, FS_CardinalityType, UploadAssumption DEF IInv, TypeOK, UploadsTypeOK, Running
  <2>2. IsFiniteSet(AtRisk') /\ Cardinality(AtRisk') <= Cardinality(Running')
    BY <1>2, <2>1, NamesAreLimited DEF Busy
  <2> QED
    BY <2>1, <2>2, FS_CardinalityType, UploadAssumption
<1> QED
  BY <1>1, <1>2

\* What a worker's step can put at risk is the name it is about to delete.
LEMMA UploadRisk == IInv /\ LossInv /\ Upload => LossInv'
<1> SUFFICES ASSUME IInv, LossInv, Upload PROVE LossInv'
  OBVIOUS
<1>0. IInv'
  BY InvariantPreserved DEF Next
<1>1. PICK a \in Assets, to \in Label : WorkEffect(a, to)
  BY WorkSteps DEF Upload, IInv, TypeOK
<1>2. /\ content \in [Names -> Assets \cup {Free, Old, Other}]
      /\ worker \in [Assets -> Label] /\ given \subseteq Assets /\ replaces \subseteq given
  BY DEF IInv, TypeOK, UploadsTypeOK, Label
<1>3. /\ UNCHANGED <<given, replaces, pc>> /\ pc = "upload"
      /\ worker' = [worker EXCEPT ![a] = to]
  BY <1>1 DEF WorkEffect, Upload
<1>4. \A b \in Assets : worker'[b] \in {"delete", "deleting"} => b \in replaces'
  BY <1>1, <1>2, <1>3 DEF WorkEffect, LossInv
<1>5. \A b \in Assets : <<"delete", b>> \in late'
                        => <<"delete", b>> \in late \/ worker[b] = "deleting"
  BY <1>1 DEF WorkEffect
<1>6. ASSUME NEW n \in Names, content'[n] \notin Assets \cup {Old}
      PROVE  \/ content[n] \notin Assets \cup {Old}
             \/ n = NameOf[a] /\ worker[a] = "deleting"
  BY <1>1, <1>2, <1>6, UploadAssumption DEF WorkEffect, Store, CanStore, Delete, CanDelete
<1>7. ASSUME NEW n \in AtRisk' PROVE n \in AtRisk \/ (n = NameOf[a] /\ to = "deleting")
  <2>1. n \in {NameOf[b] : b \in replaces} /\ n \in Names
    BY <1>2, <1>3, <1>7, UploadAssumption DEF AtRisk
  <2>2. CASE content'[n] \notin Assets \cup {Old}
    BY <1>6, <2>1, <2>2 DEF AtRisk
  <2>3. ASSUME NEW b \in Assets, NameOf[b] = n,
               worker'[b] = "deleting" \/ <<"delete", b>> \in late'
        PROVE  n \in AtRisk \/ (n = NameOf[a] /\ to = "deleting")
    <3>1. \/ worker[b] = "deleting" \/ <<"delete", b>> \in late
          \/ b = a /\ to = "deleting"
      BY <1>2, <1>3, <1>5, <2>3
    <3> QED
      BY <2>1, <2>3, <3>1 DEF AtRisk
  <2> QED
    BY <1>7, <2>2, <2>3 DEF AtRisk
<1>8. ASSUME ~cancelled', NEW b \in Assets PROVE <<"delete", b>> \notin late'
  <2>1. ~cancelled /\ late' \subseteq late \cup {<<"post", a>>}
    BY <1>1, <1>8 DEF WorkEffect
  <2>2. <<"delete", b>> \notin late /\ <<"delete", b>> # <<"post", a>>
    BY <2>1 DEF LossInv
  <2> QED
    BY <2>1, <2>2
<1>9. ASSUME ~cancelled', NEW n \in AtRisk' PROVE n \in Busy'
  <2>1. ~cancelled /\ to \notin {"queued", "err"}
    BY <1>1, <1>9 DEF WorkEffect
  <2>2. ASSUME NEW b \in Assets, worker'[b] = "deleting" PROVE NameOf[b] \in Busy'
    BY <1>2, <1>3, <1>4, <2>2 DEF Busy, Running
  <2>3. CASE n \in Busy
    <3>1. PICK b \in Running : NameOf[b] = n
      BY <2>3 DEF Busy
    <3>2. CASE b \in Running'
      BY <3>1, <3>2 DEF Busy
    <3>3. CASE b \notin Running'
      <4>1. b = a /\ to = "ok"
        BY <1>2, <1>3, <2>1, <3>1, <3>3 DEF Running
      <4>2. content'[n] = a
        BY <1>1, <1>2, <3>1, <4>1, UploadAssumption DEF WorkEffect, Store
      <4> QED
        BY <1>8, <1>9, <2>2, <4>2 DEF AtRisk
    <3> QED
      BY <3>2, <3>3
  <2>4. CASE n \notin Busy
    <3>1. n = NameOf[a] /\ to = "deleting"
      BY <1>7, <1>9, <2>1, <2>4 DEF LossInv
    <3> QED
      BY <1>2, <1>3, <2>2, <3>1
  <2> QED
    BY <2>3, <2>4
<1>10. AtRisk' \subseteq AtRisk \/ AtRisk' \subseteq Busy'
  BY <1>1, <1>7, <1>9 DEF WorkEffect
<1>11. (Cardinality(AtRisk) <= Concurrency)'
  BY <1>0, <1>10, RiskStaysLimited
<1> QED
  BY <1>3, <1>4, <1>8, <1>9, <1>11 DEF LossInv

LEMMA LateRisk == IInv /\ LossInv /\ LateStep => LossInv'
<1> SUFFICES ASSUME IInv, LossInv, LateStep PROVE LossInv'
  OBVIOUS
<1>1. IInv'
  BY InvariantPreserved DEF Next
<1>2. /\ content \in [Names -> Assets \cup {Free, Old, Other}]
      /\ given \subseteq Assets /\ replaces \subseteq given
      /\ late \subseteq {"post", "delete"} \X Assets
  BY DEF IInv, TypeOK, UploadsTypeOK
<1>3. /\ UNCHANGED <<given, replaces, worker, cancelled, pc>> /\ late' \subseteq late
      /\ pc # "fetch"
  BY DEF LateStep, LateRequest, uploads, IInv, DeletionInv
<1>4. PICK b \in Assets : \/ CanStore(b) /\ Store(b)
                          \/ <<"delete", b>> \in late /\ CanDelete(b) /\ Delete(b)
  BY <1>2 DEF LateStep, LateRequest
<1>5. ASSUME NEW n \in Names, content'[n] \notin Assets \cup {Old}
      PROVE  \/ content[n] \notin Assets \cup {Old}
             \/ n = NameOf[b] /\ <<"delete", b>> \in late
  BY <1>2, <1>4, <1>5, UploadAssumption DEF Store, CanStore, Delete, CanDelete
<1>6. \A n \in {NameOf[a] : a \in replaces} : n \in Names
  BY <1>2, UploadAssumption
<1>7. AtRisk' \subseteq AtRisk
  BY <1>3, <1>5, <1>6 DEF AtRisk
<1>8. Busy' = Busy
  BY <1>3 DEF Busy, Running
<1>9. (Cardinality(AtRisk) <= Concurrency)'
  BY <1>1, <1>7, RiskStaysLimited
<1> QED
  BY <1>3, <1>7, <1>8, <1>9 DEF LossInv

LEMMA OtherRisk == IInv /\ LossInv /\ (OtherUpload \/ UNCHANGED vars) => LossInv'
<1> SUFFICES ASSUME IInv, LossInv, OtherUpload \/ UNCHANGED vars PROVE LossInv'
  OBVIOUS
<1>1. IInv'
  BY OtherSteps
<1>2. /\ UNCHANGED <<late, given, replaces, worker, cancelled, pc>>
      /\ pc = "fetch" => content' = content
      /\ \A n \in Names : content[n] \in Assets \cup {Old} => content'[n] = content[n]
  BY UploadAssumption DEF OtherUpload, vars, uploads, IInv, TypeOK, UploadsTypeOK
<1>3. \A n \in {NameOf[a] : a \in replaces} : n \in Names
  BY UploadAssumption DEF IInv, TypeOK, UploadsTypeOK
<1>4. AtRisk' \subseteq AtRisk
  BY <1>2, <1>3 DEF AtRisk
<1>5. Busy' = Busy
  BY <1>2 DEF Busy, Running
<1>6. (Cardinality(AtRisk) <= Concurrency)'
  BY <1>1, <1>4, RiskStaysLimited
<1> QED
  BY <1>2, <1>4, <1>5, <1>6 DEF LossInv

LEMMA CommandRisk == IInv /\ LossInv /\ (Fetch \/ FetchFails \/ Finish) => LossInv'
<1> SUFFICES ASSUME IInv, LossInv, Fetch \/ FetchFails \/ Finish PROVE LossInv'
  OBVIOUS
<1>1. IInv'
  BY CommandSteps
<1>2. UNCHANGED <<content, late, given, worker, cancelled>> /\ pc' # "fetch"
  BY DEF Fetch, FetchFails, Finish, server, uploads
<1>3. AtRisk' \subseteq AtRisk \/ AtRisk' = {}
  <2>1. CASE Fetch
    <3>1. /\ content \in [Names -> {Free, Old}] /\ late = {}
          /\ worker = [a \in Assets |-> "queued"]
      BY <2>1 DEF Fetch, IInv, DeletionInv, LossInv
    <3>2. \A a \in replaces' : a \in Assets /\ content[NameOf[a]] = Old
      BY <2>1, <3>1, UploadAssumption DEF Fetch, IInv, TypeOK, UploadsTypeOK
    <3> QED
      BY <1>2, <3>1, <3>2 DEF AtRisk
  <2>2. CASE FetchFails \/ Finish
    BY <1>2, <2>2 DEF FetchFails, Finish, AtRisk
  <2> QED
    BY <2>1, <2>2
<1>4. Busy' = Busy
  BY <1>2 DEF Busy, Running
<1>5. (Cardinality(AtRisk) <= Concurrency)'
  BY <1>1, <1>3, RiskStaysLimited
<1>6. \A a \in Assets : worker'[a] \in {"delete", "deleting"} => a \in replaces'
  BY <1>2 DEF Fetch, FetchFails, Finish, IInv, DeletionInv, LossInv
<1> QED
  BY <1>2, <1>3, <1>4, <1>5, <1>6 DEF LossInv

\* However many assets a command replaces, and whatever fails, is lost or comes
\* late, no more of them are missing than uploads run at once: a deletion is
\* sent in its worker's turn and, with the group's context, not after a failure.
THEOREM LossIsLimited == Spec => []LossLimited
<1>1. Init => LossInv
  <2> SUFFICES ASSUME Init PROVE LossInv
    OBVIOUS
  <2>1. AtRisk = {}
    BY DEF Init, UploadsInit, AtRisk
  <2>2. Cardinality(AtRisk) <= Concurrency
    BY <2>1, FS_EmptySet, UploadAssumption
  <2> QED
    BY <2>1, <2>2 DEF Init, UploadsInit, LossInv
<1>2. IInv /\ LossInv /\ [Next]_vars => LossInv'
  BY UploadRisk, LateRisk, OtherRisk, CommandRisk DEF Next, Ended
<1>3. IInv /\ LossInv => LossLimited
  <2> SUFFICES ASSUME IInv, LossInv PROVE LossLimited
    OBVIOUS
  <2>1. Missing \in SUBSET AtRisk
    BY DEF Missing, AtRisk
  <2>2. IsFiniteSet(AtRisk) /\ Cardinality(AtRisk) <= Concurrency
    BY RiskIsFinite DEF LossInv
  <2>3. IsFiniteSet(Missing) /\ Cardinality(Missing) <= Cardinality(AtRisk)
    BY <2>1, <2>2, FS_Subset
  <2> QED
    BY <2>2, <2>3, FS_CardinalityType, UploadAssumption DEF LossLimited
<1> QED
  BY <1>1, <1>2, <1>3, Invariant, PTL DEF Spec

-----------------------------------------------------------------------------

\* The retries are what could keep the workers going: each step of one brings it
\* nearer its end, by a rank that is a natural number, and no step of anybody,
\* not even a late answer, sets one back.  So they take finitely many steps.
THEOREM UploadsComeToAnEnd == Spec => [][NoneSetBack /\ (Upload => OneAdvances)]_vars
<1>1. ASSUME IInv, Next PROVE NoneSetBack /\ (Upload => OneAdvances)
  <2>1. UploadsTypeOK
    BY <1>1 DEF IInv, TypeOK
  <2>2. CASE Upload
    BY <2>1, <2>2, WorkAdvances DEF Upload
  <2>3. CASE ~Upload
    <3>1. UNCHANGED <<worker, retries>>
      BY <1>1, <2>3 DEF Next, Fetch, FetchFails, Finish, LateStep, LateRequest, OtherUpload, Ended,
                        uploads, vars
    <3> QED
      BY <2>1, <2>3, <3>1, OthersSetNoneBack
  <2> QED
    BY <2>2, <2>3
<1>2. IInv /\ [Next]_vars => [NoneSetBack /\ (Upload => OneAdvances)]_vars
  BY <1>1
<1> QED
  BY <1>2, Invariant, PTL DEF Spec

=============================================================================
