------------------------- MODULE AssetUploadProofs -------------------------
(***************************************************************************)
(* What a step of a worker does to the types, to the limit on the number   *)
(* of workers, and to the assets that are on the server already, for any   *)
(* assets, limits and faults.                                              *)
(***************************************************************************)
EXTENDS AssetUpload, FiniteSetTheorems, TLAPS

Label == {"queued", "delete", "deleting", "upload", "posting", "backoff", "ok", "err"}

\* The labels of a worker that takes no place.
Idle == {"queued", "ok", "err"}

LEMMA RunningIsFinite ==
  ASSUME given \subseteq Assets
  PROVE  IsFiniteSet(Running) /\ Cardinality(Running) \in Nat
<1>1. Running \in SUBSET Assets
  BY DEF Running
<1> QED
  BY <1>1, FS_Subset, FS_CardinalityType, UploadAssumption

\* Only a worker that starts can exceed the limit.
LEMMA WithinLimit ==
  ASSUME given \subseteq Assets, given' = given,
         worker \in [Assets -> Label],
         Cardinality(Running) <= Concurrency,
         NEW a \in Assets, NEW to \in Label,
         worker' = [worker EXCEPT ![a] = to],
         worker[a] \in Idle => to \in Idle \/ Cardinality(Running) < Concurrency
  PROVE  Cardinality(Running') <= Concurrency
<1>1. CASE to \in Idle \/ a \notin given \/ worker[a] \notin Idle
  <2>1. Running' \in SUBSET Running
    BY <1>1 DEF Running, Idle
  <2>2. IsFiniteSet(Running) /\ Cardinality(Running) \in Nat
    BY RunningIsFinite
  <2>3. IsFiniteSet(Running') /\ Cardinality(Running') <= Cardinality(Running)
    BY <2>1, <2>2, FS_Subset
  <2>4. Cardinality(Running') \in Nat
    BY <2>3, FS_CardinalityType
  <2> QED
    BY <2>2, <2>3, <2>4, UploadAssumption
<1>2. CASE to \notin Idle /\ a \in given /\ worker[a] \in Idle
  <2>1. Running' = Running \cup {a}
    BY <1>2 DEF Running, Idle
  <2>2. a \notin Running
    BY <1>2 DEF Running, Idle
  <2>3. IsFiniteSet(Running) /\ Cardinality(Running) \in Nat
    BY RunningIsFinite
  <2>4. Cardinality(Running') = Cardinality(Running) + 1
    BY <2>1, <2>2, <2>3, FS_AddElement
  <2> QED
    BY <1>2, <2>3, <2>4, UploadAssumption
<1> QED
  BY <1>1, <1>2

-----------------------------------------------------------------------------
(* A step of a worker. *)

\* What the steps of asset a's worker have in common; to is its next label.
WorkEffect(a, to) ==
  /\ worker[a] \notin {"ok", "err"}
  /\ worker[a] = "queued" => a \in given /\ Cardinality(Running) < Concurrency
  /\ worker' = [worker EXCEPT ![a] = to]
  /\ to \in {"delete", "deleting"} => a \in replaces \/ worker[a] = "delete"
  /\ to # "queued"
  /\ to = "deleting" => ~cancelled'
  /\ to = "ok" => CanStore(a) /\ Store(a)
  /\ to = "err" => cancelled'
  /\ cancelled' \in BOOLEAN /\ (cancelled => cancelled')
  /\ retries' \in [Assets -> 0 .. MaxRetries]
  /\ \/ content' = content
     \/ CanStore(a) /\ Store(a)
     \/ worker[a] = "deleting" /\ CanDelete(a) /\ Delete(a)
  /\ \/ late' = late
     \/ late' = late \cup {<<"post", a>>}
     \/ worker[a] = "deleting" /\ cancelled' /\ late' = late \cup {<<"delete", a>>}
  /\ UNCHANGED <<release, given, replaces>>

LEMMA WorkSteps ==
  ASSUME UploadsTypeOK, NEW a \in Assets, Work(a)
  PROVE  \E to \in Label : WorkEffect(a, to)
<1> USE DEF At, WorkEffect, Label, server
<1>1. cancelled \in BOOLEAN /\ retries \in [Assets -> 0 .. MaxRetries] /\ MaxRetries \in Nat
  BY UploadAssumption DEF UploadsTypeOK
<1>2. CASE StartWorker(a)
  <2>1. WorkEffect(a, IF a \in replaces THEN "delete" ELSE "upload")
    BY <1>1, <1>2 DEF StartWorker
  <2> QED
    BY <2>1
<1>3. CASE SendRequest(a)
  <2>1. WorkEffect(a, IF worker[a] = "delete" THEN "deleting" ELSE "posting")
    BY <1>1, <1>3 DEF SendRequest
  <2> QED
    BY <2>1
<1>4. CASE NotSent(a)
  BY <1>1, <1>4 DEF NotSent, Fail
<1>5. CASE Deleted(a)
  BY <1>1, <1>5 DEF Deleted
<1>6. CASE DeleteFails(a)
  BY <1>1, <1>6 DEF DeleteFails, Fail, Lost
<1>7. CASE Uploaded(a)
  BY <1>1, <1>7 DEF Uploaded
<1>8. CASE UploadRefused(a)
  BY <1>1, <1>8 DEF UploadRefused, Fail
<1>9. CASE UploadLost(a)
  <2>1. retries' \in [Assets -> 0 .. MaxRetries]
    BY <1>1, <1>9 DEF UploadLost
  <2> QED
    BY <1>1, <1>9, <2>1 DEF UploadLost, Lost
<1>10. CASE UploadGivenUp(a)
  BY <1>1, <1>10 DEF UploadGivenUp, Fail, Lost
<1>11. CASE BackoffOver(a)
  <2>1. CASE At(a, "backoff", "upload") /\ UNCHANGED cancelled
    BY <1>1, <1>11, <2>1 DEF BackoffOver
  <2>2. CASE cancelled /\ Fail(a, "backoff")
    BY <1>1, <1>11, <2>2 DEF BackoffOver, Fail
  <2> QED
    BY <1>11, <2>1, <2>2 DEF BackoffOver
<1> QED
  BY <1>2, <1>3, <1>4, <1>5, <1>6, <1>7, <1>8, <1>9, <1>10, <1>11 DEF Work

\* A worker keeps the types, the limit, and that a failure cancels the others.
LEMMA WorkKeepsTypes ==
  ASSUME UploadsTypeOK, NEW a \in Assets, NEW to \in Label, WorkEffect(a, to)
  PROVE  UploadsTypeOK'
<1>1. given \subseteq Assets /\ given' = given
  BY DEF UploadsTypeOK, WorkEffect
<1>2. Cardinality(Running') <= Concurrency
  <2>1. worker \in [Assets -> Label]
    BY DEF UploadsTypeOK, Label
  <2>2. worker' = [worker EXCEPT ![a] = to] /\ Cardinality(Running) <= Concurrency
    BY DEF UploadsTypeOK, WorkEffect
  <2>3. worker[a] \in Idle => Cardinality(Running) < Concurrency
    BY DEF WorkEffect, Idle
  <2> QED
    BY <1>1, <2>1, <2>2, <2>3, WithinLimit
<1>3. content' \in [Names -> Assets \cup {Free, Old, Other}]
  BY DEF UploadsTypeOK, WorkEffect, Store, Delete
<1>4. late' \subseteq {"post", "delete"} \X Assets
  BY DEF UploadsTypeOK, WorkEffect
<1>5. (\E b \in Assets : worker'[b] = "err") => cancelled'
  BY DEF UploadsTypeOK, WorkEffect
<1> QED
  BY <1>1, <1>2, <1>3, <1>4, <1>5 DEF UploadsTypeOK, WorkEffect, Label

\* An asset that is on the server stays there when another one is stored.
LEMMA StoreKeeps ==
  ASSUME content \in [Names -> Assets \cup {Free, Old, Other}],
         NEW a \in Assets, NEW b \in Assets,
         content[NameOf[a]] = a, CanStore(b), Store(b)
  PROVE  content'[NameOf[a]] = a
BY UploadAssumption DEF CanStore, Store

LEMMA LateKeepsTypes ==
  ASSUME UploadsTypeOK, LateRequest
  PROVE  UploadsTypeOK'
<1>1. content' \in [Names -> Assets \cup {Free, Old, Other}]
  BY DEF UploadsTypeOK, LateRequest, Store, Delete
<1>2. Running' = Running
  BY DEF LateRequest, Running, uploads
<1> QED
  BY <1>1, <1>2 DEF UploadsTypeOK, LateRequest, uploads

-----------------------------------------------------------------------------
(* How far a worker is from its end. *)

\* The retries it has left, then its place: a retry goes back by two places and
\* uses one up.
Stage(label) ==
  CASE label = "queued" -> 6
    [] label = "delete" -> 5
    [] label \in {"deleting", "backoff"} -> 4
    [] label = "upload" -> 3
    [] label = "posting" -> 2
    [] OTHER -> 0

Rank(label, tried) == 4 * (MaxRetries - tried) + Stage(label)

\* Nobody sets a worker back.
NoneSetBack ==
  \A a \in Assets : Rank(worker'[a], retries'[a]) <= Rank(worker[a], retries[a])

OneAdvances ==
  \E a \in Assets : Rank(worker'[a], retries'[a]) < Rank(worker[a], retries[a])

LEMMA RankIsNatural ==
  ASSUME NEW label \in Label, NEW tried \in 0 .. MaxRetries
  PROVE  Rank(label, tried) \in Nat
<1>1. Stage(label) \in Nat
  BY DEF Stage, Label
<1> QED
  BY <1>1, UploadAssumption DEF Rank

LEMMA WorkAdvances ==
  ASSUME UploadsTypeOK, NEW a \in Assets, Work(a)
  PROVE  NoneSetBack /\ OneAdvances
<1>1. /\ worker \in [Assets -> Label] /\ retries \in [Assets -> 0 .. MaxRetries]
      /\ MaxRetries \in Nat
  BY UploadAssumption DEF UploadsTypeOK, Label
<1>2. PICK to \in Label, tried \in 0 .. MaxRetries :
        /\ worker' = [worker EXCEPT ![a] = to] /\ retries' = [retries EXCEPT ![a] = tried]
        /\ \/ tried = retries[a] /\ Stage(to) < Stage(worker[a])
           \/ tried = retries[a] + 1 /\ worker[a] = "posting" /\ to = "backoff"
  <2> USE DEF At, Stage, Label
  <2>1. retries = [retries EXCEPT ![a] = retries[a]] /\ retries[a] \in 0 .. MaxRetries
    BY <1>1
  <2>2. CASE StartWorker(a)
    <3>1. CASE a \in replaces
      BY <2>1, <2>2, <3>1 DEF StartWorker
    <3>2. CASE a \notin replaces
      BY <2>1, <2>2, <3>2 DEF StartWorker
    <3> QED
      BY <3>1, <3>2
  <2>3. CASE SendRequest(a)
    BY <2>1, <2>3 DEF SendRequest
  <2>4. CASE NotSent(a) \/ DeleteFails(a)
    BY <2>1, <2>4 DEF NotSent, DeleteFails, Fail
  <2>5. CASE Deleted(a) \/ Uploaded(a)
    BY <2>1, <2>5 DEF Deleted, Uploaded
  <2>6. CASE UploadRefused(a) \/ UploadGivenUp(a)
    BY <2>1, <2>6 DEF UploadRefused, UploadGivenUp, Fail
  <2>7. CASE UploadLost(a)
    <3>1. retries[a] + 1 \in 0 .. MaxRetries
      BY <1>1, <2>7 DEF UploadLost
    <3>2. /\ worker' = [worker EXCEPT ![a] = "backoff"] /\ worker[a] = "posting"
          /\ retries' = [retries EXCEPT ![a] = retries[a] + 1]
      BY <2>7 DEF UploadLost
    <3>3. "backoff" \in Label
      OBVIOUS
    <3> QED
      BY <3>1, <3>2, <3>3
  <2>8. CASE BackoffOver(a)
    BY <2>1, <2>8 DEF BackoffOver, Fail
  <2> QED
    BY <2>2, <2>3, <2>4, <2>5, <2>6, <2>7, <2>8 DEF Work
<1>3. Rank(to, tried) < Rank(worker[a], retries[a])
  <2>1. Stage(to) \in Nat /\ Stage(worker[a]) \in Nat
        /\ Stage("posting") = 2 /\ Stage("backoff") = 4
    BY <1>1 DEF Stage, Label
  <2> QED
    BY <1>1, <1>2, <2>1 DEF Rank
<1>4. \A b \in Assets : /\ b = a => worker'[b] = to /\ retries'[b] = tried
                        /\ b # a => worker'[b] = worker[b] /\ retries'[b] = retries[b]
  BY <1>1, <1>2
<1>5. \A b \in Assets : Rank(worker[b], retries[b]) \in Nat
  BY <1>1, RankIsNatural
<1>6. Rank(to, tried) \in Nat
  BY RankIsNatural
<1> QED
  BY <1>3, <1>4, <1>5, <1>6 DEF NoneSetBack, OneAdvances

\* Steps that do not concern the workers.
LEMMA OthersSetNoneBack ==
  ASSUME UploadsTypeOK, UNCHANGED <<worker, retries>>
  PROVE  NoneSetBack
<1>1. \A b \in Assets : Rank(worker[b], retries[b]) \in Nat
  BY RankIsNatural DEF UploadsTypeOK, Label
<1> QED
  BY <1>1 DEF NoneSetBack

=============================================================================
