---------------------------- MODULE AssetUpload ----------------------------
(***************************************************************************)
(* ConcurrentUpload: a release on the server, and the workers of gh that   *)
(* upload assets to it, at most Concurrency at a time.  Each worker first  *)
(* deletes the asset it replaces, if any, and then posts its own, again    *)
(* after a network or server error, up to MaxRetries times.  The first     *)
(* worker to fail cancels the requests of the others.                      *)
(*                                                                         *)
(* A request is served or refused; or its answer never arrives, and then   *)
(* it has been served, will be served later, or never.                     *)
(*                                                                         *)
(* The module has the state and the steps; ReleaseUpload and ReleaseCreate *)
(* are the two commands built on them.                                     *)
(***************************************************************************)
EXTENDS Naturals, FiniteSets

CONSTANTS
  Assets,       \* the files that may be uploaded
  Names,        \* asset names on the server
  NameOf,       \* the name the server gives a file
  Free,         \* a name not in use
  Old, Other,   \* an asset there from the start, and one somebody adds meanwhile
  Concurrency,  \* workers at a time
  MaxRetries,   \* further attempts after the first
  Faults        \* a subset of {"refused", "lost", "unreadable"}

ASSUME UploadAssumption ==
  /\ NameOf \in [Assets -> Names]
  /\ IsFiniteSet(Assets)
  /\ Assets \cap {Free, Old, Other} = {}
  /\ Free # Old /\ Free # Other /\ Old # Other
  /\ Concurrency \in Nat \ {0}
  /\ MaxRetries \in Nat
  /\ Faults \subseteq {"refused", "lost", "unreadable"}

VARIABLES
  release,   \* on the server: "absent", "draft" or "published"
  content,   \* on the server: what each name of the release holds
  late,      \* requests of gh nobody waits for that may still be served
  given,     \* the assets of the command line
  replaces,  \* those that replace an existing asset (ExistingURL)
  worker,    \* what each asset's worker does
  retries,   \* how often it has tried again
  cancelled  \* whether a worker has failed

server  == <<release, content, late>>
uploads == <<worker, retries, cancelled>>

-----------------------------------------------------------------------------
(* The server. *)

CanStore(a) == release # "absent" /\ content[NameOf[a]] = Free
Store(a)    == content' = [content EXCEPT ![NameOf[a]] = a]

\* The asset a worker replaces is addressed by its own id.
CanDelete(a) == release # "absent" /\ content[NameOf[a]] = Old
Delete(a)    == content' = [content EXCEPT ![NameOf[a]] = Free]

\* What becomes of a request whose answer does not arrive.
Lost(kind, a, can, do) ==
  \/ can /\ do /\ UNCHANGED <<release, late>>
  \/ late' = late \cup {<<kind, a>>} /\ UNCHANGED <<release, content>>
  \/ UNCHANGED server

LateRequest ==
  \E r \in late :
    /\ late' = late \ {r}
    /\ \/ r[1] = "post" /\ CanStore(r[2]) /\ Store(r[2])
       \/ r[1] = "delete" /\ CanDelete(r[2]) /\ Delete(r[2])
    /\ UNCHANGED <<release, given, replaces, uploads>>

-----------------------------------------------------------------------------
(* A worker. *)

Running == {a \in given : worker[a] \notin {"queued", "ok", "err"}}

At(a, from, to) == worker[a] = from /\ worker' = [worker EXCEPT ![a] = to]

\* The worker's function returns an error, and errgroup cancels the context.
Fail(a, from) == At(a, from, "err") /\ cancelled' = TRUE

\* Slip: the number of workers is not limited.
StartWorkerAtOnce(a) ==
  /\ a \in given
  /\ At(a, "queued", IF a \in replaces THEN "delete" ELSE "upload")
  /\ UNCHANGED <<server, given, replaces, retries, cancelled>>

\* g.Go: also after a failure, then the worker gives up at its first request.
StartWorker(a) ==
  /\ a \in given
  /\ Cardinality(Running) < Concurrency
  /\ At(a, "queued", IF a \in replaces THEN "delete" ELSE "upload")
  /\ UNCHANGED <<server, given, replaces, retries, cancelled>>

\* Slip: requests are sent without the errgroup's context.
SendRequestAlways(a) ==
  /\ \/ At(a, "delete", "deleting")
     \/ At(a, "upload", "posting")
  /\ UNCHANGED <<server, given, replaces, retries, cancelled>>

SendRequest(a) ==
  /\ ~cancelled
  /\ \/ At(a, "delete", "deleting")
     \/ At(a, "upload", "posting")
  /\ UNCHANGED <<server, given, replaces, retries, cancelled>>

\* A request whose context is cancelled is not sent.
NotSent(a) ==
  /\ cancelled
  /\ Fail(a, "delete") \/ Fail(a, "upload")
  /\ UNCHANGED <<server, given, replaces, retries>>

\* deleteAsset: any answer but success ends the worker.
Deleted(a) ==
  /\ At(a, "deleting", "upload")
  /\ CanDelete(a) /\ Delete(a)
  /\ UNCHANGED <<release, late, given, replaces, retries, cancelled>>

DeleteFails(a) ==
  /\ Fail(a, "deleting")
  /\ \/ (~CanDelete(a) \/ "refused" \in Faults) /\ UNCHANGED server
     \/ (cancelled \/ "lost" \in Faults) /\ Lost("delete", a, CanDelete(a), Delete(a))
  /\ UNCHANGED <<given, replaces, retries>>

\* uploadAsset: success.
Uploaded(a) ==
  /\ At(a, "posting", "ok")
  /\ CanStore(a) /\ Store(a)
  /\ UNCHANGED <<release, late, given, replaces, retries, cancelled>>

\* A refusal, or a success whose answer cannot be decoded, is permanent.
UploadRefused(a) ==
  /\ Fail(a, "posting")
  /\ \/ (~CanStore(a) \/ "refused" \in Faults) /\ UNCHANGED server
     \/ "unreadable" \in Faults /\ CanStore(a) /\ Store(a) /\ UNCHANGED <<release, late>>
  /\ UNCHANGED <<given, replaces, retries>>

\* Slip: the retries are not limited.
UploadLostForEver(a) ==
  /\ "lost" \in Faults
  /\ ~cancelled
  /\ At(a, "posting", "backoff")
  /\ Lost("post", a, CanStore(a), Store(a))
  /\ UNCHANGED <<given, replaces, retries, cancelled>>

\* shouldRetry: a network error or a status of 500 or more.
UploadLost(a) ==
  /\ "lost" \in Faults
  /\ ~cancelled
  /\ retries[a] < MaxRetries
  /\ At(a, "posting", "backoff")
  /\ retries' = [retries EXCEPT ![a] = @ + 1]
  /\ Lost("post", a, CanStore(a), Store(a))
  /\ UNCHANGED <<given, replaces, cancelled>>

\* No attempt left, or cancelled while waiting for the answer.
UploadGivenUp(a) ==
  /\ cancelled \/ ("lost" \in Faults /\ retries[a] = MaxRetries)
  /\ Fail(a, "posting")
  /\ Lost("post", a, CanStore(a), Store(a))
  /\ UNCHANGED <<given, replaces, retries>>

\* backoff.Retry waits for the interval or the context.
BackoffOver(a) ==
  /\ \/ At(a, "backoff", "upload") /\ UNCHANGED cancelled
     \/ cancelled /\ Fail(a, "backoff")
  /\ UNCHANGED <<server, given, replaces, retries>>

Work(a) ==
  \/ StartWorker(a) \/ SendRequest(a) \/ NotSent(a) \/ Deleted(a) \/ DeleteFails(a)
  \/ Uploaded(a) \/ UploadRefused(a) \/ UploadLost(a) \/ UploadGivenUp(a) \/ BackoffOver(a)

\* g.Wait returns when every worker has, with the first error if there was one.
AllReturned == \A a \in given : worker[a] \in {"ok", "err"}

UploadsInit ==
  /\ late = {}
  /\ given \in SUBSET Assets
  /\ replaces = {}
  /\ worker = [a \in Assets |-> "queued"]
  /\ retries = [a \in Assets |-> 0]
  /\ cancelled = FALSE

UploadsTypeOK ==
  /\ release \in {"absent", "draft", "published"}
  /\ content \in [Names -> Assets \cup {Free, Old, Other}]
  /\ late \subseteq {"post", "delete"} \X Assets
  /\ given \subseteq Assets
  /\ replaces \subseteq given
  /\ worker \in [Assets -> {"queued", "delete", "deleting", "upload", "posting",
                            "backoff", "ok", "err"}]
  /\ retries \in [Assets -> 0 .. MaxRetries]
  /\ cancelled \in BOOLEAN
  /\ (\E a \in Assets : worker[a] = "err") => cancelled
  /\ Cardinality(Running) <= Concurrency

=============================================================================
