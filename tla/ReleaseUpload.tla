--------------------------- MODULE ReleaseUpload ---------------------------
(***************************************************************************)
(* gh release upload: add assets to an existing release, with --clobber in *)
(* the place of assets of the same name.  Meanwhile somebody else may add  *)
(* an asset to the release.                                                *)
(***************************************************************************)
EXTENDS AssetUpload

CONSTANT OthersUpload  \* whether somebody else may add assets

ASSUME OthersAssumption == OthersUpload \in BOOLEAN

VARIABLES
  pc,       \* "fetch", "upload", "done" or "failed"
  clobber   \* --clobber

vars == <<release, content, late, given, replaces, worker, retries, cancelled, pc, clobber>>

Init ==
  /\ UploadsInit
  /\ release \in {"draft", "published"}
  /\ content \in [Names -> {Free, Old}]
  /\ pc = "fetch"
  /\ clobber \in BOOLEAN

\* Slip: the check for existing names is left to --clobber's absence.
FetchNoCheck ==
  /\ pc = "fetch"
  /\ replaces' = {a \in given : content[NameOf[a]] # Free}
  /\ pc' = "upload"
  /\ UNCHANGED <<server, given, uploads, clobber>>

\* FetchRelease, and the lookup of the names already there.
Fetch ==
  /\ pc = "fetch"
  /\ replaces' = {a \in given : content[NameOf[a]] # Free}
  /\ pc' = IF replaces' # {} /\ ~clobber THEN "failed" ELSE "upload"
  /\ UNCHANGED <<server, given, uploads, clobber>>

FetchFails ==
  /\ pc = "fetch"
  /\ Faults # {}
  /\ pc' = "failed"
  /\ UNCHANGED <<server, given, replaces, uploads, clobber>>

Upload == pc = "upload" /\ \E a \in Assets : Work(a) /\ UNCHANGED <<pc, clobber>>

\* Slip: the error of the upload is not looked at.
FinishAnyway ==
  /\ pc = "upload"
  /\ AllReturned
  /\ pc' = "done"
  /\ UNCHANGED <<server, given, replaces, uploads, clobber>>

Finish ==
  /\ pc = "upload"
  /\ AllReturned
  /\ pc' = IF cancelled THEN "failed" ELSE "done"
  /\ UNCHANGED <<server, given, replaces, uploads, clobber>>

LateStep == LateRequest /\ UNCHANGED <<pc, clobber>>

\* Before the fetch this is one of the initial states.
OtherUpload ==
  /\ OthersUpload
  /\ pc # "fetch"
  /\ \E n \in Names : content[n] = Free /\ content' = [content EXCEPT ![n] = Other]
  /\ UNCHANGED <<release, late, given, replaces, uploads, pc, clobber>>

Ended == pc \in {"done", "failed"} /\ UNCHANGED vars

Next == Fetch \/ FetchFails \/ Upload \/ Finish \/ LateStep \/ OtherUpload \/ Ended

\* The scheduler runs gh, and a request is answered or given up.
Fairness == WF_vars(Fetch \/ Upload \/ Finish)

Spec == Init /\ [][Next]_vars /\ Fairness

-----------------------------------------------------------------------------

\* Types; an asset is replaced only with --clobber, no more workers run than
\* allowed, and none fails without the others being cancelled.
TypeOK ==
  /\ UploadsTypeOK
  /\ pc \in {"fetch", "upload", "done", "failed"}
  /\ clobber \in BOOLEAN
  /\ pc = "upload" /\ ~clobber => replaces = {}

\* If the command succeeds every file is on the server under its name, whatever
\* was lost and retried, and whatever anybody else uploaded meanwhile.
SuccessMeansStored ==
  pc = "done" => \A a \in given : content[NameOf[a]] = a

\* An asset that somebody else adds while the command runs is never removed, and
\* without --clobber none of those that were there is.
NothingElseLost ==
  [][\A n \in Names :
       content[n] = Other \/ (content[n] = Old /\ ~clobber)
         => content'[n] = content[n]]_vars

\* The names whose asset was to be replaced, and that now hold neither.
Missing ==
  {n \in {NameOf[a] : a \in replaces} : content[n] \notin Assets \cup {Old}}

\* --clobber deletes an asset before it posts its successor, so that a command
\* that fails leaves assets missing; but never more of them than uploads run at
\* once: a deletion waits for its worker's turn, the first failure stops those
\* not yet sent, and one that is served late is of a worker that was running.
LossLimited == Cardinality(Missing) <= Concurrency

\* The command ends: the workers, the limit on their number and the retries
\* never leave it waiting for ever.
Terminates == <>(pc \in {"done", "failed"})

=============================================================================
