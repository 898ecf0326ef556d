------------------------------ MODULE RunWatch ------------------------------
(***************************************************************************)
(* gh run watch: until the run has completed, the run, its jobs and the    *)
(* annotations of each job are asked for one after the other, and printed; *)
(* what was printed last stays on the screen.  The annotations of a job    *)
(* are asked for again and again only while it is in progress: otherwise   *)
(* those gathered up to it in the list are cached, and taken for the       *)
(* annotations of the whole list up to it from then on.                    *)
(***************************************************************************)
EXTENDS Naturals

CONSTANTS
  MaxJobs,  \* the jobs of the run are 1 .. MaxJobs, in the order of the list
  Faults    \* a subset of {"request", "forbidden"}

VARIABLES
  jobStatus,    \* at GitHub: of each job
  annotated,    \* at GitHub: the jobs that have annotations
  conclusion,   \* at GitHub: of the run, "none" until it has completed
  pc,           \* "select", "run", "jobs", "annotations", "sleep", or the end
  exitStatus,   \* --exit-status
  answered,     \* the conclusion in the last answer
  jobs,         \* the jobs in the last answer
  looked,       \* how many of them have been seen to
  annotations,  \* the jobs whose annotations will be printed
  annotationCache,
  forbidden,    \* missingAnnotationsPermissions
  early         \* jobs that had not completed when they, or one after them,
                \* were cached; kept for the property only

actions == <<jobStatus, annotated, conclusion>>
read    == <<answered, jobs, looked, annotations, annotationCache, forbidden, early>>
vars    == <<actions, pc, exitStatus, read>>

Jobs  == 1 .. MaxJobs
Ended == pc \in {"ok", "failed", "error"}

NotCached == {0}

\* Nothing is printed by a command that finds the run completed.
Watched == jobs # <<>>

Init ==
  /\ jobStatus \in [Jobs -> {"queued", "in_progress"}]
  /\ annotated = {} /\ conclusion = "none"
  /\ pc = "select"
  /\ exitStatus \in BOOLEAN
  /\ answered = "none" /\ jobs = <<>> /\ looked = 0
  /\ annotations = {} /\ annotationCache = [j \in Jobs |-> NotCached]
  /\ forbidden = FALSE /\ early = {}

-----------------------------------------------------------------------------
(* GitHub, where jobs start, are annotated while they run, and end, some    *)
(* without having run.                                                     *)

Job(j) ==
  \/ /\ jobStatus[j] = "queued"
     /\ jobStatus' = [jobStatus EXCEPT ![j] = "in_progress"]
     /\ UNCHANGED <<annotated, conclusion>>
  \/ /\ jobStatus[j] = "in_progress" /\ j \notin annotated
     /\ annotated' = annotated \cup {j}
     /\ UNCHANGED <<jobStatus, conclusion>>
  \/ /\ jobStatus[j] # "completed"
     /\ jobStatus' = [jobStatus EXCEPT ![j] = "completed"]
     /\ UNCHANGED <<annotated, conclusion>>

Conclude ==
  /\ conclusion = "none"
  /\ \A j \in Jobs : jobStatus[j] = "completed"
  /\ conclusion' \in {"success", "failure"}
  /\ UNCHANGED <<jobStatus, annotated>>

Others ==
  /\ ~Ended
  /\ Conclude \/ \E j \in Jobs : Job(j)
  /\ UNCHANGED <<pc, exitStatus, read>>

-----------------------------------------------------------------------------
(* The command. *)

ExitOf(c) == IF exitStatus /\ c # "success" THEN "failed" ELSE "ok"

Select ==
  /\ pc = "select"
  /\ pc' = IF conclusion = "none" THEN "run" ELSE ExitOf(conclusion)
  /\ UNCHANGED <<actions, exitStatus, read>>

GetRun ==
  /\ pc = "run"
  /\ answered' = conclusion
  /\ pc' = "jobs"
  /\ UNCHANGED <<actions, exitStatus, jobs, looked, annotations, annotationCache,
                 forbidden, early>>

\* A new list of annotations is begun.
GetJobs ==
  /\ pc = "jobs"
  /\ jobs' = jobStatus
  /\ looked' = 0 /\ annotations' = {} /\ forbidden' = FALSE
  /\ early' = early \cup {j \in Jobs : /\ jobStatus[j] # "completed"
                                       /\ \E k \in j .. MaxJobs : jobStatus[k] # "in_progress"}
  /\ pc' = "annotations"
  /\ UNCHANGED <<actions, exitStatus, answered, annotationCache>>

Cached(j) == annotationCache[j] # NotCached

NextJob(j) == pc = "annotations" /\ j = looked + 1 /\ j \in Jobs

TakeCached(j) ==
  /\ NextJob(j)
  /\ Cached(j)
  /\ annotations' = annotationCache[j]
  /\ looked' = j
  /\ UNCHANGED <<actions, pc, exitStatus, answered, jobs, annotationCache, forbidden,
                 early>>

\* Slip: what has been fetched is kept, whatever the job does.
GetAnnotationsOnce(j) ==
  /\ NextJob(j)
  /\ ~Cached(j)
  /\ annotations' = annotations \cup (annotated \cap {j})
  /\ annotationCache' = [annotationCache EXCEPT ![j] = annotations']
  /\ looked' = j
  /\ UNCHANGED <<actions, pc, exitStatus, answered, jobs, forbidden, early>>

GetAnnotations(j) ==
  /\ NextJob(j)
  /\ ~Cached(j)
  /\ annotations' = annotations \cup (annotated \cap {j})
  /\ annotationCache' = IF jobs[j] = "in_progress" THEN annotationCache
                        ELSE [annotationCache EXCEPT ![j] = annotations']
  /\ looked' = j
  /\ UNCHANGED <<actions, pc, exitStatus, answered, jobs, forbidden, early>>

\* A token may not be allowed to see annotations; then no more are asked for.
Forbidden(j) ==
  /\ "forbidden" \in Faults
  /\ NextJob(j)
  /\ ~Cached(j)
  /\ forbidden' = TRUE
  /\ looked' = MaxJobs
  /\ UNCHANGED <<actions, pc, exitStatus, answered, jobs, annotations, annotationCache,
                 early>>

Render ==
  /\ pc = "annotations" /\ looked = MaxJobs
  /\ pc' = IF answered = "none" THEN "sleep" ELSE ExitOf(answered)
  /\ UNCHANGED <<actions, exitStatus, read>>

Sleep ==
  /\ pc = "sleep"
  /\ pc' = "run"
  /\ UNCHANGED <<actions, exitStatus, read>>

RequestFails ==
  /\ "request" \in Faults
  /\ pc \in {"select", "run", "jobs"} \/ \E j \in Jobs : NextJob(j) /\ ~Cached(j)
  /\ pc' = "error"
  /\ UNCHANGED <<actions, exitStatus, read>>

Command ==
  \/ Select \/ GetRun \/ GetJobs \/ Render \/ Sleep \/ RequestFails
  \/ \E j \in Jobs : TakeCached(j) \/ GetAnnotations(j) \/ Forbidden(j)

Stop == Ended /\ UNCHANGED vars

Next == Command \/ Others \/ Stop

\* The command runs; nothing is assumed of the jobs.
Spec == Init /\ [][Next]_vars /\ WF_vars(Command)

-----------------------------------------------------------------------------
(* Properties. *)

Statuses == {"queued", "in_progress", "completed"}

TypeOK ==
  /\ jobStatus \in [Jobs -> Statuses]
  /\ annotated \subseteq Jobs /\ annotations \subseteq Jobs /\ early \subseteq Jobs
  /\ {conclusion, answered} \subseteq {"none", "success", "failure"}
  /\ pc \in {"select", "run", "jobs", "annotations", "sleep", "ok", "failed", "error"}
  /\ {exitStatus, forbidden} \subseteq BOOLEAN
  /\ jobs = <<>> \/ jobs \in [Jobs -> Statuses]
  /\ looked \in 0 .. MaxJobs
  /\ annotationCache \in [Jobs -> {NotCached} \cup SUBSET Jobs]

\* What is on the screen at the end shows every job as completed, though the
\* run and its jobs are asked for at different times, and has the annotations
\* of every job, unless they may not be seen, or it had not completed when it
\* or a job after it was cached; and the exit status is the run's.
SuccessMeansShown ==
  pc \in {"ok", "failed"} =>
    /\ pc = "failed" <=> exitStatus /\ conclusion = "failure"
    /\ Watched => /\ \A j \in Jobs : jobs[j] = "completed"
                  /\ annotations \subseteq annotated
                  /\ forbidden \/ annotated \subseteq annotations \cup early

\* The command ends when the run has.
AtRest == Ended \/ conclusion = "none"

=============================================================================
