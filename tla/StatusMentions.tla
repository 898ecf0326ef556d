--------------------------- MODULE StatusMentions ---------------------------
(***************************************************************************)
(* LoadNotifications: gh status pages through the notifications and hands  *)
(* those that claim to mention the user, over an unbuffered channel, to    *)
(* Workers goroutines, which look the comment up.  Real mentions go over a *)
(* second channel to a collector, and are sorted in the end.               *)
(*                                                                         *)
(* Notifications are numbered in the order of the listing (n.index);       *)
(* those with another reason, organization or an excluded repository are   *)
(* not counted.  Workers are alike, so the model counts those that wait    *)
(* and those that have returned.                                           *)
(***************************************************************************)
EXTENDS Naturals, FiniteSets, Sequences, Functions

CONSTANTS
  MaxNotes,  \* at most so many notifications
  MaxPages,  \* pages fetched at most
  Workers,   \* fetchWorkers
  Answers    \* what looking up a comment may give

VARIABLES
  phase,       \* "page", "feed", "last", "wait", "drain", "ok" or "error"
  pages,       \* pages fetched
  listed, fed, \* notifications listed so far, and handed to workers
  progress,    \* of each notification: "new", "look_up", "send", or its answer
  idle, gone,  \* workers that wait, and workers that have returned
  aborted,     \* abortFetching has been called
  inHand,      \* what the collector has received and not yet appended
  mentions     \* s.Mentions

vars == <<phase, pages, listed, fed, progress, idle, gone, aborted, inHand, mentions>>

queue     == <<pages, listed, fed>>
collector == <<inHand, mentions>>

Notes == 1 .. MaxNotes
Busy  == {n \in Notes : progress[n] \in {"look_up", "send"}}
Ended == phase \in {"ok", "error"}

With(answer) == {n \in Notes : progress[n] = answer}

-----------------------------------------------------------------------------
(* The command's own goroutine. *)

Init ==
  /\ phase = "page"
  /\ pages = 0 /\ listed = 0 /\ fed = 0
  /\ progress = [n \in Notes |-> "new"]
  /\ idle = Workers /\ gone = 0
  /\ aborted = FALSE
  /\ inHand = {} /\ mentions = <<>>

\* A page with any number of notifications; the last if there is no next
\* one, it is not full, or it is not found (404).
NextPage ==
  /\ phase = "page"
  /\ pages' = pages + 1
  /\ listed' \in listed .. MaxNotes
  /\ phase' \in IF pages' = MaxPages THEN {"last"} ELSE {"feed", "last"}
  /\ UNCHANGED <<fed, progress, idle, gone, aborted, collector>>

\* Any other error ends the loading; the deferred abortFetching is called.
PageFails ==
  /\ phase = "page"
  /\ "failed" \in Answers
  /\ phase' = "error"
  /\ aborted' = TRUE
  /\ UNCHANGED <<queue, progress, idle, gone, collector>>

\* toFetch <- n, received by a waiting worker, aborted or not.
Feed ==
  /\ phase \in {"feed", "last"}
  /\ fed < listed
  /\ idle > 0
  /\ fed' = fed + 1
  /\ progress' = [progress EXCEPT ![fed + 1] = "look_up"]
  /\ idle' = idle - 1
  /\ UNCHANGED <<phase, pages, listed, gone, aborted, collector>>

PageDone ==
  /\ fed = listed
  /\ \/ phase = "feed" /\ phase' = "page"
     \/ phase = "last" /\ phase' = "wait"   \* close(toFetch)
  /\ UNCHANGED <<queue, progress, idle, gone, aborted, collector>>

\* wg.Wait, and close(fetched).
WorkersReturned ==
  /\ phase = "wait"
  /\ gone = Workers
  /\ phase' = "drain"
  /\ UNCHANGED <<queue, progress, idle, gone, aborted, collector>>

\* sort.Slice: a permutation of s that does not descend.
Sorted(s) ==
  {t \in {[i \in DOMAIN s |-> s[p[i]]] : p \in Bijection(DOMAIN s, DOMAIN s)} :
     \A i, j \in DOMAIN s : i < j => t[i] <= t[j]}

\* Slip: the mentions are left in the order of their answers.
ReturnUnsorted ==
  /\ phase = "drain"
  /\ inHand = {}
  /\ phase' = IF aborted THEN "error" ELSE "ok"
  /\ UNCHANGED <<queue, progress, idle, gone, aborted, collector>>

\* The collector has closed doneCh.
Return ==
  /\ phase = "drain"
  /\ inHand = {}
  /\ mentions' \in Sorted(mentions)
  /\ phase' = IF aborted THEN "error" ELSE "ok"
  /\ UNCHANGED <<queue, progress, idle, gone, aborted, inHand>>

-----------------------------------------------------------------------------
(* Workers and the collector. *)

\* The switch on the answer: a worker selects again, or sends the mention
\* first, or returns: without an error after a 404, else with one.
LookedUp(n, answer) ==
  /\ progress[n] = "look_up"
  /\ progress' = [progress EXCEPT ![n] = IF answer = "mention" THEN "send" ELSE answer]
  /\ idle' = IF answer \in {"other", "forbidden"} THEN idle + 1 ELSE idle
  /\ gone' = IF answer \in {"not_found", "failed"} THEN gone + 1 ELSE gone
  /\ aborted' = (aborted \/ answer = "failed")
  /\ UNCHANGED <<phase, queue, collector>>

\* Slip: the worker selects again and starts the next lookup while the
\* mention is still to be sent.
SentTwice(n) ==
  /\ progress[n] = "send"
  /\ inHand = {}
  /\ inHand' = {n}
  /\ idle' = idle + 1
  /\ UNCHANGED <<phase, queue, progress, gone, aborted, mentions>>

\* fetched <- item: the worker goes on, the collector has it in hand.
Sent(n) ==
  /\ progress[n] = "send"
  /\ inHand = {}
  /\ inHand' = {n}
  /\ progress' = [progress EXCEPT ![n] = "mention"]
  /\ idle' = idle + 1
  /\ UNCHANGED <<phase, queue, gone, aborted, mentions>>

Collect ==
  \E n \in inHand :
    /\ mentions' = Append(mentions, n)
    /\ inHand' = {}
    /\ UNCHANGED <<phase, queue, progress, idle, gone, aborted>>

\* Slip: a worker does not notice that the channel is closed.
LeaveAborted ==
  /\ idle > 0
  /\ aborted
  /\ idle' = idle - 1 /\ gone' = gone + 1
  /\ UNCHANGED <<phase, queue, progress, aborted, collector>>

\* The context is cancelled or the channel closed.
Leave ==
  /\ idle > 0
  /\ aborted \/ phase = "wait"
  /\ idle' = idle - 1 /\ gone' = gone + 1
  /\ UNCHANGED <<phase, queue, progress, aborted, collector>>

Command == NextPage \/ PageFails \/ Feed \/ PageDone \/ WorkersReturned \/ Return

Look(n) == (\E answer \in Answers : LookedUp(n, answer)) \/ Sent(n)

\* gh exits when the command has returned: its goroutines do no more.
Next == ~Ended /\ (Command \/ Leave \/ Collect \/ \E n \in Notes : Look(n))

\* Goroutines run, and a lookup is answered or given up by the HTTP client.
Spec == Init /\ [][Next]_vars /\ WF_vars(Next)

-----------------------------------------------------------------------------
(* Properties. *)

\* Types, and no worker is lost or duplicated by a hand-over.
TypeOK ==
  /\ phase \in {"page", "feed", "last", "wait", "drain", "ok", "error"}
  /\ pages \in 0 .. MaxPages /\ listed \in 0 .. MaxNotes /\ fed \in 0 .. listed
  /\ progress \in [Notes -> Answers \cup {"new", "look_up", "send", "mention"}]
  /\ idle \in 0 .. Workers /\ gone \in 0 .. Workers
  /\ idle + gone + Cardinality(Busy) = Workers
  /\ aborted \in BOOLEAN
  /\ inHand \subseteq Notes /\ Cardinality(inHand) <= 1
  /\ mentions \in Seq(Notes) /\ Len(mentions) <= MaxNotes

\* Loading that succeeds has looked up every notification listed, and shows
\* the mentions among them, each once and in the order of the notifications.
MentionsComplete ==
  phase = "ok" =>
    /\ \A n \in 1 .. listed : progress[n] \notin {"new", "look_up", "send", "failed"}
    /\ Range(mentions) = With("mention")
    /\ \A i, j \in 1 .. Len(mentions) : i < j => mentions[i] < mentions[j]

\* The producer blocks for ever: nobody is left to receive.
Blocked == phase \in {"feed", "last"} /\ fed < listed /\ gone = Workers

\* Loading ends unless every worker has returned while there were
\* notifications to hand over, after an error or each after a 404.
AtRest == Ended \/ (Blocked /\ (aborted \/ Cardinality(With("not_found")) >= Workers))

=============================================================================
