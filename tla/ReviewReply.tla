---------------------------- MODULE ReviewReply ----------------------------
(***************************************************************************)
(* gh pr reply-comment.  The server refuses a reply to a review comment    *)
(* while the user has a pending review of the pull request; then, with     *)
(* --auto-submit-pending, gh submits the user's pending reviews and posts  *)
(* the reply again.  Each request is repeated after a timeout, a status of *)
(* 429 or 500 and above, up to MaxRetries times, although an unanswered    *)
(* one may have been served, or be served later.                           *)
(*                                                                         *)
(* Meanwhile the user and other reviewers open, submit and delete reviews  *)
(* elsewhere.  Reviews are numbered in the order of their creation, which  *)
(* is that of the listing.                                                 *)
(***************************************************************************)
EXTENDS Naturals, Sequences, FiniteSets

CONSTANTS
  MaxReviews,  \* bound on the reviews of the pull request
  PageSize,    \* per_page
  MaxRetries,  \* length of retrySchedule
  Faults       \* a subset of {"refused", "lost"}: how requests may fail

VARIABLES
  state,        \* on the server: of each review; "auto" if gh has submitted it
  mine,         \* the reviews whose author is the user
  replies,      \* on the server: how often the reply has been posted
  lateReplies,  \* unanswered replies that may still be served
  lateSubmits,  \* reviews with an unanswered submission that may still be served
  pc,           \* the next request, or how the command has ended
  autoSubmit,   \* --auto-submit-pending
  attempt,      \* repetitions of the current request
  page,         \* the next page of the listing
  pendingIDs,   \* the pending reviews found
  count,        \* how many of them have been submitted
  unheard       \* replies sent and never answered

server == <<state, replies, lateReplies, lateSubmits>>
found  == <<page, pendingIDs, count>>
vars   == <<server, mine, pc, autoSubmit, attempt, found, unheard>>

Reviews == 1 .. MaxReviews

Requests == {"reply", "login", "list", "submit", "reply_again"}

\* Each way of failing has a message of its own.
Messages == {"not_replied", "pending_review", "no_login", "not_submitted",
             "none_pending", "not_replied_after_submitting"}

Ended == pc \in Messages \cup {"ok"}

Init ==
  /\ mine \in SUBSET Reviews
  /\ state = [r \in Reviews |-> "unused"]
  /\ replies = 0 /\ lateReplies = 0 /\ lateSubmits = {}
  /\ pc = "reply"
  /\ autoSubmit \in BOOLEAN
  /\ attempt = 0
  /\ page = 1 /\ pendingIDs = <<>> /\ count = 0
  /\ unheard = 0

-----------------------------------------------------------------------------
(* The server, which allows a user one pending review per pull request.    *)

HavePending == \E r \in mine : state[r] = "pending"

CanReply == ~HavePending

CanSubmit(r) == state[r] = "pending"

\* The listing, and where in it a review is.
Listed == {r \in Reviews : state[r] \notin {"unused", "deleted"}}

Position(r) == Cardinality({q \in Listed : q <= r})

PostReply == CanReply /\ replies' = replies + 1 /\ UNCHANGED <<state, lateReplies, lateSubmits>>

AutoSubmit(r) ==
  CanSubmit(r) /\ state' = [state EXCEPT ![r] = "auto"] /\ UNCHANGED <<replies, lateReplies>>

LateReply ==
  /\ lateReplies > 0 /\ lateReplies' = lateReplies - 1
  /\ CanReply /\ replies' = replies + 1
  /\ UNCHANGED <<state, lateSubmits, mine, pc, autoSubmit, attempt, found, unheard>>

LateSubmit ==
  /\ \E r \in lateSubmits : AutoSubmit(r) /\ lateSubmits' = lateSubmits \ {r}
  /\ UNCHANGED <<mine, pc, autoSubmit, attempt, found, unheard>>

\* Somebody opens the next review, or its author submits or deletes one.
ReviewElsewhere ==
  /\ \E r \in Reviews :
       \/ /\ state[r] = "unused" /\ \A q \in 1 .. r - 1 : state[q] # "unused"
          /\ r \in mine => ~HavePending
          /\ state' = [state EXCEPT ![r] = "pending"]
       \/ /\ state[r] = "pending"
          /\ \E s \in {"submitted", "deleted"} : state' = [state EXCEPT ![r] = s]
  /\ UNCHANGED <<replies, lateReplies, lateSubmits, mine, pc, autoSubmit, attempt, found, unheard>>

-----------------------------------------------------------------------------
(* RestClient: what becomes of a request, and what the command makes of it.*)

Replying == pc \in {"reply", "reply_again"}

Current == pendingIDs[count + 1]

\* The message an error of each request ends in.
ErrorOf(request) ==
  CASE request = "reply"              -> "not_replied"
    [] request = "login"              -> "no_login"
    [] request \in {"list", "submit"} -> "not_submitted"
    [] request = "reply_again"        -> "not_replied_after_submitting"

\* No answer, or one that cannot be read: served, to be served, or neither.
Unanswered ==
  \/ /\ Replying
     /\ unheard' = unheard + 1
     /\ \/ PostReply
        \/ lateReplies' = lateReplies + 1 /\ UNCHANGED <<state, replies, lateSubmits>>
        \/ UNCHANGED server
  \/ /\ pc = "submit"
     /\ UNCHANGED unheard
     /\ \/ AutoSubmit(Current) /\ UNCHANGED lateSubmits
        \/ lateSubmits' = lateSubmits \cup {Current} /\ UNCHANGED <<state, replies, lateReplies>>
        \/ UNCHANGED server
  \/ pc \in {"login", "list"} /\ UNCHANGED <<server, unheard>>

Retry ==
  /\ "lost" \in Faults /\ pc \in Requests
  /\ attempt < MaxRetries /\ attempt' = attempt + 1
  /\ Unanswered
  /\ UNCHANGED <<mine, pc, autoSubmit, found>>

\* The last attempt, or an error that is not retried.
GiveUp ==
  /\ "lost" \in Faults /\ pc \in Requests
  /\ pc' = ErrorOf(pc)
  /\ Unanswered
  /\ UNCHANGED <<mine, autoSubmit, attempt, found>>

Refused ==
  /\ "refused" \in Faults /\ pc \in Requests
  /\ pc' = ErrorOf(pc)
  /\ UNCHANGED <<server, mine, autoSubmit, attempt, found, unheard>>

-----------------------------------------------------------------------------
(* runReplyComment, when its requests are answered. *)

Goto(to) == pc' = to /\ attempt' = 0 /\ UNCHANGED <<mine, autoSubmit, unheard>>

\* Slip: the flag has the pending reviews submitted in any case.
RepliedOnTheWay ==
  /\ Replying
  /\ PostReply
  /\ Goto(IF pc = "reply" /\ autoSubmit THEN "login" ELSE "ok")
  /\ UNCHANGED found

Replied ==
  /\ Replying
  /\ PostReply
  /\ Goto("ok")
  /\ UNCHANGED found

\* Slip: the flag is not looked at.
SubmitUnasked ==
  /\ Replying /\ HavePending
  /\ Goto(IF pc = "reply" THEN "login" ELSE ErrorOf(pc))
  /\ UNCHANGED <<server, found>>

\* PendingReviewError; after the reviews have been submitted an error like any.
PendingReview ==
  /\ Replying /\ HavePending
  /\ Goto(CASE pc = "reply" /\ autoSubmit  -> "login"
            [] pc = "reply" /\ ~autoSubmit -> "pending_review"
            [] pc = "reply_again"          -> ErrorOf(pc))
  /\ UNCHANGED <<server, found>>

CurrentLogin == pc = "login" /\ Goto("list") /\ UNCHANGED <<server, found>>

\* Slip: everybody's pending reviews.
Pending(r) == state[r] = "pending"

OwnPending(r) == r \in mine /\ state[r] = "pending"

OnPage(r) == r \in Listed /\ Position(r) \in (page - 1) * PageSize + 1 .. page * PageSize

OnLastPage == Cardinality(Listed) <= page * PageSize

\* The only sequence of the reviews of a set in the order of the listing.
InOrder(S) ==
  {s \in [1 .. Cardinality(S) -> S] : \A i, j \in DOMAIN s : i < j => s[i] < s[j]}

\* What is pending on the page, as it is now, is added.
AddFound ==
  \E ids \in InOrder({r \in Reviews : OnPage(r) /\ OwnPending(r)}) :
    pendingIDs' = pendingIDs \o ids

\* Slip: after the last page the first is asked for, until a review is found.
ListUntilFound ==
  /\ pc = "list"
  /\ AddFound
  /\ Goto(IF OnLastPage /\ pendingIDs' # <<>> THEN "submit" ELSE "list")
  /\ page' = IF OnLastPage THEN 1 ELSE page + 1
  /\ UNCHANGED <<server, count>>

\* SubmitPendingReviews: a page of the listing.
ListPage ==
  /\ pc = "list"
  /\ AddFound
  /\ Goto(CASE ~OnLastPage                       -> "list"
            [] OnLastPage /\ pendingIDs' # <<>> -> "submit"
            [] OTHER                            -> "none_pending")
  /\ page' = page + 1
  /\ UNCHANGED <<server, count>>

Submitted ==
  /\ count' = count + 1
  /\ Goto(IF count' = Len(pendingIDs) THEN "reply_again" ELSE "submit")
  /\ UNCHANGED <<page, pendingIDs>>

\* Slip: a review that cannot be submitted is passed over.
SubmitOrPassOver ==
  /\ pc = "submit"
  /\ Submitted
  /\ IF CanSubmit(Current) THEN AutoSubmit(Current) ELSE UNCHANGED <<state, replies, lateReplies>>
  /\ UNCHANGED lateSubmits

SubmitReview ==
  /\ pc = "submit"
  /\ AutoSubmit(Current)
  /\ Submitted
  /\ UNCHANGED lateSubmits

\* It is no longer pending.
SubmitRefused ==
  /\ pc = "submit"
  /\ ~CanSubmit(Current)
  /\ Goto(ErrorOf(pc))
  /\ UNCHANGED <<server, found>>

Command ==
  \/ Retry \/ GiveUp \/ Refused
  \/ Replied \/ PendingReview \/ CurrentLogin \/ ListPage \/ SubmitReview \/ SubmitRefused

Stop == Ended /\ UNCHANGED vars

Next == Command \/ LateReply \/ LateSubmit \/ ReviewElsewhere \/ Stop

\* The scheduler runs gh, and a request is answered or given up by the HTTP
\* client.
Spec == Init /\ [][Next]_vars /\ WF_vars(Command)

-----------------------------------------------------------------------------
(* Properties. *)

ReviewStates == {"unused", "pending", "submitted", "auto", "deleted"}

\* Types; the reviews to submit are the user's own.
TypeOK ==
  /\ mine \subseteq Reviews
  /\ state \in [Reviews -> ReviewStates]
  /\ replies \in Nat /\ lateReplies \in Nat /\ unheard \in Nat
  /\ lateSubmits \subseteq mine
  /\ pc \in Requests \cup Messages \cup {"ok"}
  /\ autoSubmit \in BOOLEAN
  /\ attempt \in 0 .. MaxRetries
  /\ page \in 1 .. MaxReviews + 2
  /\ pendingIDs \in Seq(mine)
  /\ count \in 0 .. Len(pendingIDs)
  /\ pc = "submit" => count < Len(pendingIDs)

\* gh never posts the reply again after an answer: there are no more replies
\* than one for a command that succeeds, which has at least that one, and one
\* for every request whose answer never came.
RepliesAccountedFor ==
  /\ pc # "ok" => replies + lateReplies <= unheard
  /\ pc = "ok" => replies >= 1 /\ replies + lateReplies <= unheard + 1

\* Reviews are submitted on the user's behalf only with the flag, and only the
\* user's own; and a command that has done so, or whose request may still do
\* so, succeeds or says in its message that it was submitting.
AutoSubmitTold ==
  LET auto == {r \in Reviews : state[r] = "auto"} \cup lateSubmits IN
  /\ auto \subseteq mine
  /\ auto # {} => /\ autoSubmit
                  /\ pc \in {"submit", "reply_again", "ok", "not_submitted",
                             "not_replied_after_submitting"}

\* What was found pending has been submitted by gh itself before the reply is
\* posted again: not by somebody else, and not deleted meanwhile.
SubmittedBeforeReply ==
  /\ \A i \in 1 .. count : state[pendingIDs[i]] = "auto"
  /\ pc = "reply_again" => count = Len(pendingIDs) /\ count > 0

=============================================================================
