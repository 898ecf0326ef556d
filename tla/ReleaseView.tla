---------------------------- MODULE ReleaseView ----------------------------
(***************************************************************************)
(* What gh release create promises, as a visitor of the repository and the *)
(* caller of the command see it.  The release is public with all that was  *)
(* wanted in it or not at all; it may be withdrawn, but not once the       *)
(* command has reported success; and the command ends.                     *)
(***************************************************************************)

VARIABLES
  visible,  \* the assets visitors see, or Nothing if the release is not public
  outcome,  \* "running", "ok" or "error"
  wanted,   \* the assets of a complete release
  private   \* whether a draft was asked for

CONSTANT Nothing

vars == <<visible, outcome, wanted, private>>

Init == visible = Nothing /\ outcome = "running" /\ private \in BOOLEAN

Appear ==
  /\ outcome # "ok" /\ ~private
  /\ visible = Nothing /\ visible' = wanted
  /\ UNCHANGED outcome

\* Only a command that fails withdraws it; it may have failed before.
Withdraw ==
  /\ outcome # "ok"
  /\ visible # Nothing /\ visible' = Nothing
  /\ outcome' = "error"

\* The call that makes the release public may also be the last one.
Succeed ==
  /\ outcome = "running" /\ outcome' = "ok"
  /\ visible' = IF private THEN Nothing ELSE wanted

Fail ==
  /\ outcome = "running" /\ outcome' = "error"
  /\ visible' \in {visible, IF private THEN Nothing ELSE wanted}

End == (Succeed \/ Fail) /\ UNCHANGED <<wanted, private>>

Next == End \/ ((Appear \/ Withdraw) /\ UNCHANGED <<wanted, private>>)

Spec == Init /\ [][Next]_vars /\ WF_vars(End)

=============================================================================
