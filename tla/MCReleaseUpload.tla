-------------------------- MODULE MCReleaseUpload --------------------------
(***************************************************************************)
(* ReleaseUpload on four files, of which the server gives f3 and f4 one    *)
(* name.  A command line has at most three of them: with f2 three names,   *)
(* one more than uploads run at once, with f4 two files of one name.       *)
(***************************************************************************)
EXTENDS ReleaseUpload

CONSTANTS f1, f2, f3, f4, n1, n2, n3

MCNameOf == [a \in Assets |-> CASE a = f1 -> n1 [] a = f2 -> n2 [] OTHER -> n3]

MCInit == Init /\ (given \subseteq {f1, f2, f3} \/ given \subseteq {f1, f3, f4})

MCSpec == MCInit /\ [][Next]_vars /\ Fairness

=============================================================================
