-------------------------- MODULE MCReleaseCreate --------------------------
(* ReleaseCreate on two files, or on three of which two share a name. *)
EXTENDS ReleaseCreate

CONSTANTS f1, f2, f3, n1, n2

MCNameOf == [a \in Assets |-> CASE a = f1 -> n1 [] a = f2 -> n2 [] a = f3 -> n2]

=============================================================================
