---------------------------- MODULE MCMigration ----------------------------
(* MultiAccountMigration with one token per account. *)
EXTENDS MultiAccountMigration

CONSTANTS alice, bob, ta, tb, h1, h2, p1, p2

MCUsers == {alice, bob}
MCTokens == {ta, tb}
MCTokenOwner == [t \in MCTokens |-> IF t = ta THEN alice ELSE bob]

=============================================================================
