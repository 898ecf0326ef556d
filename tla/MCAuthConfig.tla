---------------------------- MODULE MCAuthConfig ----------------------------
(* AuthConfig on two accounts.  In most runs alice has two tokens, so that   *)
(* logging in again replaces one token by another, and bob has one.  The     *)
(* run of two concurrent commands gives each account one token.              *)
EXTENDS AuthConfig, TLC

CONSTANTS alice, bob, a1, a2, b1, p1, p2

MCUsers  == {alice, bob}
MCTokens == {a1, a2, b1}
MCTokenOwner == [t \in MCTokens |-> IF t = b1 THEN bob ELSE alice]

OneTokenEach      == {a1, b1}
OneTokenEachOwner == [t \in OneTokenEach |-> IF t = b1 THEN bob ELSE alice]

\* The two processes may be exchanged, and so may the two accounts as long as
\* their tokens are exchanged with them.
ProcSwap    == (p1 :> p2) @@ (p2 :> p1)
AccountSwap == (alice :> bob) @@ (bob :> alice) @@ (a1 :> b1) @@ (b1 :> a1)
Unswapped   == [x \in {p1, p2, alice, bob, a1, b1} |-> x]
Symmetry == {Unswapped, ProcSwap @@ Unswapped, AccountSwap @@ Unswapped,
             ProcSwap @@ AccountSwap}

\* Commands whose keyring calls and writes succeed, none of which is killed.
UndisturbedNext ==
  \E p \in Procs :
    \/ Start(p) \/ Command(p) \/ Activate(p)
    \/ DropActive(p) \/ DropUser(p) \/ Rollback(p) \/ WriteSection(p) \/ Exit(p)

UndisturbedSpec == Init /\ [][UndisturbedNext]_vars

=============================================================================
