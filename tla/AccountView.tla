---------------------------- MODULE AccountView ----------------------------
(***************************************************************************)
(* What a gh command promises to everybody else who reads the account      *)
(* store: at every moment a host has at most one active account, a set of  *)
(* accounts that one belongs to, and the token requests are made with,     *)
(* which is the active account's own.                                      *)
(*                                                                         *)
(* Each command is at most two visible steps.  The only state without a    *)
(* token is the one in the middle of logging out of the last account.      *)
(***************************************************************************)
CONSTANTS Users, Tokens, TokenOwner, NoUser, NoToken

VARIABLES user, token, accounts

vars == <<user, token, accounts>>

Init == user = NoUser /\ token = NoToken /\ accounts = {}

Use(t) == user' = TokenOwner[t] /\ token' = t

\* gh auth login: the account is added if need be and becomes the active one.
Login(t) == Use(t) /\ accounts' = accounts \cup {TokenOwner[t]}

\* A new token of the active account is seen before the login completes.
Renew(t) == user = TokenOwner[t] /\ token' = t /\ UNCHANGED <<user, accounts>>

\* gh auth switch.
Switch(t) == TokenOwner[t] \in accounts /\ Use(t) /\ UNCHANGED accounts

\* gh auth logout of one of several accounts: another one takes over if it was
\* the active one.
LogoutInactive(u) ==
  /\ u \in accounts \ {user}
  /\ accounts' = accounts \ {u}
  /\ UNCHANGED <<user, token>>

LogoutActive(t) ==
  /\ TokenOwner[t] \in accounts \ {user}
  /\ Use(t)
  /\ accounts' = accounts \ {user}

\* gh auth logout of the last account: the token goes first, then the account.
Revoke == accounts = {user} /\ token' = NoToken /\ UNCHANGED <<user, accounts>>
Leave  == accounts = {user} /\ user' = NoUser /\ token' = NoToken /\ accounts' = {}

Next ==
  \/ \E t \in Tokens : Login(t) \/ Renew(t) \/ Switch(t) \/ LogoutActive(t)
  \/ \E u \in accounts : LogoutInactive(u)
  \/ Revoke \/ Leave

Spec == Init /\ [][Next]_vars

=============================================================================
