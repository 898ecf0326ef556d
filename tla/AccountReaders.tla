--------------------------- MODULE AccountReaders ---------------------------
(***************************************************************************)
(* Who else reads the account store.  It is remembered whether so far      *)
(* keyring calls have been refused at most (calm), and what another gh     *)
(* command would have read until then (readers): a kill, a failed write or *)
(* a time-out may well leave the active account without a token, which a   *)
(* later login repairs.                                                    *)
(***************************************************************************)
EXTENDS AuthConfig

VARIABLES calm, readers

\* What another gh command would read: see AccountView.
ReadersSee ==
  [user |-> disk.user, accounts |-> disk.users,
   token |-> IF disk.user = NoUser THEN NoToken ELSE ActiveToken(disk, keyring)]

Disturbed == late' # late \/ \E p \in Procs : WriteFails(p) \/ Crash(p)

ReadersInit == Init /\ calm = TRUE /\ readers = ReadersSee

ReadersNext ==
  /\ Next
  /\ calm' = (calm /\ ~Disturbed)
  /\ readers' = IF calm' THEN ReadersSee' ELSE readers

ReadersSpec == ReadersInit /\ [][ReadersNext]_<<vars, calm, readers>>

\* Between commands a host with an active account has a usable token, even if
\* any keyring call of any earlier command was refused.
ActiveAccountHasToken ==
  calm /\ Quiescent /\ disk.user # NoUser => ActiveToken(disk, keyring) # NoToken

View == INSTANCE AccountView WITH
  user <- readers.user, accounts <- readers.accounts, token <- readers.token

\* At every step of every command another process reads one of the states
\* AccountView allows: in particular never one account's name with another's
\* token, although the keyring and hosts.yml are changed one after the other.
ReadersSeeAccountView == View!Spec

=============================================================================
