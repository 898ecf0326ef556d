----------------------------- MODULE AuthConfig -----------------------------
(***************************************************************************)
(* The account store of gh for one host: the host's section of hosts.yml,  *)
(* the encrypted keyring, and the commands that change them (gh auth       *)
(* login, refresh, switch, logout and gh config set --host).               *)
(*                                                                         *)
(* A command is a process.  It reads hosts.yml once when it starts, works  *)
(* on its own copy, calls the keyring one entry at a time and writes the   *)
(* whole section back at the end.  There is no lock: several commands may  *)
(* run at once, each may be killed between two steps, the keyring may fail *)
(* or time out, and the write may fail.                                    *)
(*                                                                         *)
(* Abstracted: the other keys of the section (git_protocol, editor, ...),  *)
(* the order in which users are listed, and commands that an environment   *)
(* token makes refuse to run (AuthTokenWriteable) before changing anything.*)
(***************************************************************************)
EXTENDS Naturals, FiniteSets

CONSTANTS
  Users,          \* account names
  Tokens,         \* OAuth tokens
  TokenOwner,     \* the account a token authenticates as
  NoUser,         \* the empty account name
  NoToken,        \* the empty token
  Procs,          \* gh processes
  KeyringFaults,  \* how a keyring call may fail: a subset of {"error", "timeout"}
  WriteMayFail,   \* whether writing hosts.yml may fail
  MayCrash,       \* whether a process may be killed
  MaxLate         \* bound on the keyring requests left unanswered

ASSUME AccountAssumption ==
  /\ NoUser \notin Users
  /\ NoToken \notin Tokens
  /\ TokenOwner \in [Tokens -> Users]
  /\ IsFiniteSet(Users)

ASSUME FaultAssumption ==
  /\ KeyringFaults \subseteq {"error", "timeout"}
  /\ WriteMayFail \in BOOLEAN
  /\ MayCrash \in BOOLEAN
  /\ MaxLate \in Nat

VARIABLES
  disk,     \* the host's section as stored in hosts.yml
  keyring,  \* the keyring entries of service "gh:<host>", by account name
  late,     \* keyring requests that timed out in gh but may still be served
  pc,       \* what each process does next
  mem,      \* each process's copy of the section
  job       \* each process's command and its local variables

vars == <<disk, keyring, late, pc, mem, job>>

-----------------------------------------------------------------------------
(* Data. *)

MaybeToken == Tokens \cup {NoToken}
MaybeUser  == Users \cup {NoUser}

\* The entry under the empty account name holds the host's active token.
ActiveSlot == NoUser
Slots      == Users \cup {ActiveSlot}

\* hosts.<host>.user, .oauth_token, the keys of .users, .users.<u>.oauth_token
Section == [user : MaybeUser, oauth : MaybeToken,
            users : SUBSET Users, tok : [Users -> MaybeToken]]

NoHost == [user |-> NoUser, oauth |-> NoToken,
           users |-> {}, tok |-> [u \in Users |-> NoToken]]

Ops == {"none", "login", "refresh", "switch", "logout", "config"}

\* target: the account being activated; got: its keyring token; the rest is
\* what SwitchUser remembers of the previously active account.
Job == [op : Ops, target : MaybeUser, got : MaybeToken, prevUser : MaybeUser,
        prevToken : MaybeToken, prevSource : {"none", "keyring", "oauth_token"}]

NoJob == [op |-> "none", target |-> NoUser, got |-> NoToken, prevUser |-> NoUser,
          prevToken |-> NoToken, prevSource |-> "none"]

Labels == {"idle", "ready", "clear", "get", "set", "place", "write",
           "dropActive", "dropUser", "rollback", "failed"}

-----------------------------------------------------------------------------
(* Token lookup, given a section and the keyring. *)

\* ActiveToken: the plain-text token, else the active account's keyring entry,
\* else whatever the active slot holds.
ActiveToken(s, kr) ==
  IF s.oauth # NoToken THEN s.oauth
  ELSE IF s.user # NoUser /\ kr[s.user] # NoToken THEN kr[s.user]
  ELSE kr[ActiveSlot]

TokenForUser(s, kr, u) == IF kr[u] # NoToken THEN kr[u] ELSE s.tok[u]

-----------------------------------------------------------------------------
(* The keyring service.  A request is answered ("ok"), refused ("error"),  *)
(* or given up on after three seconds ("timeout"): then gh goes on as after*)
(* an error while the request may still be served later, or never.         *)

Results == {"ok"} \cup KeyringFaults

\* Set, or Delete when tok is NoToken.
KeyringPut(slot, tok, res) ==
  \/ /\ res = "ok"
     /\ keyring' = [keyring EXCEPT ![slot] = tok]
     /\ UNCHANGED late
  \/ /\ res = "error"
     /\ UNCHANGED <<keyring, late>>
  \/ /\ res = "timeout"
     /\ Cardinality(late) < MaxLate
     /\ late' = late \cup {<<slot, tok>>}
     /\ UNCHANGED keyring

\* Get: every error, not found included, is the absence of a token.
KeyringGet(slot, res) == IF res = "ok" THEN keyring[slot] ELSE NoToken

\* A request that gh gave up on is served after all.
LateRequest ==
  \E r \in late :
    /\ keyring' = [keyring EXCEPT ![r[1]] = r[2]]
    /\ late' = late \ {r}
    /\ UNCHANGED <<disk, pc, mem, job>>

-----------------------------------------------------------------------------
(* A process. *)

Goto(p, from, to) == pc[p] = from /\ pc' = [pc EXCEPT ![p] = to]

\* NewConfig: the only time hosts.yml is read.
Start(p) ==
  /\ Goto(p, "idle", "ready")
  /\ mem' = [mem EXCEPT ![p] = disk]
  /\ UNCHANGED <<disk, keyring, late, job>>

\* Login up to activateUser: store the token under the account, in the
\* keyring, or in the section if insecure storage was asked for or the keyring
\* refused.  A token that did reach the keyring is removed from the section.
StoreToken(p, t, op) ==
  LET u == TokenOwner[t] IN
  /\ Goto(p, "ready", "clear")
  /\ \E secure \in BOOLEAN, res \in Results :
       /\ IF secure THEN KeyringPut(u, t, res)
                    ELSE res = "ok" /\ UNCHANGED <<keyring, late>>
       /\ mem' = [mem EXCEPT
            ![p].users  = @ \cup {u},
            ![p].tok[u] = IF secure /\ res = "ok" THEN NoToken ELSE t]
  /\ job' = [job EXCEPT ![p].op = op, ![p].target = u]
  /\ UNCHANGED disk

\* gh auth login: the account name is the one the token authenticates as.
Login(p) == \E t \in Tokens : StoreToken(p, t, "login")

\* gh auth refresh: a new token is accepted only for the active account.
Refresh(p) ==
  \E t \in Tokens :
    /\ mem[p].users # {}
    /\ mem[p].user \in {NoUser, TokenOwner[t]}
    /\ StoreToken(p, t, "refresh")

\* SwitchUser up to activateUser: remember the active account, its token and
\* where the token came from.  The lookup's two keyring reads may each fail.
Switch(p) ==
  /\ Goto(p, "ready", "clear")
  /\ mem[p].user # NoUser
  /\ \E u \in mem[p].users, r1, r2 \in Results :
       LET s     == mem[p]
           own   == KeyringGet(s.user, r1)
           found == IF own # NoToken THEN own ELSE KeyringGet(ActiveSlot, r2)
           fromKeyring == s.oauth = NoToken /\ found # NoToken
       IN job' = [job EXCEPT ![p] =
            [op |-> "switch", target |-> u, got |-> NoToken, prevUser |-> s.user,
             prevToken  |-> IF fromKeyring THEN found ELSE s.oauth,
             prevSource |-> IF fromKeyring THEN "keyring" ELSE "oauth_token"]]
  /\ UNCHANGED <<disk, keyring, late, mem>>

\* Logout of the only account: the host disappears from the section, then the
\* active slot and the account's keyring entry are deleted.
LogoutLast(p) ==
  /\ Goto(p, "ready", "dropActive")
  /\ \E u \in mem[p].users :
       /\ Cardinality(mem[p].users) < 2
       /\ job' = [job EXCEPT ![p].op = "logout", ![p].target = u]
  /\ mem' = [mem EXCEPT ![p] = NoHost]
  /\ UNCHANGED <<disk, keyring, late>>

\* The section without account u.
WithoutUser(s, u) == [s EXCEPT !.users = @ \ {u}, !.tok[u] = NoToken]

\* Logout of one of several accounts: if it was not the active one the section
\* is written at once, otherwise another account is activated first.
LogoutInactive(p) ==
  /\ Goto(p, "ready", "write")
  /\ \E u \in mem[p].users :
       /\ Cardinality(mem[p].users) >= 2
       /\ mem[p].user # u
       /\ mem' = [mem EXCEPT ![p] = WithoutUser(@, u)]
  /\ job' = [job EXCEPT ![p].op = "logout"]
  /\ UNCHANGED <<disk, keyring, late>>

\* A slip: the active account is removed but no other one is activated.
LogoutActiveNoSwitch(p) ==
  /\ Goto(p, "ready", "write")
  /\ \E u \in mem[p].users :
       /\ Cardinality(mem[p].users) >= 2
       /\ mem[p].user = u
       /\ mem' = [mem EXCEPT ![p] = WithoutUser(@, u)]
  /\ job' = [job EXCEPT ![p].op = "logout"]
  /\ UNCHANGED <<disk, keyring, late>>

LogoutActive(p) ==
  /\ Goto(p, "ready", "clear")
  /\ \E u \in mem[p].users : \E next \in mem[p].users \ {u} :
       /\ mem[p].user = u
       /\ mem' = [mem EXCEPT ![p] = WithoutUser(@, u)]
       /\ job' = [job EXCEPT ![p].op = "logout", ![p].target = next]
  /\ UNCHANGED <<disk, keyring, late>>

\* gh config set --host: no modelled key changes, but the whole section is
\* written back as this process read it.
ConfigSet(p) ==
  /\ Goto(p, "ready", "write")
  /\ job' = [job EXCEPT ![p].op = "config"]
  /\ UNCHANGED <<disk, keyring, late, mem>>

\* The two deletions of LogoutLast; their errors are ignored.
DropActive(p) ==
  /\ Goto(p, "dropActive", "dropUser")
  /\ \E res \in Results : KeyringPut(ActiveSlot, NoToken, res)
  /\ UNCHANGED <<disk, mem, job>>

DropUser(p) ==
  /\ Goto(p, "dropUser", "write")
  /\ \E res \in Results : KeyringPut(job[p].target, NoToken, res)
  /\ UNCHANGED <<disk, mem, job>>

-----------------------------------------------------------------------------
(* activateUser, one action per keyring call. *)

\* A slip: every command undoes what only SwitchUser has remembered.
OnErrorAlwaysUndo(p) == "rollback"

\* Where an error of activateUser leads: only SwitchUser undoes anything.
OnError(p) == IF job[p].op = "switch" THEN "rollback" ELSE "failed"

\* A slip: the host's plain-text token stays.
ClearActiveKeepsOauth(p) ==
  /\ Goto(p, "clear", "get")
  /\ \E res \in Results : KeyringPut(ActiveSlot, NoToken, res)
  /\ UNCHANGED <<disk, mem, job>>

ClearActive(p) ==
  /\ Goto(p, "clear", "get")
  /\ \E res \in Results : KeyringPut(ActiveSlot, NoToken, res)
  /\ mem' = [mem EXCEPT ![p].oauth = NoToken]
  /\ UNCHANGED <<disk, job>>

GetUserToken(p) ==
  \E res \in Results :
    LET t == KeyringGet(job[p].target, res) IN
    /\ Goto(p, "get", IF t # NoToken THEN "set" ELSE "place")
    /\ job' = [job EXCEPT ![p].got = t]
    /\ UNCHANGED <<disk, keyring, late, mem>>

\* A slip: the token is moved to the active slot instead of copied.
SetActiveMoves(p) ==
  \E res \in Results :
    /\ Goto(p, "set", IF res = "ok" THEN "place" ELSE OnError(p))
    /\ IF res = "ok"
       THEN /\ keyring' = [keyring EXCEPT ![ActiveSlot] = job[p].got,
                                          ![job[p].target] = NoToken]
            /\ UNCHANGED late
       ELSE KeyringPut(ActiveSlot, job[p].got, res)
    /\ UNCHANGED <<disk, mem, job>>

SetActive(p) ==
  \E res \in Results :
    /\ Goto(p, "set", IF res = "ok" THEN "place" ELSE OnError(p))
    /\ KeyringPut(ActiveSlot, job[p].got, res)
    /\ UNCHANGED <<disk, mem, job>>

\* A slip: the token is placed but the active account is not updated.
PlaceTokenOnly(p) ==
  LET t == mem[p].tok[job[p].target] IN
  /\ Goto(p, "place", IF job[p].got # NoToken \/ t # NoToken THEN "write" ELSE OnError(p))
  /\ mem' = [mem EXCEPT ![p].oauth = IF t # NoToken THEN t ELSE @]
  /\ job' = [job EXCEPT ![p].got = NoToken]
  /\ UNCHANGED <<disk, keyring, late>>

\* Move the plain-text token of the account, if any, to the host; then make
\* the account the active one.
PlaceToken(p) ==
  LET u == job[p].target
      t == mem[p].tok[u]
      tokenSwitched == job[p].got # NoToken \/ t # NoToken
  IN
  /\ Goto(p, "place", IF tokenSwitched THEN "write" ELSE OnError(p))
  /\ mem' = IF tokenSwitched
            THEN [mem EXCEPT ![p].user = u,
                             ![p].oauth = IF t # NoToken THEN t ELSE @]
            ELSE mem
  /\ job' = [job EXCEPT ![p].got = NoToken]
  /\ UNCHANGED <<disk, keyring, late>>

-----------------------------------------------------------------------------
(* The end of a process. *)

Stop(p) ==
  /\ pc' = [pc EXCEPT ![p] = "idle"]
  /\ mem' = [mem EXCEPT ![p] = NoHost]
  /\ job' = [job EXCEPT ![p] = NoJob]

\* Write: the section of this process replaces the stored one, or nothing does.
WriteSection(p) ==
  /\ pc[p] = "write"
  /\ disk' = mem[p]
  /\ Stop(p)
  /\ UNCHANGED <<keyring, late>>

WriteFails(p) ==
  /\ WriteMayFail
  /\ Goto(p, "write", OnError(p))
  /\ UNCHANGED <<disk, keyring, late, mem, job>>

\* A slip: after undoing the switch in memory, the section is saved.
RollbackSaves(p) ==
  LET j == job[p] IN
  /\ Goto(p, "rollback", "write")
  /\ IF j.prevSource = "keyring"
     THEN \E res \in Results : KeyringPut(ActiveSlot, j.prevToken, res)
     ELSE UNCHANGED <<keyring, late>>
  /\ mem' = [mem EXCEPT
       ![p].user  = j.prevUser,
       ![p].oauth = IF j.prevSource = "oauth_token" THEN j.prevToken ELSE @]
  /\ UNCHANGED <<disk, job>>

\* SwitchUser after an error of activateUser.
Rollback(p) ==
  LET j == job[p] IN
  /\ Goto(p, "rollback", "failed")
  /\ IF j.prevSource = "keyring"
     THEN \E res \in Results : KeyringPut(ActiveSlot, j.prevToken, res)
     ELSE UNCHANGED <<keyring, late>>
  /\ mem' = [mem EXCEPT
       ![p].user  = j.prevUser,
       ![p].oauth = IF j.prevSource = "oauth_token" THEN j.prevToken ELSE @]
  /\ UNCHANGED <<disk, job>>

\* The process exits after an error, or is killed at any point before its end.
Exit(p)  == pc[p] = "failed" /\ Stop(p) /\ UNCHANGED <<disk, keyring, late>>
Crash(p) ==
  /\ MayCrash
  /\ pc[p] \notin {"idle", "failed"}
  /\ Stop(p)
  /\ UNCHANGED <<disk, keyring, late>>

-----------------------------------------------------------------------------

Init ==
  /\ disk = NoHost
  /\ keyring = [s \in Slots |-> NoToken]
  /\ late = {}
  /\ pc = [p \in Procs |-> "idle"]
  /\ mem = [p \in Procs |-> NoHost]
  /\ job = [p \in Procs |-> NoJob]

Activate(p) == ClearActive(p) \/ GetUserToken(p) \/ SetActive(p) \/ PlaceToken(p)

Command(p) ==
  \/ Login(p) \/ Refresh(p) \/ Switch(p) \/ ConfigSet(p)
  \/ LogoutLast(p) \/ LogoutInactive(p) \/ LogoutActive(p)

Finish(p) ==
  \/ DropActive(p) \/ DropUser(p) \/ Rollback(p)
  \/ WriteSection(p) \/ WriteFails(p) \/ Exit(p) \/ Crash(p)

Next ==
  \/ \E p \in Procs : Start(p) \/ Command(p) \/ Activate(p) \/ Finish(p)
  \/ LateRequest

Spec == Init /\ [][Next]_vars

-----------------------------------------------------------------------------
(* Properties that hold with any number of concurrent commands, whatever   *)
(* crashes, and whatever the keyring and the file system refuse.           *)

OwnedBy(t, u) == t # NoToken => u \in Users /\ TokenOwner[t] = u

\* Types; only SwitchUser, which has remembered an account, ever undoes
\* anything, and a process inside activateUser knows which account it is for.
TypeOK ==
  /\ disk \in Section
  /\ keyring \in [Slots -> MaybeToken]
  /\ late \in SUBSET (Slots \X MaybeToken)
  /\ pc \in [Procs -> Labels]
  /\ mem \in [Procs -> Section]
  /\ job \in [Procs -> Job]
  /\ \A p \in Procs :
       /\ pc[p] = "rollback" => job[p].prevUser \in Users
       /\ pc[p] \in {"clear", "get", "set", "place", "dropUser"} => job[p].target \in Users

\* No command ever stores an account's token as another account's: neither
\* under users.<u>, nor in the keyring, nor as the host's token.
OwnTokens ==
  /\ \A u \in Users : OwnedBy(disk.tok[u], u) /\ OwnedBy(keyring[u], u)
  /\ OwnedBy(disk.oauth, disk.user)

\* "A host must always have an active user" (logout.go): the active account of
\* a stored section is one of its users, and only an empty section has none.
ActiveUserListed ==
  /\ IF disk.user = NoUser THEN disk = NoHost ELSE disk.user \in disk.users
  /\ \A u \in Users : disk.tok[u] # NoToken => u \in disk.users

\* The host's plain-text token, which versions of gh that know one account per
\* host read, is the plain-text token of the active account.
HostTokenIsUserToken == disk.oauth # NoToken => disk.oauth = disk.tok[disk.user]

-----------------------------------------------------------------------------
(* The inductive invariant behind them. *)

\* Every plain-text token belongs to the listed account it is stored under.
SectionOK(s) ==
  \A u \in Users : s.tok[u] # NoToken => u \in s.users /\ TokenOwner[s.tok[u]] = u

\* A section that may be written: see ActiveUserListed, HostTokenIsUserToken.
Settled(s) ==
  /\ IF s.user = NoUser THEN s.users = {} /\ s.oauth = NoToken
                        ELSE s.user \in s.users
  /\ s.oauth # NoToken => s.oauth = s.tok[s.user]

Activating == {"clear", "get", "set", "place"}

\* A process at label l with copy s and local variables j.
LocalInv(l, s, j) ==
  /\ SectionOK(s)
  /\ l \in {"ready", "write", "dropActive", "dropUser"} => Settled(s)
  /\ l \in Activating => j.target \in s.users
  /\ l \in {"get", "set", "place"} => s.oauth = NoToken
  /\ l \in {"set", "place"} => OwnedBy(j.got, j.target)
  /\ l \in {"dropActive", "dropUser"} => j.target \in Users
  /\ j.op = "switch" => j.prevUser \in Users
  /\ l = "rollback" => j.op = "switch"

\* Keyring entries kr and the requests lt that may still be served.
KeyringInv(kr, lt) ==
  /\ \A u \in Users : OwnedBy(kr[u], u)
  /\ \A r \in lt : r[1] \in Users => OwnedBy(r[2], r[1])

\* What makes the four invariants above inductive: the same facts about every
\* process's own copy at the points where it may be written, and about the
\* keyring requests that may still be served.
StoreInv ==
  /\ SectionOK(disk) /\ Settled(disk)
  /\ KeyringInv(keyring, late)
  /\ \A p \in Procs : LocalInv(pc[p], mem[p], job[p])

-----------------------------------------------------------------------------
(* Properties of commands run one after another. *)

Quiescent == \A p \in Procs : pc[p] = "idle"

-----------------------------------------------------------------------------
(* What comments in the code say, and the code does not do. *)

\* config.go, Logout: "It will remove the auth token from the encrypted storage
\* if it exists there."
LogoutRemovesKeyringToken ==
  Quiescent => \A u \in Users \ disk.users : keyring[u] = NoToken

=============================================================================
