----------------------- MODULE MultiAccountMigration -----------------------
(***************************************************************************)
(* The migration every gh command runs before anything else: it turns a    *)
(* configuration with one account per host into one with several.          *)
(*                                                                         *)
(* A process reads hosts.yml and config.yml, migrates its copy host by     *)
(* host (asking the keyring for the host's token, the host for the account *)
(* name if the configuration has none, and storing the token under the     *)
(* account), and only then writes hosts.yml, and config.yml with the new   *)
(* version.  Any of these may fail, processes may be killed, and several   *)
(* may migrate at once; whatever did not complete is retried by the next   *)
(* command.                                                                *)
(*                                                                         *)
(* Abstracted: the other keys of a host, which the migration leaves alone, *)
(* and the order of the hosts.                                             *)
(***************************************************************************)
EXTENDS FiniteSets

CONSTANTS
  Hosts, Users, Tokens,
  TokenOwner,   \* the account a token authenticates as
  NoUser,       \* no account name
  Anonymous,    \* the name "x-access-token"
  NoToken,
  NoHost,       \* no host
  Procs,
  Faults        \* what may go wrong: a subset of AllFaults

AllFaults == {"keyringGet", "keyringSet", "network", "write", "crash"}

ASSUME AccountAssumption ==
  /\ NoUser \notin Users /\ Anonymous \notin Users /\ NoUser # Anonymous
  /\ NoToken \notin Tokens /\ NoHost \notin Hosts
  /\ TokenOwner \in [Tokens -> Users]
  /\ Faults \subseteq AllFaults

VARIABLES
  hosts,    \* hosts.yml
  version,  \* the version in config.yml
  keyring,  \* for each host, the keyring entries by account name
  pc, mem,  \* of each process: what it does next and its copy of hosts.yml
  todo,     \* hosts it still has to migrate
  host,     \* the host it is migrating
  source    \* the token it found for that host, and the account it belongs to

vars == <<hosts, version, keyring, pc, mem, todo, host, source>>
locals == <<mem, todo, host, source>>

-----------------------------------------------------------------------------

PreVersion  == ""
PostVersion == "1"

MaybeToken == Tokens \cup {NoToken}

\* The entry under the empty account name.
ActiveSlot == NoUser
Slots      == Users \cup {ActiveSlot}

Entry == [present : BOOLEAN, user : Users \cup {NoUser, Anonymous}, oauth : MaybeToken,
          users : SUBSET Users, tok : [Users -> MaybeToken]]

NoEntry == [present |-> FALSE, user |-> NoUser, oauth |-> NoToken,
            users |-> {}, tok |-> [u \in Users |-> NoToken]]

Source   == [token : MaybeToken, inKeyring : BOOLEAN, user : Users \cup {NoUser}]
NoSource == [token |-> NoToken, inKeyring |-> FALSE, user |-> NoUser]

\* The token a version of gh without accounts finds for a host.
HostToken(e, kr) == IF e.oauth # NoToken THEN e.oauth ELSE kr[ActiveSlot]

\* What such a version left behind for a host: nothing, or a host with or
\* without an account name, which if real is the token's owner, and a token in
\* plain text, in the keyring, in both or in neither.
OldHosts ==
  {o \in [present : BOOLEAN, user : Users \cup {NoUser, Anonymous},
          oauth : MaybeToken, slot : MaybeToken] :
     LET t == IF o.oauth # NoToken THEN o.oauth ELSE o.slot IN
     IF o.present THEN o.user \in Users /\ t # NoToken => TokenOwner[t] = o.user
                  ELSE o.user = NoUser /\ t = NoToken}

OldEntry(o) == [NoEntry EXCEPT !.present = o.present, !.user = o.user, !.oauth = o.oauth]

OldKeyring(o) == [s \in Slots |-> IF s = ActiveSlot THEN o.slot ELSE NoToken]

-----------------------------------------------------------------------------
(* One process. *)

Goto(p, from, to) == pc[p] = from /\ pc' = [pc EXCEPT ![p] = to]

\* Slip: what was migrated before the error is written all the same.
RefuseButWrite(p, from, fault) ==
  /\ fault \in Faults
  /\ Goto(p, from, "failed")
  /\ hosts' = mem[p]
  /\ UNCHANGED <<version, keyring, locals>>

\* A refusal leaves the files alone and ends the command.
Refuse(p, from, fault) ==
  /\ fault \in Faults
  /\ Goto(p, from, "failed")
  /\ UNCHANGED <<hosts, version, keyring, locals>>

\* NewConfig and Migrate's checks of the version.
Read(p) ==
  /\ Goto(p, "idle", IF version = PostVersion THEN "done"
                     ELSE IF version # PreVersion THEN "failed"
                     ELSE "next")
  /\ mem'  = [mem EXCEPT ![p] = hosts]
  /\ todo' = [todo EXCEPT ![p] = {h \in Hosts : hosts[h].present}]
  /\ UNCHANGED <<hosts, version, keyring, host, source>>

NextHost(p) ==
  \E h \in todo[p] :
    /\ Goto(p, "next", "getToken")
    /\ host' = [host EXCEPT ![p] = h]
    /\ todo' = [todo EXCEPT ![p] = @ \ {h}]
    /\ UNCHANGED <<hosts, version, keyring, mem, source>>

AllMigrated(p) ==
  /\ todo[p] = {}
  /\ Goto(p, "next", "writeHosts")
  /\ UNCHANGED <<hosts, version, keyring, locals>>

\* getToken: the plain-text token, else the keyring's; with neither the host is
\* dropped from the copy.
GetToken(p) ==
  LET h == host[p]
      e == mem[p][h]
      t == HostToken(e, keyring[h])
  IN
  /\ Goto(p, "getToken", IF t = NoToken THEN "next" ELSE "getUser")
  /\ source' = [source EXCEPT ![p] =
       [token |-> t, inKeyring |-> e.oauth = NoToken /\ t # NoToken, user |-> NoUser]]
  /\ mem' = IF t = NoToken THEN [mem EXCEPT ![p][h] = NoEntry] ELSE mem
  /\ UNCHANGED <<hosts, version, keyring, todo, host>>

\* Slip: a keyring that cannot be read is taken to be empty.
GetTokenDrops(p) ==
  /\ "keyringGet" \in Faults
  /\ Goto(p, "getToken", "next")
  /\ mem[p][host[p]].oauth = NoToken
  /\ mem' = [mem EXCEPT ![p][host[p]] = NoEntry]
  /\ UNCHANGED <<hosts, version, keyring, todo, host, source>>

\* A keyring that cannot be read is an error only if the keyring is asked.
GetTokenFails(p) ==
  /\ Refuse(p, "getToken", "keyringGet")
  /\ mem[p][host[p]].oauth = NoToken

\* Slip: the name of an anonymous account is taken for a name.
NamedAnonymous(e) == e.user # NoUser

\* getUsername: the configured name, or the one the host knows the token's
\* owner by.
Named(e) == e.user \in Users

GetUsername(p) ==
  LET e == mem[p][host[p]] IN
  /\ Goto(p, "getUser", "config")
  /\ source' = [source EXCEPT ![p].user =
                  IF Named(e) THEN e.user ELSE TokenOwner[source[p].token]]
  /\ UNCHANGED <<hosts, version, keyring, mem, todo, host>>

GetUsernameFails(p) ==
  /\ Refuse(p, "getUser", "network")
  /\ ~Named(mem[p][host[p]])

\* Slip: the token is moved instead of copied.
MigrateConfigMoves(p) ==
  LET e == mem[p][host[p]]
      u == source[p].user
  IN
  /\ Goto(p, "config", "token")
  /\ mem' = [mem EXCEPT ![p][host[p]] =
       [e EXCEPT !.user = u, !.users = e.users \cup {u}, !.tok[u] = e.oauth,
                 !.oauth = NoToken]]
  /\ UNCHANGED <<hosts, version, keyring, todo, host, source>>

\* migrateConfig: the account becomes the active and only one, with the host's
\* plain-text token if it has one.
MigrateConfig(p) ==
  LET e == mem[p][host[p]]
      u == source[p].user
  IN
  /\ Goto(p, "config", "token")
  /\ mem' = [mem EXCEPT ![p][host[p]] =
       [e EXCEPT !.user = u, !.users = e.users \cup {u},
                 !.tok[u] = IF e.oauth # NoToken THEN e.oauth ELSE e.tok[u]]]
  /\ UNCHANGED <<hosts, version, keyring, todo, host, source>>

\* Slip: a token found in the keyring is taken to be stored already.
MigrateTokenSkips(p) ==
  /\ Goto(p, "token", "next")
  /\ UNCHANGED <<hosts, version, keyring, locals>>

\* migrateToken: a token found in the keyring is also stored by account name.
MigrateToken(p) ==
  LET s == source[p] IN
  /\ Goto(p, "token", "next")
  /\ keyring' = IF s.inKeyring THEN [keyring EXCEPT ![host[p]][s.user] = s.token]
                               ELSE keyring
  /\ UNCHANGED <<hosts, version, locals>>

\* A keyring call that timed out may have been served.
MigrateTokenFails(p) ==
  LET s == source[p] IN
  /\ "keyringSet" \in Faults
  /\ s.inKeyring
  /\ Goto(p, "token", "failed")
  /\ keyring' \in {keyring, [keyring EXCEPT ![host[p]][s.user] = s.token]}
  /\ UNCHANGED <<hosts, version, locals>>

\* Write: hosts.yml first, then config.yml; the first failure ends it.
WriteHosts(p) ==
  /\ Goto(p, "writeHosts", "writeVersion")
  /\ hosts' = mem[p]
  /\ UNCHANGED <<version, keyring, locals>>

WriteVersion(p) ==
  /\ Goto(p, "writeVersion", "done")
  /\ version' = PostVersion
  /\ UNCHANGED <<hosts, keyring, locals>>

WriteFails(p) == \E l \in {"writeHosts", "writeVersion"} : Refuse(p, l, "write")

\* The command that follows the migration, or was refused, ends; or the process
\* is killed.  The next command starts afresh.
Forget(p) ==
  /\ pc'     = [pc EXCEPT ![p] = "idle"]
  /\ mem'    = [mem EXCEPT ![p] = [h \in Hosts |-> NoEntry]]
  /\ todo'   = [todo EXCEPT ![p] = {}]
  /\ host'   = [host EXCEPT ![p] = NoHost]
  /\ source' = [source EXCEPT ![p] = NoSource]
  /\ UNCHANGED <<hosts, version, keyring>>

Exit(p)  == pc[p] \in {"done", "failed"} /\ Forget(p)
Crash(p) == "crash" \in Faults /\ pc[p] \notin {"idle", "done", "failed"} /\ Forget(p)

-----------------------------------------------------------------------------

Init ==
  /\ \E old \in [Hosts -> OldHosts] :
       /\ hosts = [h \in Hosts |-> OldEntry(old[h])]
       /\ keyring = [h \in Hosts |-> OldKeyring(old[h])]
  /\ version = PreVersion
  /\ pc = [p \in Procs |-> "idle"]
  /\ mem = [p \in Procs |-> [h \in Hosts |-> NoEntry]]
  /\ todo = [p \in Procs |-> {}]
  /\ host = [p \in Procs |-> NoHost]
  /\ source = [p \in Procs |-> NoSource]

MigrateHost(p) ==
  \/ GetToken(p) \/ GetTokenFails(p) \/ GetUsername(p) \/ GetUsernameFails(p)
  \/ MigrateConfig(p) \/ MigrateToken(p) \/ MigrateTokenFails(p)

Step(p) ==
  \/ Read(p) \/ NextHost(p) \/ AllMigrated(p) \/ MigrateHost(p)
  \/ WriteHosts(p) \/ WriteVersion(p) \/ WriteFails(p)
  \/ Exit(p) \/ Crash(p)

Next == \E p \in Procs : Step(p)

Spec == Init /\ [][Next]_vars

-----------------------------------------------------------------------------
(* Properties. *)

\* Types; a process past getToken has a token, past getUsername an account.
TypeOK ==
  /\ hosts \in [Hosts -> Entry]
  /\ version \in {PreVersion, PostVersion}
  /\ keyring \in [Hosts -> [Slots -> MaybeToken]]
  /\ mem \in [Procs -> [Hosts -> Entry]]
  /\ todo \in [Procs -> SUBSET Hosts]
  /\ host \in [Procs -> Hosts \cup {NoHost}]
  /\ source \in [Procs -> Source]
  /\ \A p \in Procs :
       /\ pc[p] \in {"idle", "next", "getToken", "getUser", "config", "token",
                     "writeHosts", "writeVersion", "done", "failed"}
       /\ pc[p] \in {"getToken", "getUser", "config", "token"} => host[p] \in Hosts
       /\ pc[p] \in {"getUser", "config", "token"} => source[p].token # NoToken
       /\ pc[p] \in {"config", "token"} => source[p].user = TokenOwner[source[p].token]

\* "The original config is left alone" (multi_account.go): the token a version
\* of gh without accounts finds for a host is never changed by any step.
OldVersionsUnaffected ==
  [][\A h \in Hosts : HostToken(hosts[h], keyring[h])' = HostToken(hosts[h], keyring[h])]_vars

\* A host in the new shape: its only account is active, and TokenForUser finds
\* for it the token the host had before.
Migrated(e, kr) ==
  /\ e.user \in Users
  /\ e.users = {e.user}
  /\ HostToken(e, kr) # NoToken
  /\ HostToken(e, kr) = IF kr[e.user] # NoToken THEN kr[e.user] ELSE e.tok[e.user]
  /\ TokenOwner[HostToken(e, kr)] = e.user

\* Once the version says so every host is migrated and will never be looked at
\* again, however many attempts failed or were killed on the way.
VersionMeansMigrated ==
  version = PostVersion =>
    \A h \in Hosts : hosts[h].present => Migrated(hosts[h], keyring[h])

\* hosts.yml has either no migrated host or only migrated hosts: no error at one
\* host leaves the hosts before it migrated.
HostsAllOrNothing ==
  \/ \A h \in Hosts : hosts[h].users = {}
  \/ \A h \in Hosts : hosts[h].present => Migrated(hosts[h], keyring[h])

\* A host that has a token, if only one in a keyring that cannot be read just
\* now, is not dropped from hosts.yml.
HostsWithTokenKept ==
  \A h \in Hosts : ~hosts[h].present => keyring[h][ActiveSlot] = NoToken

=============================================================================
