-------------------------- MODULE MigrationProofs --------------------------
(***************************************************************************)
(* MultiAccountMigration's invariants for any hosts, accounts, tokens,     *)
(* number of processes and combination of faults.                          *)
(*                                                                         *)
(* Two things never change: the plain-text token of a host in hosts.yml    *)
(* and the keyring's entry under the empty name, and with them the token   *)
(* that the host has.  All that a migration ever stores in the keyring is  *)
(* that token under its owner's name (Evolves), so a host that is migrated *)
(* in somebody's copy remains so whatever the others do: LEMMA Interfere.  *)
(***************************************************************************)
EXTENDS MultiAccountMigration, TLAPS

Labels  == {"idle", "next", "getToken", "getUser", "config", "token",
            "writeHosts", "writeVersion", "done", "failed"}
AtHost  == {"getToken", "getUser", "config", "token"}
Working == AtHost \cup {"next", "writeHosts", "writeVersion"}

\* Every host is in the new shape.
Complete(H, K) == \A h \in Hosts : H[h].present => Migrated(H[h], K[h])

\* A copy e of an entry with the plain-text token oauth in hosts.yml: the same
\* token, whose owner is its account, and not dropped while there is one.
CopyOK(e, oauth, kr) ==
  /\ e.oauth = oauth
  /\ ~e.present => HostToken(e, kr) = NoToken /\ e.users = {}
  /\ e.user \in Users /\ HostToken(e, kr) # NoToken
       => TokenOwner[HostToken(e, kr)] = e.user

\* What the keyring has for an account is the host's token, and the owner's.
KeyringOK(e, kr) ==
  \A u \in Users : kr[u] # NoToken =>
    kr[u] = HostToken(e, kr) /\ TokenOwner[kr[u]] = u

SharedOK(H, V, K) ==
  /\ H \in [Hosts -> Entry]
  /\ V \in {PreVersion, PostVersion}
  /\ K \in [Hosts -> [Slots -> MaybeToken]]
  /\ \A h \in Hosts : CopyOK(H[h], H[h].oauth, K[h]) /\ KeyringOK(H[h], K[h])
  /\ (\A h \in Hosts : H[h].users = {}) \/ Complete(H, K)
  /\ V = PostVersion => Complete(H, K)

\* The host at hand: the token that was found, and whose it is.  Once the copy
\* is migrated only the keyring's entry may be missing.
SourceOK(l, e, s, kr) ==
  /\ l \in {"getUser", "config", "token"} =>
       /\ s.token = HostToken(e, kr) /\ s.token # NoToken
       /\ s.inKeyring <=> e.oauth = NoToken
  /\ l \in {"config", "token"} => s.user = TokenOwner[s.token]
  /\ l = "token" =>
       /\ e.user = s.user /\ e.users = {s.user}
       /\ ~s.inKeyring => Migrated(e, kr)

\* The copy of a process at work: what it need not look at again is migrated.
CopiesOK(l, m, td, h, H, K) ==
  \A g \in Hosts :
    /\ CopyOK(m[g], H[g].oauth, K[g])
    /\ m[g].users = {} \/ Migrated(m[g], K[g]) \/ (l = "token" /\ g = h)
    /\ g \in td \/ ~m[g].present \/ Migrated(m[g], K[g]) \/ (l \in AtHost /\ g = h)

LocalTypes(l, m, td, h, s) ==
  /\ l \in Labels
  /\ m \in [Hosts -> Entry]
  /\ td \in SUBSET Hosts
  /\ h \in Hosts \cup {NoHost}
  /\ s \in Source

LocalOK(l, m, td, h, s, H, K) ==
  /\ LocalTypes(l, m, td, h, s)
  /\ l \in AtHost => h \in Hosts /\ SourceOK(l, m[h], s, K[h])
  /\ l \in Working => CopiesOK(l, m, td, h, H, K)
  /\ l = "writeHosts" => td = {}
  /\ l = "writeVersion" => Complete(H, K)

IInv ==
  /\ SharedOK(hosts, version, keyring)
  /\ pc \in [Procs -> Labels]
  /\ mem \in [Procs -> [Hosts -> Entry]]
  /\ todo \in [Procs -> SUBSET Hosts]
  /\ host \in [Procs -> Hosts \cup {NoHost}]
  /\ source \in [Procs -> Source]
  /\ \A p \in Procs :
       LocalOK(pc[p], mem[p], todo[p], host[p], source[p], hosts, keyring)

-----------------------------------------------------------------------------
(* What the others do. *)

\* Tokens in plain text stay, and the keyring gets hosts' tokens only.
Evolves(H, K, H2, K2) ==
  \A h \in Hosts :
    /\ H2[h].oauth = H[h].oauth
    /\ K2[h][ActiveSlot] = K[h][ActiveSlot]
    /\ \A u \in Users :
         K2[h][u] = K[h][u] \/ (K2[h][u] = HostToken(H[h], K[h]) /\ K2[h][u] # NoToken)

LEMMA SameToken ==
  ASSUME NEW e, NEW kr, NEW kr2, kr2[ActiveSlot] = kr[ActiveSlot]
  PROVE  HostToken(e, kr2) = HostToken(e, kr)
BY DEF HostToken

LEMMA MigratedStays ==
  ASSUME NEW e, NEW kr, NEW kr2, Migrated(e, kr),
         kr2[ActiveSlot] = kr[ActiveSlot],
         \A u \in Users :
           kr2[u] = kr[u] \/ (kr2[u] = HostToken(e, kr) /\ kr2[u] # NoToken)
  PROVE  Migrated(e, kr2)
<1>1. HostToken(e, kr2) = HostToken(e, kr) BY SameToken
<1>2. e.user \in Users BY DEF Migrated
<1>3. kr2[e.user] = kr[e.user] \/ (kr2[e.user] = HostToken(e, kr) /\ kr2[e.user] # NoToken)
  BY <1>2
<1> QED BY <1>1, <1>2, <1>3 DEF Migrated

\* A copy with the plain-text token of hosts.yml sees the token evolve alike.
LEMMA CopyStays ==
  ASSUME NEW H, NEW K, NEW H2, NEW K2, Evolves(H, K, H2, K2),
         NEW h \in Hosts, NEW e, CopyOK(e, H[h].oauth, K[h])
  PROVE  /\ CopyOK(e, H2[h].oauth, K2[h])
         /\ HostToken(e, K2[h]) = HostToken(e, K[h])
         /\ Migrated(e, K[h]) => Migrated(e, K2[h])
<1>1. /\ H2[h].oauth = H[h].oauth
      /\ K2[h][ActiveSlot] = K[h][ActiveSlot]
      /\ \A u \in Users :
           K2[h][u] = K[h][u] \/ (K2[h][u] = HostToken(H[h], K[h]) /\ K2[h][u] # NoToken)
  BY DEF Evolves
<1>2. HostToken(e, K2[h]) = HostToken(e, K[h]) BY <1>1, SameToken
<1>3. HostToken(H[h], K[h]) = HostToken(e, K[h]) BY DEF CopyOK, HostToken
<1>4. Migrated(e, K[h]) => Migrated(e, K2[h]) BY <1>1, <1>3, MigratedStays
<1>5. CopyOK(e, H2[h].oauth, K2[h]) BY <1>1, <1>2 DEF CopyOK
<1> QED BY <1>2, <1>4, <1>5

\* What holds of a process goes on holding while others take steps.
LEMMA Interfere ==
  ASSUME NEW l, NEW m, NEW td, NEW h, NEW s, NEW H, NEW K, NEW H2, NEW K2,
         LocalOK(l, m, td, h, s, H, K),
         Evolves(H, K, H2, K2),
         Complete(H, K) => Complete(H2, K2)
  PROVE  LocalOK(l, m, td, h, s, H2, K2)
<1>1. LocalTypes(l, m, td, h, s) BY DEF LocalOK
<1>2. ASSUME l \in Working PROVE CopiesOK(l, m, td, h, H2, K2)
  <2> SUFFICES ASSUME NEW g \in Hosts
               PROVE  /\ CopyOK(m[g], H2[g].oauth, K2[g])
                      /\ Migrated(m[g], K[g]) => Migrated(m[g], K2[g])
    BY <1>2 DEF CopiesOK, LocalOK
  <2>1. CopyOK(m[g], H[g].oauth, K[g]) BY <1>2 DEF CopiesOK, LocalOK
  <2> QED BY <2>1, CopyStays
<1>3. ASSUME l \in AtHost PROVE h \in Hosts /\ SourceOK(l, m[h], s, K2[h])
  <2>1. h \in Hosts /\ SourceOK(l, m[h], s, K[h]) BY <1>3 DEF LocalOK
  <2>2. CopyOK(m[h], H[h].oauth, K[h]) BY <1>3, <2>1 DEF LocalOK, Working, CopiesOK
  <2>3. /\ HostToken(m[h], K2[h]) = HostToken(m[h], K[h])
        /\ Migrated(m[h], K[h]) => Migrated(m[h], K2[h])
    BY <2>1, <2>2, CopyStays
  <2> QED BY <2>1, <2>3 DEF SourceOK
<1> QED BY <1>1, <1>2, <1>3 DEF LocalOK

-----------------------------------------------------------------------------
(* Steps of a process. *)

LEMMA Reflexive == Evolves(hosts, keyring, hosts, keyring)
BY DEF Evolves

\* A step changes p's own state, and the shared state as the others expect.
LEMMA OneProcess ==
  ASSUME IInv, NEW p \in Procs,
         NEW l, NEW m, NEW td, NEW h, NEW s,
         LocalOK(l, m, td, h, s, hosts', keyring'),
         pc' = [pc EXCEPT ![p] = l], mem' = [mem EXCEPT ![p] = m],
         todo' = [todo EXCEPT ![p] = td], host' = [host EXCEPT ![p] = h],
         source' = [source EXCEPT ![p] = s],
         SharedOK(hosts', version', keyring'),
         Evolves(hosts, keyring, hosts', keyring'),
         Complete(hosts, keyring) => Complete(hosts', keyring')
  PROVE  IInv'
<1>1. ASSUME NEW q \in Procs
      PROVE  LocalOK(pc'[q], mem'[q], todo'[q], host'[q], source'[q], hosts', keyring')
  <2>1. CASE q = p BY <2>1 DEF IInv
  <2>2. CASE q # p
    <3>1. LocalOK(pc[q], mem[q], todo[q], host[q], source[q], hosts', keyring')
      BY Interfere DEF IInv
    <3> QED BY <2>2, <3>1 DEF IInv
  <2> QED BY <2>1, <2>2
<1>2. l \in Labels /\ m \in [Hosts -> Entry] /\ td \in SUBSET Hosts
      /\ h \in Hosts \cup {NoHost} /\ s \in Source
  BY DEF LocalOK, LocalTypes
<1> QED BY <1>1, <1>2 DEF IInv

\* A step that changes p's own state only.
LEMMA Private ==
  ASSUME IInv, NEW p \in Procs,
         NEW l, NEW m, NEW td, NEW h, NEW s,
         LocalOK(l, m, td, h, s, hosts, keyring),
         pc' = [pc EXCEPT ![p] = l], mem' = [mem EXCEPT ![p] = m],
         todo' = [todo EXCEPT ![p] = td], host' = [host EXCEPT ![p] = h],
         source' = [source EXCEPT ![p] = s],
         UNCHANGED <<hosts, version, keyring>>
  PROVE  IInv'
<1>1. SharedOK(hosts', version', keyring') BY DEF IInv
<1>2. Evolves(hosts, keyring, hosts', keyring') BY Reflexive
<1> QED BY <1>1, <1>2, OneProcess

\* Own state that stays.
LEMMA Same ==
  ASSUME IInv, NEW p \in Procs
  PROVE  /\ mem = [mem EXCEPT ![p] = mem[p]] /\ todo = [todo EXCEPT ![p] = todo[p]]
         /\ host = [host EXCEPT ![p] = host[p]]
         /\ source = [source EXCEPT ![p] = source[p]]
         /\ LocalOK(pc[p], mem[p], todo[p], host[p], source[p], hosts, keyring)
         /\ LocalTypes(pc[p], mem[p], todo[p], host[p], source[p])
BY DEF IInv, LocalOK

\* Where a process has ended nothing but types is asked of its state.
LEMMA AtRest ==
  ASSUME NEW l \in {"idle", "done", "failed"}, NEW m, NEW td, NEW h, NEW s,
         LocalTypes(l, m, td, h, s), NEW H, NEW K
  PROVE  LocalOK(l, m, td, h, s, H, K)
BY DEF LocalOK, AtHost, Working

LEMMA RefuseStep ==
  ASSUME IInv, NEW p \in Procs, NEW from, NEW fault, Refuse(p, from, fault)
  PROVE  IInv'
<1>1. LocalOK("failed", mem[p], todo[p], host[p], source[p], hosts, keyring)
  BY Same, AtRest DEF LocalTypes, Labels
<1>2. pc' = [pc EXCEPT ![p] = "failed"] /\ UNCHANGED <<hosts, version, keyring>>
  BY DEF Refuse, Goto
<1>3. /\ mem' = [mem EXCEPT ![p] = mem[p]] /\ todo' = [todo EXCEPT ![p] = todo[p]]
      /\ host' = [host EXCEPT ![p] = host[p]]
      /\ source' = [source EXCEPT ![p] = source[p]]
  BY Same DEF Refuse, locals
<1> QED BY <1>1, <1>2, <1>3, Private

LEMMA ReadStep == ASSUME IInv, NEW p \in Procs, Read(p) PROVE IInv'
<1> DEFINE td == {h \in Hosts : hosts[h].present}
<1>1. PICK l \in {"done", "failed", "next"} : pc' = [pc EXCEPT ![p] = l]
  BY DEF Read, Goto
<1>2. LocalTypes(l, hosts, td, host[p], source[p])
  BY Same DEF LocalTypes, Labels, IInv, SharedOK
<1>3. ASSUME NEW g \in Hosts PROVE hosts[g].users = {} \/ Migrated(hosts[g], keyring[g]) \/ ~hosts[g].present
  BY DEF IInv, SharedOK, Complete
<1>4. CopiesOK("next", hosts, td, host[p], hosts, keyring)
  BY <1>3 DEF CopiesOK, IInv, SharedOK, CopyOK
<1>5. LocalOK(l, hosts, td, host[p], source[p], hosts, keyring)
  BY <1>1, <1>2, <1>4 DEF LocalOK, AtHost, Working
<1>6. /\ mem' = [mem EXCEPT ![p] = hosts] /\ todo' = [todo EXCEPT ![p] = td]
      /\ UNCHANGED <<hosts, version, keyring>>
  BY DEF Read
<1>7. host' = [host EXCEPT ![p] = host[p]] /\ source' = [source EXCEPT ![p] = source[p]]
  BY Same DEF Read
<1> HIDE DEF td
<1> QED BY <1>1, <1>5, <1>6, <1>7, Private

LEMMA NextHostStep == ASSUME IInv, NEW p \in Procs, NextHost(p) PROVE IInv'
<1>1. PICK h \in todo[p] :
        /\ pc[p] = "next" /\ pc' = [pc EXCEPT ![p] = "getToken"]
        /\ host' = [host EXCEPT ![p] = h]
        /\ todo' = [todo EXCEPT ![p] = todo[p] \ {h}]
        /\ UNCHANGED <<hosts, version, keyring, mem, source>>
  BY DEF NextHost, Goto, IInv
<1>2. h \in Hosts BY Same DEF LocalTypes
<1>3. CopiesOK("next", mem[p], todo[p], host[p], hosts, keyring)
  BY <1>1, Same DEF LocalOK, Working
<1>4. CopiesOK("getToken", mem[p], todo[p] \ {h}, h, hosts, keyring)
  BY <1>3 DEF CopiesOK, AtHost
<1>5. LocalTypes("getToken", mem[p], todo[p] \ {h}, h, source[p])
  BY <1>2, Same DEF LocalTypes, Labels
<1>6. LocalOK("getToken", mem[p], todo[p] \ {h}, h, source[p], hosts, keyring)
  BY <1>2, <1>4, <1>5 DEF LocalOK, SourceOK
<1>7. mem' = [mem EXCEPT ![p] = mem[p]] /\ source' = [source EXCEPT ![p] = source[p]]
  BY <1>1, Same
<1> QED BY <1>1, <1>6, <1>7, Private

LEMMA AllMigratedStep == ASSUME IInv, NEW p \in Procs, AllMigrated(p) PROVE IInv'
<1>1. pc[p] = "next" /\ todo[p] = {} BY DEF AllMigrated, Goto
<1>2. CopiesOK("next", mem[p], todo[p], host[p], hosts, keyring)
  BY <1>1, Same DEF LocalOK, Working
<1>3. CopiesOK("writeHosts", mem[p], todo[p], host[p], hosts, keyring)
  BY <1>2 DEF CopiesOK, AtHost
<1>4. LocalTypes("writeHosts", mem[p], todo[p], host[p], source[p])
  BY Same DEF LocalTypes, Labels
<1>5. LocalOK("writeHosts", mem[p], todo[p], host[p], source[p], hosts, keyring)
  BY <1>1, <1>3, <1>4 DEF LocalOK, AtHost
<1>6. pc' = [pc EXCEPT ![p] = "writeHosts"] /\ UNCHANGED <<hosts, version, keyring>>
  BY DEF AllMigrated, Goto
<1>7. /\ mem' = [mem EXCEPT ![p] = mem[p]] /\ todo' = [todo EXCEPT ![p] = todo[p]]
      /\ host' = [host EXCEPT ![p] = host[p]]
      /\ source' = [source EXCEPT ![p] = source[p]]
  BY Same DEF AllMigrated, locals
<1> QED BY <1>5, <1>6, <1>7, Private

-----------------------------------------------------------------------------
(* The steps for one host. *)

\* The process is at a host, and its copy of that host and the others is good.
LEMMA Here ==
  ASSUME IInv, NEW p \in Procs, pc[p] \in AtHost
  PROVE  /\ host[p] \in Hosts
         /\ mem[p][host[p]] \in Entry
         /\ CopyOK(mem[p][host[p]], hosts[host[p]].oauth, keyring[host[p]])
         /\ SourceOK(pc[p], mem[p][host[p]], source[p], keyring[host[p]])
         /\ CopiesOK(pc[p], mem[p], todo[p], host[p], hosts, keyring)
<1>1. LocalOK(pc[p], mem[p], todo[p], host[p], source[p], hosts, keyring) BY Same
<1>2. host[p] \in Hosts /\ SourceOK(pc[p], mem[p][host[p]], source[p], keyring[host[p]])
  BY <1>1 DEF LocalOK
<1>3. CopiesOK(pc[p], mem[p], todo[p], host[p], hosts, keyring)
  BY <1>1 DEF LocalOK, Working
<1>4. mem[p][host[p]] \in Entry BY <1>1, <1>2 DEF LocalOK, LocalTypes
<1>5. CopyOK(mem[p][host[p]], hosts[host[p]].oauth, keyring[host[p]])
  BY <1>2, <1>3 DEF CopiesOK
<1> QED BY <1>2, <1>3, <1>4, <1>5

\* The tokens of a host are tokens.
LEMMA TokenTypes ==
  ASSUME IInv, NEW h \in Hosts, NEW e \in Entry
  PROVE  /\ HostToken(e, keyring[h]) \in MaybeToken
         /\ HostToken(e, keyring[h]) # NoToken
              => TokenOwner[HostToken(e, keyring[h])] \in Users
<1>1. keyring[h][ActiveSlot] \in MaybeToken BY DEF IInv, SharedOK, Slots
<1>2. e.oauth \in MaybeToken BY DEF Entry
<1>3. HostToken(e, keyring[h]) \in MaybeToken BY <1>1, <1>2 DEF HostToken
<1> QED BY <1>3, AccountAssumption DEF MaybeToken

LEMMA GetTokenStep == ASSUME IInv, NEW p \in Procs, GetToken(p) PROVE IInv'
<1> DEFINE h == host[p]
           e == mem[p][h]
           t == HostToken(e, keyring[h])
           s == [token |-> t, inKeyring |-> e.oauth = NoToken /\ t # NoToken, user |-> NoUser]
           m == [mem[p] EXCEPT ![h] = NoEntry]
<1>1. pc[p] = "getToken" BY DEF GetToken, Goto
<1>2. h \in Hosts /\ e \in Entry /\ CopyOK(e, hosts[h].oauth, keyring[h])
  BY <1>1, Here DEF AtHost
<1>3. CopiesOK("getToken", mem[p], todo[p], h, hosts, keyring)
  BY <1>1, Here DEF AtHost
<1>4. t \in MaybeToken BY <1>2, TokenTypes
<1>5. s \in Source BY <1>4 DEF Source
<1>6. /\ source' = [source EXCEPT ![p] = s]
      /\ UNCHANGED <<hosts, version, keyring>>
      /\ todo' = [todo EXCEPT ![p] = todo[p]] /\ host' = [host EXCEPT ![p] = h]
  BY Same DEF GetToken
<1>7. CASE t # NoToken
  <2>1. pc' = [pc EXCEPT ![p] = "getUser"] BY <1>7 DEF GetToken, Goto
  <2>2. mem' = [mem EXCEPT ![p] = mem[p]] BY <1>7, Same DEF GetToken
  <2>3. LocalTypes("getUser", mem[p], todo[p], h, s)
    BY <1>5, Same DEF LocalTypes, Labels
  <2>4. CopiesOK("getUser", mem[p], todo[p], h, hosts, keyring)
    BY <1>3 DEF CopiesOK, AtHost
  <2>5. SourceOK("getUser", e, s, keyring[h])
    <3>1. s.token = t /\ (s.inKeyring <=> e.oauth = NoToken) BY <1>7
    <3> QED BY <3>1, <1>7 DEF SourceOK
  <2>6. LocalOK("getUser", mem[p], todo[p], h, s, hosts, keyring)
    BY <2>3, <2>4, <2>5, <1>2 DEF LocalOK
  <2> HIDE DEF s, h
  <2> QED BY <2>1, <2>2, <2>6, <1>6, Private
<1>8. CASE t = NoToken
  <2>1. pc' = [pc EXCEPT ![p] = "next"] BY <1>8 DEF GetToken, Goto
  <2>2. mem' = [mem EXCEPT ![p] = m] BY <1>8, <1>2, Same DEF GetToken, IInv
  <2>3. NoEntry \in Entry BY DEF NoEntry, Entry, MaybeToken
  <2>4. LocalTypes("next", m, todo[p], h, s)
    BY <1>5, <2>3, <1>2, Same DEF LocalTypes, Labels
  <2>5. CopyOK(NoEntry, hosts[h].oauth, keyring[h])
    BY <1>8, <1>2, AccountAssumption DEF CopyOK, NoEntry, HostToken
  <2>6. NoEntry.users = {} /\ ~NoEntry.present BY DEF NoEntry
  <2>7. ASSUME NEW g \in Hosts PROVE m[g] = IF g = h THEN NoEntry ELSE mem[p][g]
    BY <1>2, Same DEF LocalTypes
  <2>8. CopiesOK("next", m, todo[p], h, hosts, keyring)
    <3> HIDE DEF m, h
    <3> QED BY <1>3, <2>5, <2>6, <2>7 DEF CopiesOK
  <2>9. LocalOK("next", m, todo[p], h, s, hosts, keyring)
    BY <2>4, <2>8 DEF LocalOK, AtHost
  <2> HIDE DEF s, h, m
  <2> QED BY <2>1, <2>2, <2>9, <1>6, Private
<1> QED BY <1>7, <1>8

LEMMA GetUsernameStep == ASSUME IInv, NEW p \in Procs, GetUsername(p) PROVE IInv'
<1> DEFINE h == host[p]
           e == mem[p][h]
           u == IF Named(e) THEN e.user ELSE TokenOwner[source[p].token]
           s == [source[p] EXCEPT !.user = u]
<1>1. pc[p] = "getUser" BY DEF GetUsername, Goto
<1>2. /\ h \in Hosts /\ e \in Entry /\ CopyOK(e, hosts[h].oauth, keyring[h])
      /\ SourceOK("getUser", e, source[p], keyring[h])
      /\ CopiesOK("getUser", mem[p], todo[p], h, hosts, keyring)
  BY <1>1, Here DEF AtHost
<1>3. source[p] \in Source BY Same DEF LocalTypes
<1>4. u = TokenOwner[source[p].token] /\ u \in Users
  BY <1>2, TokenTypes DEF SourceOK, CopyOK, Named
<1> HIDE DEF u
<1>5. s \in Source /\ s.token = source[p].token /\ s.inKeyring = source[p].inKeyring /\ s.user = u
  BY <1>3, <1>4 DEF Source
<1>6. SourceOK("config", e, s, keyring[h]) BY <1>2, <1>4, <1>5 DEF SourceOK
<1>7. CopiesOK("config", mem[p], todo[p], h, hosts, keyring)
  BY <1>2 DEF CopiesOK, AtHost
<1>8. LocalTypes("config", mem[p], todo[p], h, s) BY <1>5, Same DEF LocalTypes, Labels
<1>9. LocalOK("config", mem[p], todo[p], h, s, hosts, keyring)
  BY <1>2, <1>6, <1>7, <1>8 DEF LocalOK
<1>10. source' = [source EXCEPT ![p] = s] BY DEF GetUsername, u
<1>11. /\ pc' = [pc EXCEPT ![p] = "config"] /\ UNCHANGED <<hosts, version, keyring>>
       /\ mem' = [mem EXCEPT ![p] = mem[p]]
       /\ todo' = [todo EXCEPT ![p] = todo[p]] /\ host' = [host EXCEPT ![p] = h]
  BY Same DEF GetUsername, Goto
<1> HIDE DEF s, h
<1> QED BY <1>9, <1>10, <1>11, Private

\* The entry that migrateConfig makes is in the new shape, except that a token
\* found in the keyring is not yet stored there by account.
LEMMA MigratedEntry ==
  ASSUME NEW e \in Entry, NEW b, NEW kr, NEW s, NEW e2 \in Entry,
         SourceOK("config", e, s, kr), CopyOK(e, b.oauth, kr), KeyringOK(b, kr),
         s.user \in Users,
         e.users = {} \/ Migrated(e, kr),
         e2.present = e.present, e2.oauth = e.oauth,
         e2.user = s.user, e2.users = e.users \cup {s.user},
         e.oauth # NoToken => e2.tok[s.user] = e.oauth
  PROVE  /\ SourceOK("token", e2, s, kr)
         /\ CopyOK(e2, b.oauth, kr)
<1>1. HostToken(e2, kr) = HostToken(e, kr) /\ HostToken(b, kr) = HostToken(e, kr)
  BY DEF HostToken, CopyOK
<1>2. s.token = HostToken(e, kr) /\ s.token # NoToken /\ s.user = TokenOwner[s.token]
  BY DEF SourceOK
<1>3. e.users \in {{}, {s.user}} BY <1>2 DEF Migrated
<1>4. e2.users = {s.user} BY <1>3
<1>5. e.present BY <1>2 DEF CopyOK
<1>6. ~s.inKeyring => Migrated(e2, kr)
  <2> SUFFICES ASSUME ~s.inKeyring PROVE Migrated(e2, kr) OBVIOUS
  <2>1. e.oauth # NoToken BY DEF SourceOK
  <2>2. HostToken(e2, kr) = e2.tok[s.user] BY <2>1, <1>1 DEF HostToken
  <2>3. kr[s.user] # NoToken => kr[s.user] = HostToken(e2, kr) BY <1>1 DEF KeyringOK
  <2> QED BY <2>2, <2>3, <1>1, <1>2, <1>4 DEF Migrated
<1>7. SourceOK("token", e2, s, kr) BY <1>1, <1>2, <1>4, <1>6 DEF SourceOK
<1>8. CopyOK(e2, b.oauth, kr) BY <1>1, <1>2, <1>5 DEF CopyOK
<1> QED BY <1>7, <1>8

LEMMA MigrateConfigStep == ASSUME IInv, NEW p \in Procs, MigrateConfig(p) PROVE IInv'
<1> DEFINE h == host[p]
           e == mem[p][h]
           s == source[p]
           x == IF e.oauth # NoToken THEN e.oauth ELSE e.tok[s.user]
           e2 == [e EXCEPT !.user = s.user, !.users = e.users \cup {s.user}, !.tok[s.user] = x]
           m == [mem[p] EXCEPT ![h] = e2]
<1>1. pc[p] = "config" BY DEF MigrateConfig, Goto
<1>2. /\ h \in Hosts /\ e \in Entry /\ CopyOK(e, hosts[h].oauth, keyring[h])
      /\ SourceOK("config", e, s, keyring[h])
      /\ CopiesOK("config", mem[p], todo[p], h, hosts, keyring)
  BY <1>1, Here DEF AtHost
<1>3. s.user \in Users BY <1>2, TokenTypes DEF SourceOK
<1>4. e2 \in Entry BY <1>2, <1>3 DEF Entry
<1>5. /\ e2.present = e.present /\ e2.oauth = e.oauth /\ e2.user = s.user
      /\ e2.users = e.users \cup {s.user} /\ e2.tok[s.user] = x
  BY <1>2, <1>3 DEF Entry
<1>6. e.users = {} \/ Migrated(e, keyring[h]) BY <1>2 DEF CopiesOK
<1>7. KeyringOK(hosts[h], keyring[h]) BY <1>2 DEF IInv, SharedOK
<1>8. SourceOK("token", e2, s, keyring[h]) /\ CopyOK(e2, hosts[h].oauth, keyring[h])
  <2>1. e.oauth # NoToken => e2.tok[s.user] = e.oauth BY <1>5
  <2> HIDE DEF h, e, s, e2
  <2> QED BY <1>2, <1>3, <1>4, <1>5, <1>6, <1>7, <2>1, MigratedEntry
<1>9. /\ mem' = [mem EXCEPT ![p] = m] /\ pc' = [pc EXCEPT ![p] = "token"]
      /\ UNCHANGED <<hosts, version, keyring>>
  <2>1. mem' = [mem EXCEPT ![p][h] = e2] BY DEF MigrateConfig
  <2> HIDE DEF e2
  <2>2. mem' = [mem EXCEPT ![p] = m] BY <2>1
  <2> QED BY <2>2 DEF MigrateConfig, Goto
<1>10. /\ todo' = [todo EXCEPT ![p] = todo[p]] /\ host' = [host EXCEPT ![p] = h]
       /\ source' = [source EXCEPT ![p] = s]
  BY Same DEF MigrateConfig
<1>11. LocalTypes("token", m, todo[p], h, s) BY <1>2, <1>4, Same DEF LocalTypes, Labels
<1>12. \A g \in Hosts : m[g] = IF g = h THEN e2 ELSE mem[p][g]
  BY <1>2, Same DEF LocalTypes
<1> HIDE DEF h, s, e2, m
<1>13. CopiesOK("token", m, todo[p], h, hosts, keyring)
  BY <1>2, <1>8, <1>12 DEF CopiesOK, AtHost
<1>14. LocalOK("token", m, todo[p], h, s, hosts, keyring)
  BY <1>2, <1>8, <1>11, <1>12, <1>13 DEF LocalOK
<1> QED BY <1>9, <1>10, <1>14, Private

\* K is the keyring with the token of the host at hand stored by account.
Stored(p, K) ==
  /\ K \in [Hosts -> [Slots -> MaybeToken]]
  /\ \A g \in Hosts, v \in Slots :
       K[g][v] = IF g = host[p] /\ v = source[p].user THEN source[p].token
                                                     ELSE keyring[g][v]

\* What is stored is the host's token, under its owner's name.
LEMMA TokenAtHand ==
  ASSUME IInv, NEW p \in Procs, pc[p] = "token", source[p].inKeyring
  PROVE  /\ host[p] \in Hosts /\ source[p].user \in Users /\ source[p].token \in MaybeToken
         /\ source[p].token # NoToken
         /\ source[p].user = TokenOwner[source[p].token]
         /\ source[p].token = HostToken(hosts[host[p]], keyring[host[p]])
         /\ mem[p][host[p]].oauth = NoToken
         /\ source[p].token = HostToken(mem[p][host[p]], keyring[host[p]])
         /\ mem[p][host[p]].user = source[p].user
         /\ mem[p][host[p]].users = {source[p].user}
<1> DEFINE h == host[p]
           e == mem[p][h]
<1>1. /\ h \in Hosts /\ e \in Entry /\ CopyOK(e, hosts[h].oauth, keyring[h])
      /\ SourceOK("token", e, source[p], keyring[h])
  BY Here DEF AtHost
<1>2. /\ source[p].token = HostToken(e, keyring[h]) /\ source[p].token # NoToken
      /\ e.oauth = NoToken /\ source[p].user = TokenOwner[source[p].token]
      /\ e.user = source[p].user /\ e.users = {source[p].user}
  BY <1>1 DEF SourceOK
<1>3. source[p].token = HostToken(hosts[h], keyring[h])
  BY <1>1, <1>2 DEF CopyOK, HostToken
<1>4. source[p].user \in Users /\ source[p].token \in MaybeToken
  BY <1>1, <1>2, TokenTypes
<1> QED BY <1>1, <1>2, <1>3, <1>4

LEMMA PutIsStored ==
  ASSUME IInv, NEW p \in Procs, pc[p] = "token", source[p].inKeyring,
         keyring' = [keyring EXCEPT ![host[p]][source[p].user] = source[p].token]
  PROVE  Stored(p, keyring')
<1>1. keyring \in [Hosts -> [Slots -> MaybeToken]] BY DEF IInv, SharedOK
<1>2. source[p].user \in Slots BY TokenAtHand DEF Slots
<1> QED BY <1>1, <1>2, TokenAtHand DEF Stored

\* The others' copies stay good, and this one becomes migrated.
LEMMA StoreByAccount ==
  ASSUME IInv, NEW p \in Procs, pc[p] = "token", source[p].inKeyring,
         NEW K, Stored(p, K)
  PROVE  /\ Evolves(hosts, keyring, hosts, K)
         /\ SharedOK(hosts, version, K)
         /\ Complete(hosts, keyring) => Complete(hosts, K)
         /\ Migrated(mem[p][host[p]], K[host[p]])
<1> DEFINE h == host[p]
           e == mem[p][h]
           u == source[p].user
           t == source[p].token
<1>1. h \in Hosts /\ u \in Users /\ t # NoToken /\ u = TokenOwner[t] BY TokenAtHand
<1>2. /\ t = HostToken(hosts[h], keyring[h]) /\ e.oauth = NoToken
      /\ t = HostToken(e, keyring[h]) /\ e.user = u /\ e.users = {u}
  BY TokenAtHand
<1>3. u # ActiveSlot BY <1>1, AccountAssumption DEF ActiveSlot
<1>4. \A g \in Hosts, v \in Slots :
        K[g][v] = IF g = h /\ v = u THEN t ELSE keyring[g][v]
  BY DEF Stored
<1> HIDE DEF h, e, u, t
<1>5. Evolves(hosts, keyring, hosts, K)
  <2>1. ActiveSlot \in Slots /\ Users \subseteq Slots BY DEF Slots
  <2> QED BY <1>1, <1>2, <1>3, <1>4, <2>1 DEF Evolves
<1>6. ASSUME NEW g \in Hosts
      PROVE  /\ CopyOK(hosts[g], hosts[g].oauth, K[g])
             /\ KeyringOK(hosts[g], K[g])
             /\ Migrated(hosts[g], keyring[g]) => Migrated(hosts[g], K[g])
  <2>1. CopyOK(hosts[g], hosts[g].oauth, keyring[g]) /\ KeyringOK(hosts[g], keyring[g])
    BY DEF IInv, SharedOK
  <2>2. /\ CopyOK(hosts[g], hosts[g].oauth, K[g])
        /\ HostToken(hosts[g], K[g]) = HostToken(hosts[g], keyring[g])
        /\ Migrated(hosts[g], keyring[g]) => Migrated(hosts[g], K[g])
    BY <1>5, <2>1, CopyStays
  <2>3. ASSUME NEW v \in Users, K[g][v] # NoToken
        PROVE  K[g][v] = HostToken(hosts[g], K[g]) /\ TokenOwner[K[g][v]] = v
    <3>1. v \in Slots BY DEF Slots
    <3>2. CASE g = h /\ v = u BY <1>1, <1>2, <1>4, <2>2, <3>1, <3>2
    <3>3. CASE ~(g = h /\ v = u) BY <1>4, <2>1, <2>2, <2>3, <3>1, <3>3 DEF KeyringOK
    <3> QED BY <3>2, <3>3
  <2> QED BY <2>2, <2>3 DEF KeyringOK
<1>7. Complete(hosts, keyring) => Complete(hosts, K) BY <1>6 DEF Complete
<1>8. SharedOK(hosts, version, K) BY <1>6, <1>7 DEF IInv, SharedOK, Stored
<1>9. Migrated(e, K[h])
  <2>1. K[h][u] = t BY <1>1, <1>4 DEF Slots
  <2>2. HostToken(e, K[h]) = t BY <1>1, <1>2, <1>3, <1>4 DEF HostToken, Slots
  <2> QED BY <1>1, <1>2, <2>1, <2>2 DEF Migrated
<1> QED BY <1>5, <1>7, <1>8, <1>9 DEF h, e

\* A host whose copy is migrated, keyring included, is done with.
LEMMA HostDone ==
  ASSUME IInv, NEW p \in Procs, pc[p] = "token", NEW K,
         CopiesOK("token", mem[p], todo[p], host[p], hosts, K),
         Migrated(mem[p][host[p]], K[host[p]])
  PROVE  LocalOK("next", mem[p], todo[p], host[p], source[p], hosts, K)
<1>1. CopiesOK("next", mem[p], todo[p], host[p], hosts, K) BY DEF CopiesOK
<1>2. LocalTypes("next", mem[p], todo[p], host[p], source[p])
  BY Same DEF LocalTypes, Labels
<1> QED BY <1>1, <1>2 DEF LocalOK, AtHost

LEMMA MigrateTokenStep == ASSUME IInv, NEW p \in Procs, MigrateToken(p) PROVE IInv'
<1>1. pc[p] = "token" BY DEF MigrateToken, Goto
<1>2. /\ CopiesOK("token", mem[p], todo[p], host[p], hosts, keyring)
      /\ SourceOK("token", mem[p][host[p]], source[p], keyring[host[p]])
  BY <1>1, Here DEF AtHost
<1>3. pc' = [pc EXCEPT ![p] = "next"] /\ UNCHANGED <<hosts, version>>
  BY DEF MigrateToken, Goto
<1>4. /\ mem' = [mem EXCEPT ![p] = mem[p]] /\ todo' = [todo EXCEPT ![p] = todo[p]]
      /\ host' = [host EXCEPT ![p] = host[p]]
      /\ source' = [source EXCEPT ![p] = source[p]]
  BY Same DEF MigrateToken, locals
<1>5. CASE source[p].inKeyring
  <2>1. keyring' = [keyring EXCEPT ![host[p]][source[p].user] = source[p].token]
    BY <1>5 DEF MigrateToken
  <2>2. /\ Evolves(hosts, keyring, hosts, keyring')
        /\ SharedOK(hosts, version, keyring')
        /\ Complete(hosts, keyring) => Complete(hosts, keyring')
        /\ Migrated(mem[p][host[p]], keyring'[host[p]])
    BY <1>1, <1>5, <2>1, PutIsStored, StoreByAccount
  <2>3. LocalOK("token", mem[p], todo[p], host[p], source[p], hosts, keyring')
    BY <1>1, <2>2, Same, Interfere
  <2>4. CopiesOK("token", mem[p], todo[p], host[p], hosts, keyring')
    BY <2>3 DEF LocalOK, Working, AtHost
  <2>5. LocalOK("next", mem[p], todo[p], host[p], source[p], hosts, keyring')
    BY <1>1, <2>2, <2>4, HostDone
  <2>6. /\ LocalOK("next", mem[p], todo[p], host[p], source[p], hosts', keyring')
        /\ Evolves(hosts, keyring, hosts', keyring')
        /\ SharedOK(hosts', version', keyring')
        /\ Complete(hosts, keyring) => Complete(hosts', keyring')
    BY <1>3, <2>2, <2>5
  <2> QED BY <1>3, <1>4, <2>6, OneProcess
<1>6. CASE ~source[p].inKeyring
  <2>1. Migrated(mem[p][host[p]], keyring[host[p]]) BY <1>2, <1>6 DEF SourceOK
  <2>2. LocalOK("next", mem[p], todo[p], host[p], source[p], hosts, keyring)
    BY <1>1, <1>2, <2>1, HostDone
  <2>3. UNCHANGED <<hosts, version, keyring>> BY <1>6 DEF MigrateToken
  <2> QED BY <1>3, <1>4, <2>2, <2>3, Private
<1> QED BY <1>5, <1>6

LEMMA MigrateTokenFailsStep ==
  ASSUME IInv, NEW p \in Procs, MigrateTokenFails(p) PROVE IInv'
<1>1. pc[p] = "token" /\ source[p].inKeyring BY DEF MigrateTokenFails, Goto
<1>2. LocalTypes("failed", mem[p], todo[p], host[p], source[p])
  BY Same DEF LocalTypes, Labels
<1>3. pc' = [pc EXCEPT ![p] = "failed"] /\ UNCHANGED <<hosts, version>>
  BY DEF MigrateTokenFails, Goto
<1>4. /\ mem' = [mem EXCEPT ![p] = mem[p]] /\ todo' = [todo EXCEPT ![p] = todo[p]]
      /\ host' = [host EXCEPT ![p] = host[p]]
      /\ source' = [source EXCEPT ![p] = source[p]]
  BY Same DEF MigrateTokenFails, locals
<1>5. CASE keyring' = [keyring EXCEPT ![host[p]][source[p].user] = source[p].token]
  <2>1. /\ Evolves(hosts, keyring, hosts, keyring')
        /\ SharedOK(hosts, version, keyring')
        /\ Complete(hosts, keyring) => Complete(hosts, keyring')
    BY <1>1, <1>5, PutIsStored, StoreByAccount
  <2>2. LocalOK("failed", mem[p], todo[p], host[p], source[p], hosts', keyring')
    BY <1>2, AtRest
  <2>3. /\ Evolves(hosts, keyring, hosts', keyring')
        /\ SharedOK(hosts', version', keyring')
        /\ Complete(hosts, keyring) => Complete(hosts', keyring')
    BY <1>3, <2>1
  <2> QED BY <1>3, <1>4, <2>2, <2>3, OneProcess
<1>6. CASE keyring' = keyring
  <2>1. LocalOK("failed", mem[p], todo[p], host[p], source[p], hosts, keyring)
    BY <1>2, AtRest
  <2>2. UNCHANGED <<hosts, version, keyring>> BY <1>3, <1>6
  <2> QED BY <1>3, <1>4, <2>1, <2>2, Private
<1> QED BY <1>5, <1>6 DEF MigrateTokenFails

-----------------------------------------------------------------------------
(* Writing, and the end of a command. *)

\* What is written has the same tokens, and every host in the new shape.
LEMMA WriteHostsStep == ASSUME IInv, NEW p \in Procs, WriteHosts(p) PROVE IInv'
<1> DEFINE m == mem[p]
<1>1. pc[p] = "writeHosts" BY DEF WriteHosts, Goto
<1>2. todo[p] = {} BY <1>1, Same DEF LocalOK
<1>3. CopiesOK("writeHosts", m, todo[p], host[p], hosts, keyring)
  BY <1>1, Same DEF LocalOK, Working
<1>4. m \in [Hosts -> Entry] BY DEF IInv
<1>5. /\ pc' = [pc EXCEPT ![p] = "writeVersion"] /\ hosts' = m
      /\ UNCHANGED <<version, keyring>>
  BY DEF WriteHosts, Goto
<1>6. /\ mem' = [mem EXCEPT ![p] = mem[p]] /\ todo' = [todo EXCEPT ![p] = todo[p]]
      /\ host' = [host EXCEPT ![p] = host[p]]
      /\ source' = [source EXCEPT ![p] = source[p]]
  BY Same DEF WriteHosts, locals
<1> HIDE DEF m
<1>7. ASSUME NEW g \in Hosts
      PROVE  /\ m[g].oauth = hosts[g].oauth /\ CopyOK(m[g], m[g].oauth, keyring[g])
             /\ KeyringOK(m[g], keyring[g])
             /\ m[g].present => Migrated(m[g], keyring[g])
  <2>1. CopyOK(m[g], hosts[g].oauth, keyring[g]) BY <1>3 DEF CopiesOK
  <2>2. m[g].oauth = hosts[g].oauth BY <2>1 DEF CopyOK
  <2>3. HostToken(m[g], keyring[g]) = HostToken(hosts[g], keyring[g])
    BY <2>2 DEF HostToken
  <2>4. KeyringOK(m[g], keyring[g]) BY <2>3 DEF KeyringOK, IInv, SharedOK
  <2>5. m[g].present => Migrated(m[g], keyring[g]) BY <1>2, <1>3 DEF CopiesOK, AtHost
  <2> QED BY <2>1, <2>2, <2>4, <2>5
<1>8. Complete(m, keyring) BY <1>7 DEF Complete
<1>9. Evolves(hosts, keyring, m, keyring) BY <1>7 DEF Evolves
<1>10. SharedOK(m, version, keyring) BY <1>4, <1>7, <1>8 DEF IInv, SharedOK
<1>11. CopiesOK("writeVersion", m, todo[p], host[p], m, keyring)
  BY <1>2, <1>3, <1>7 DEF CopiesOK, AtHost
<1>12. LocalTypes("writeVersion", m, todo[p], host[p], source[p])
  BY Same DEF LocalTypes, Labels, m
<1>13. LocalOK("writeVersion", m, todo[p], host[p], source[p], m, keyring)
  BY <1>8, <1>11, <1>12 DEF LocalOK, AtHost
<1>14. /\ LocalOK("writeVersion", mem[p], todo[p], host[p], source[p], hosts', keyring')
       /\ SharedOK(hosts', version', keyring')
       /\ Evolves(hosts, keyring, hosts', keyring')
       /\ Complete(hosts', keyring')
  BY <1>5, <1>8, <1>9, <1>10, <1>13 DEF m
<1> QED BY <1>5, <1>6, <1>14, OneProcess

LEMMA WriteVersionStep == ASSUME IInv, NEW p \in Procs, WriteVersion(p) PROVE IInv'
<1>1. pc[p] = "writeVersion" BY DEF WriteVersion, Goto
<1>2. Complete(hosts, keyring) BY <1>1, Same DEF LocalOK
<1>3. /\ pc' = [pc EXCEPT ![p] = "done"] /\ version' = PostVersion
      /\ UNCHANGED <<hosts, keyring>>
  BY DEF WriteVersion, Goto
<1>4. /\ mem' = [mem EXCEPT ![p] = mem[p]] /\ todo' = [todo EXCEPT ![p] = todo[p]]
      /\ host' = [host EXCEPT ![p] = host[p]]
      /\ source' = [source EXCEPT ![p] = source[p]]
  BY Same DEF WriteVersion, locals
<1>5. SharedOK(hosts', version', keyring') BY <1>2, <1>3 DEF IInv, SharedOK
<1>6. LocalTypes("done", mem[p], todo[p], host[p], source[p])
  BY Same DEF LocalTypes, Labels
<1>7. LocalOK("done", mem[p], todo[p], host[p], source[p], hosts', keyring')
  BY <1>6, AtRest
<1>8. /\ Evolves(hosts, keyring, hosts', keyring')
      /\ Complete(hosts, keyring) => Complete(hosts', keyring')
  BY <1>3, Reflexive
<1> QED BY <1>3, <1>4, <1>5, <1>7, <1>8, OneProcess

LEMMA ForgetStep == ASSUME IInv, NEW p \in Procs, Forget(p) PROVE IInv'
<1> DEFINE m == [h \in Hosts |-> NoEntry]
<1>1. NoEntry \in Entry /\ NoSource \in Source
  BY DEF NoEntry, Entry, MaybeToken, NoSource, Source
<1>2. LocalTypes("idle", m, {}, NoHost, NoSource) BY <1>1 DEF LocalTypes, Labels
<1>3. LocalOK("idle", m, {}, NoHost, NoSource, hosts, keyring) BY <1>2, AtRest
<1>4. /\ pc' = [pc EXCEPT ![p] = "idle"] /\ mem' = [mem EXCEPT ![p] = m]
      /\ todo' = [todo EXCEPT ![p] = {}] /\ host' = [host EXCEPT ![p] = NoHost]
      /\ source' = [source EXCEPT ![p] = NoSource]
      /\ UNCHANGED <<hosts, version, keyring>>
  BY DEF Forget
<1> HIDE DEF m
<1> QED BY <1>3, <1>4, Private

-----------------------------------------------------------------------------
(* The invariant. *)

\* What a version without accounts left.
LEMMA OldIsGood ==
  ASSUME NEW o \in OldHosts
  PROVE  /\ OldEntry(o) \in Entry
         /\ OldKeyring(o) \in [Slots -> MaybeToken]
         /\ OldEntry(o).users = {}
         /\ CopyOK(OldEntry(o), OldEntry(o).oauth, OldKeyring(o))
         /\ KeyringOK(OldEntry(o), OldKeyring(o))
<1> DEFINE e == OldEntry(o)
           kr == OldKeyring(o)
<1>1. /\ o \in [present : BOOLEAN, user : Users \cup {NoUser, Anonymous},
                oauth : MaybeToken, slot : MaybeToken]
      /\ o.present /\ o.user \in Users =>
           LET t == IF o.oauth # NoToken THEN o.oauth ELSE o.slot
           IN  t # NoToken => TokenOwner[t] = o.user
      /\ ~o.present => (IF o.oauth # NoToken THEN o.oauth ELSE o.slot) = NoToken
      /\ ~o.present => o.user = NoUser
  BY DEF OldHosts
<1>2. e \in Entry /\ e.users = {} /\ e.present = o.present /\ e.user = o.user /\ e.oauth = o.oauth
  BY <1>1 DEF OldEntry, NoEntry, Entry, MaybeToken
<1>3. /\ kr \in [Slots -> MaybeToken] /\ kr[ActiveSlot] = o.slot
      /\ \A u \in Users : kr[u] = NoToken
  BY <1>1, AccountAssumption DEF OldKeyring, Slots, ActiveSlot, MaybeToken
<1> HIDE DEF e, kr
<1>4. HostToken(e, kr) = IF o.oauth # NoToken THEN o.oauth ELSE o.slot
  BY <1>2, <1>3 DEF HostToken
<1>5. CopyOK(e, e.oauth, kr)
  BY <1>1, <1>2, <1>4, AccountAssumption DEF CopyOK
<1>6. KeyringOK(e, kr) BY <1>3 DEF KeyringOK
<1> QED BY <1>2, <1>3, <1>5, <1>6 DEF e, kr

LEMMA InitIInv == Init => IInv
<1> SUFFICES ASSUME Init PROVE IInv OBVIOUS
<1>1. PICK old \in [Hosts -> OldHosts] :
        /\ hosts = [h \in Hosts |-> OldEntry(old[h])]
        /\ keyring = [h \in Hosts |-> OldKeyring(old[h])]
  BY DEF Init
<1>2. ASSUME NEW h \in Hosts
      PROVE  /\ hosts[h] \in Entry /\ keyring[h] \in [Slots -> MaybeToken]
             /\ hosts[h].users = {}
             /\ CopyOK(hosts[h], hosts[h].oauth, keyring[h])
             /\ KeyringOK(hosts[h], keyring[h])
  BY <1>1, OldIsGood
<1>3. /\ hosts \in [Hosts -> Entry] /\ keyring \in [Hosts -> [Slots -> MaybeToken]]
  <2>1. \A h \in Hosts : OldEntry(old[h]) \in Entry /\ OldKeyring(old[h]) \in [Slots -> MaybeToken]
    BY OldIsGood
  <2> QED BY <1>1, <2>1
<1>4. version = PreVersion /\ PreVersion # PostVersion BY DEF Init, PreVersion, PostVersion
<1>5. SharedOK(hosts, version, keyring) BY <1>2, <1>3, <1>4 DEF SharedOK
<1>6. NoEntry \in Entry /\ NoSource \in Source
  BY DEF NoEntry, Entry, MaybeToken, NoSource, Source
<1>7. /\ pc \in [Procs -> Labels] /\ mem \in [Procs -> [Hosts -> Entry]]
      /\ todo \in [Procs -> SUBSET Hosts] /\ host \in [Procs -> Hosts \cup {NoHost}]
      /\ source \in [Procs -> Source]
  BY <1>6 DEF Init, Labels
<1>8. ASSUME NEW p \in Procs
      PROVE  LocalOK(pc[p], mem[p], todo[p], host[p], source[p], hosts, keyring)
  <2>1. LocalTypes(pc[p], mem[p], todo[p], host[p], source[p]) BY <1>7 DEF LocalTypes
  <2>2. pc[p] = "idle" BY DEF Init
  <2> QED BY <2>1, <2>2, AtRest
<1> QED BY <1>5, <1>7, <1>8 DEF IInv

LEMMA NextIInv == IInv /\ [Next]_vars => IInv'
<1> SUFFICES ASSUME IInv, [Next]_vars PROVE IInv' OBVIOUS
<1>1. CASE UNCHANGED vars BY <1>1 DEF IInv, vars
<1>2. ASSUME NEW p \in Procs, Step(p) PROVE IInv'
  <2>1. CASE Read(p) BY <2>1, ReadStep
  <2>2. CASE NextHost(p) BY <2>2, NextHostStep
  <2>3. CASE AllMigrated(p) BY <2>3, AllMigratedStep
  <2>4. CASE GetToken(p) BY <2>4, GetTokenStep
  <2>5. CASE GetTokenFails(p) BY <2>5, RefuseStep DEF GetTokenFails
  <2>6. CASE GetUsername(p) BY <2>6, GetUsernameStep
  <2>7. CASE GetUsernameFails(p) BY <2>7, RefuseStep DEF GetUsernameFails
  <2>8. CASE MigrateConfig(p) BY <2>8, MigrateConfigStep
  <2>9. CASE MigrateToken(p) BY <2>9, MigrateTokenStep
  <2>10. CASE MigrateTokenFails(p) BY <2>10, MigrateTokenFailsStep
  <2>11. CASE WriteHosts(p) BY <2>11, WriteHostsStep
  <2>12. CASE WriteVersion(p) BY <2>12, WriteVersionStep
  <2>13. CASE WriteFails(p) BY <2>13, RefuseStep DEF WriteFails
  <2>14. CASE Exit(p) \/ Crash(p) BY <2>14, ForgetStep DEF Exit, Crash
  <2> QED BY <1>2, <2>1, <2>2, <2>3, <2>4, <2>5, <2>6, <2>7, <2>8, <2>9, <2>10,
             <2>11, <2>12, <2>13, <2>14 DEF Step, MigrateHost
<1> QED BY <1>1, <1>2 DEF Next

LEMMA Invariance == Spec => []IInv
BY InitIInv, NextIInv, PTL DEF Spec

-----------------------------------------------------------------------------
(* The theorems. *)

\* The migration keeps the types, and has a token and an account's name
\* wherever Migrate goes on without asking.
THEOREM TypeCorrect == Spec => []TypeOK
<1>1. IInv => TypeOK
  <2> SUFFICES ASSUME IInv PROVE TypeOK OBVIOUS
  <2>1. ASSUME NEW p \in Procs
        PROVE  /\ pc[p] \in Labels
               /\ pc[p] \in AtHost => host[p] \in Hosts
               /\ pc[p] \in {"getUser", "config", "token"} => source[p].token # NoToken
               /\ pc[p] \in {"config", "token"} => source[p].user = TokenOwner[source[p].token]
    BY Same DEF LocalOK, LocalTypes, SourceOK, AtHost
  <2> QED BY <2>1 DEF TypeOK, IInv, SharedOK, Labels, AtHost
<1> QED BY <1>1, Invariance, PTL

\* Whatever fails at whichever host, and however many commands migrate at once,
\* hosts.yml is migrated whole or not at all.
THEOREM AllOrNothing == Spec => []HostsAllOrNothing
<1>1. IInv => HostsAllOrNothing BY DEF IInv, SharedOK, HostsAllOrNothing, Complete
<1> QED BY <1>1, Invariance, PTL

\* The version that keeps Migrate from ever running again is only there when
\* every host is migrated.
THEOREM VersionIsTrue == Spec => []VersionMeansMigrated
<1>1. IInv => VersionMeansMigrated BY DEF IInv, SharedOK, VersionMeansMigrated, Complete
<1> QED BY <1>1, Invariance, PTL

\* Migrate drops no host that has a token.
THEOREM NoHostLost == Spec => []HostsWithTokenKept
<1>1. IInv => HostsWithTokenKept
  BY DEF IInv, SharedOK, HostsWithTokenKept, CopyOK, HostToken
<1> QED BY <1>1, Invariance, PTL

\* Only MigrateToken and WriteHosts change what is stored.
LEMMA StepEvolves ==
  ASSUME IInv, [Next]_vars
  PROVE  Evolves(hosts, keyring, hosts', keyring')
<1>1. CASE UNCHANGED <<hosts, keyring>> BY <1>1, Reflexive
<1>2. ASSUME NEW p \in Procs, MigrateToken(p) \/ MigrateTokenFails(p)
      PROVE  Evolves(hosts, keyring, hosts', keyring')
  <2>1. pc[p] = "token" /\ UNCHANGED hosts
    BY <1>2 DEF MigrateToken, MigrateTokenFails, Goto
  <2>2. CASE UNCHANGED keyring BY <2>1, <2>2, <1>1
  <2>3. CASE /\ source[p].inKeyring
             /\ keyring' = [keyring EXCEPT ![host[p]][source[p].user] = source[p].token]
    <3>1. Evolves(hosts, keyring, hosts, keyring')
      BY <2>1, <2>3, PutIsStored, StoreByAccount
    <3> QED BY <2>1, <3>1
  <2> QED BY <1>2, <2>2, <2>3 DEF MigrateToken, MigrateTokenFails
<1>3. ASSUME NEW p \in Procs, WriteHosts(p)
      PROVE  Evolves(hosts, keyring, hosts', keyring')
  <2>1. pc[p] = "writeHosts" /\ hosts' = mem[p] /\ UNCHANGED keyring
    BY <1>3 DEF WriteHosts, Goto
  <2>2. CopiesOK("writeHosts", mem[p], todo[p], host[p], hosts, keyring)
    BY <2>1, Same DEF LocalOK, Working
  <2> QED BY <2>1, <2>2 DEF Evolves, CopiesOK, CopyOK
<1>4. ASSUME NEW p \in Procs, Step(p)
      PROVE  \/ UNCHANGED <<hosts, keyring>> \/ WriteHosts(p)
             \/ MigrateToken(p) \/ MigrateTokenFails(p)
  BY <1>4 DEF Step, MigrateHost, Read, NextHost, AllMigrated, GetToken, GetTokenFails,
    GetUsername, GetUsernameFails, MigrateConfig, WriteVersion, WriteFails, Refuse,
    Exit, Crash, Forget
<1> QED BY <1>1, <1>2, <1>3, <1>4 DEF Next, vars

\* "The original config is left alone": no step changes the token that a version
\* of gh without accounts finds for a host.
THEOREM OldVersionsKeepTokens == Spec => OldVersionsUnaffected
<1>1. ASSUME IInv, [Next]_vars, NEW h \in Hosts
      PROVE  HostToken(hosts[h], keyring[h])' = HostToken(hosts[h], keyring[h])
  <2>1. hosts'[h].oauth = hosts[h].oauth /\ keyring'[h][ActiveSlot] = keyring[h][ActiveSlot]
    BY <1>1, StepEvolves DEF Evolves
  <2> QED BY <2>1 DEF HostToken
<1>2. IInv /\ [Next]_vars =>
        [\A h \in Hosts : HostToken(hosts[h], keyring[h])' = HostToken(hosts[h], keyring[h])]_vars
  BY <1>1
<1> QED BY <1>2, Invariance, PTL DEF Spec, OldVersionsUnaffected

=============================================================================
