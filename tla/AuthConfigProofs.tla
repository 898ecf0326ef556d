-------------------------- MODULE AuthConfigProofs --------------------------
(***************************************************************************)
(* AuthConfig's invariants for any accounts, tokens, number of processes   *)
(* and combination of faults.  IInv is inductive.  A step of a process     *)
(* changes that process's label, copy and local variables, and perhaps the *)
(* stored section or the keyring: LEMMA OneProcess reduces the preservation*)
(* of IInv to the new local values and the new shared values, and there is *)
(* one lemma per action that supplies them.                                *)
(*                                                                         *)
(* ReadersInv, in the second half, is about one command after another and  *)
(* what other processes read meanwhile, which AccountView promises.        *)
(***************************************************************************)
EXTENDS AccountReaders, FiniteSetTheorems, TLAPS

\* The shared variables: the stored section, the keyring, unanswered requests.
SharedOK(d, kr, lt) ==
  /\ d \in Section
  /\ SectionOK(d) /\ Settled(d)
  /\ kr \in [Slots -> MaybeToken]
  /\ lt \in SUBSET (Slots \X MaybeToken)
  /\ KeyringInv(kr, lt)

\* One process.
LocalOK(l, s, j) ==
  /\ l \in Labels
  /\ s \in Section
  /\ j \in Job
  /\ LocalInv(l, s, j)

IInv ==
  /\ SharedOK(disk, keyring, late)
  /\ pc \in [Procs -> Labels]
  /\ mem \in [Procs -> Section]
  /\ job \in [Procs -> Job]
  /\ \A p \in Procs : LocalOK(pc[p], mem[p], job[p])

\* A process's account exists wherever TypeOK says so.
LEMMA LocalAccounts ==
  ASSUME NEW l, NEW s, NEW j, LocalOK(l, s, j)
  PROVE  /\ l = "rollback" => j.prevUser \in Users
         /\ l \in {"clear", "get", "set", "place", "dropUser"} => j.target \in Users
<1>1. s.users \in SUBSET Users
  BY DEF LocalOK, Section
<1> QED
  BY <1>1 DEF LocalOK, LocalInv, Activating

LEMMA InvariantImplied == IInv => TypeOK /\ StoreInv
BY LocalAccounts DEF IInv, TypeOK, StoreInv, SharedOK, LocalOK

\* A step that changes only process p's own state, and shared state that
\* satisfies the invariant afterwards.
LEMMA OneProcess ==
  ASSUME IInv, NEW p \in Procs, NEW l, NEW s, NEW j,
         LocalOK(l, s, j),
         pc' = [pc EXCEPT ![p] = l],
         mem' = [mem EXCEPT ![p] = s],
         job' = [job EXCEPT ![p] = j],
         SharedOK(disk, keyring, late)'
  PROVE  IInv'
<1>1. \A q \in Procs : LocalOK(pc[q], mem[q], job[q])'
  <2> SUFFICES ASSUME NEW q \in Procs PROVE LocalOK(pc'[q], mem'[q], job'[q])
    OBVIOUS
  <2>1. CASE q = p
    BY <2>1 DEF IInv
  <2>2. CASE q # p
    BY <2>2 DEF IInv
  <2> QED
    BY <2>1, <2>2
<1>2. l \in Labels /\ s \in Section /\ j \in Job
  BY DEF LocalOK
<1> QED
  BY <1>1, <1>2 DEF IInv

-----------------------------------------------------------------------------
(* The shared variables. *)

LEMMA SharedUntouched ==
  ASSUME IInv, UNCHANGED <<disk, keyring, late>>
  PROVE  SharedOK(disk, keyring, late)'
BY DEF IInv

\* A keyring request for an account carries that account's token.
LEMMA KeyringStep ==
  ASSUME IInv, NEW slot \in Slots, NEW tok \in MaybeToken, NEW res,
         slot \in Users => OwnedBy(tok, slot),
         KeyringPut(slot, tok, res), UNCHANGED disk
  PROVE  SharedOK(disk, keyring, late)'
<1>1. CASE keyring' = [keyring EXCEPT ![slot] = tok] /\ UNCHANGED late
  BY <1>1 DEF IInv, SharedOK, KeyringInv, Slots
<1>2. CASE UNCHANGED <<keyring, late>>
  BY <1>2, SharedUntouched
<1>3. CASE late' = late \cup {<<slot, tok>>} /\ UNCHANGED keyring
  BY <1>3 DEF IInv, SharedOK, KeyringInv
<1> QED
  BY <1>1, <1>2, <1>3 DEF KeyringPut

LEMMA LateRequestStep == ASSUME IInv, LateRequest PROVE IInv'
<1> PICK r \in late : /\ keyring' = [keyring EXCEPT ![r[1]] = r[2]]
                      /\ late' = late \ {r}
                      /\ UNCHANGED <<disk, pc, mem, job>>
  BY DEF LateRequest
<1>1. r[1] \in Slots /\ r[2] \in MaybeToken
  BY DEF IInv, SharedOK
<1>2. SharedOK(disk, keyring, late)'
  BY <1>1 DEF IInv, SharedOK, KeyringInv, Slots
<1> QED
  BY <1>2 DEF IInv

-----------------------------------------------------------------------------
(* Commands. *)

LEMMA StartStep == ASSUME IInv, NEW p \in Procs, Start(p) PROVE IInv'
<1>1. LocalOK("ready", disk, job[p])
  BY DEF IInv, SharedOK, LocalOK, LocalInv, Labels, Activating
<1>2. /\ pc' = [pc EXCEPT ![p] = "ready"]
      /\ mem' = [mem EXCEPT ![p] = disk]
      /\ job' = [job EXCEPT ![p] = job[p]]
  BY DEF IInv, Start, Goto
<1>3. SharedOK(disk, keyring, late)'
  BY SharedUntouched DEF Start
<1> QED
  BY <1>1, <1>2, <1>3, OneProcess

LEMMA StoreTokenStep ==
  ASSUME IInv, NEW p \in Procs, NEW t \in Tokens, NEW op \in {"login", "refresh"},
         StoreToken(p, t, op)
  PROVE  IInv'
<1> DEFINE u == TokenOwner[t]
           stored(x) == [mem[p] EXCEPT !.users = @ \cup {u}, !.tok[u] = x]
           j == [job[p] EXCEPT !.op = op, !.target = u]
<1>1. u \in Users /\ t \in MaybeToken /\ TokenOwner[t] = u /\ t # NoToken
  BY AccountAssumption DEF MaybeToken
<1>2. PICK secure \in BOOLEAN, res \in Results :
        /\ IF secure THEN KeyringPut(u, t, res)
                     ELSE res = "ok" /\ UNCHANGED <<keyring, late>>
        /\ mem' = [mem EXCEPT
             ![p].users  = @ \cup {u},
             ![p].tok[u] = IF secure /\ res = "ok" THEN NoToken ELSE t]
  BY DEF StoreToken
<1>3. PICK x \in {t, NoToken} : mem' = [mem EXCEPT ![p] = stored(x)]
  BY <1>2
<1>4. /\ LocalOK(pc[p], mem[p], job[p]) /\ mem[p] \in Section /\ job[p] \in Job
      /\ pc[p] = "ready"
  BY DEF IInv, LocalOK, StoreToken, Goto
<1>5. stored(x) \in Section /\ j \in Job
  BY <1>1, <1>4 DEF Section, Job, MaybeToken, MaybeUser, Ops
<1>6. /\ stored(x).users = mem[p].users \cup {u}
      /\ \A v \in Users : stored(x).tok[v] = IF v = u THEN x ELSE mem[p].tok[v]
      /\ j.op = op /\ j.target = u
  BY <1>1, <1>4 DEF Section, Job
<1>7. SectionOK(stored(x))
  BY <1>1, <1>4, <1>6 DEF LocalOK, LocalInv, SectionOK
<1>8. LocalOK("clear", stored(x), j)
  BY <1>5, <1>6, <1>7 DEF LocalOK, LocalInv, Labels, Activating
<1>9. /\ pc' = [pc EXCEPT ![p] = "clear"]
      /\ job' = [job EXCEPT ![p] = j]
  BY DEF StoreToken, Goto
<1>10. SharedOK(disk, keyring, late)'
  <2>1. CASE secure
    BY <1>1, <1>2, <2>1, KeyringStep DEF StoreToken, OwnedBy, Slots
  <2>2. CASE ~secure
    BY <1>2, <2>2, SharedUntouched DEF StoreToken
  <2> QED
    BY <2>1, <2>2
<1> HIDE DEF stored, j
<1> QED
  BY <1>3, <1>8, <1>9, <1>10, OneProcess

LEMMA SwitchStep == ASSUME IInv, NEW p \in Procs, Switch(p) PROVE IInv'
<1> PICK u \in mem[p].users, r1 \in Results, r2 \in Results :
      LET s     == mem[p]
          own   == KeyringGet(s.user, r1)
          found == IF own # NoToken THEN own ELSE KeyringGet(ActiveSlot, r2)
          fromKeyring == s.oauth = NoToken /\ found # NoToken
      IN job' = [job EXCEPT ![p] =
           [op |-> "switch", target |-> u, got |-> NoToken, prevUser |-> s.user,
            prevToken  |-> IF fromKeyring THEN found ELSE s.oauth,
            prevSource |-> IF fromKeyring THEN "keyring" ELSE "oauth_token"]]
  BY DEF Switch
<1>1. /\ LocalOK(pc[p], mem[p], job[p]) /\ mem[p] \in Section
      /\ pc[p] = "ready" /\ mem[p].user \in Users
  BY DEF IInv, LocalOK, Switch, Goto, Section, MaybeUser
<1>2. \A slot \in Slots : \A res : KeyringGet(slot, res) \in MaybeToken
  BY DEF IInv, SharedOK, KeyringGet, MaybeToken
<1>3. mem[p].user \in Slots /\ ActiveSlot \in Slots /\ mem[p].oauth \in MaybeToken
      /\ u \in Users
  BY <1>1 DEF Slots, Section
<1>4. PICK tok \in MaybeToken, source \in {"keyring", "oauth_token"} :
        job' = [job EXCEPT ![p] =
          [op |-> "switch", target |-> u, got |-> NoToken, prevUser |-> mem[p].user,
           prevToken |-> tok, prevSource |-> source]]
  BY <1>2, <1>3 DEF MaybeToken
<1> DEFINE j == [op |-> "switch", target |-> u, got |-> NoToken, prevUser |-> mem[p].user,
                 prevToken |-> tok, prevSource |-> source]
<1>5. j \in Job
  BY <1>1, <1>3 DEF Job, MaybeToken, MaybeUser, Ops
<1>6. LocalOK("clear", mem[p], j)
  BY <1>1, <1>5 DEF LocalOK, LocalInv, Labels, Activating
<1>7. /\ pc' = [pc EXCEPT ![p] = "clear"]
      /\ mem' = [mem EXCEPT ![p] = mem[p]]
  BY DEF IInv, Switch, Goto
<1>8. SharedOK(disk, keyring, late)'
  BY SharedUntouched DEF Switch
<1> QED
  BY <1>4, <1>6, <1>7, <1>8, OneProcess

LEMMA LogoutLastStep == ASSUME IInv, NEW p \in Procs, LogoutLast(p) PROVE IInv'
<1> PICK u \in mem[p].users :
      job' = [job EXCEPT ![p] = [job[p] EXCEPT !.op = "logout", !.target = u]]
  BY DEF LogoutLast
<1> DEFINE j == [job[p] EXCEPT !.op = "logout", !.target = u]
<1>1. u \in Users /\ job[p] \in Job
  BY DEF IInv, LocalOK, Section
<1>2. j \in Job /\ j.op = "logout" /\ j.target = u
  BY <1>1 DEF Job, Ops, MaybeUser
<1>3. NoHost \in Section /\ SectionOK(NoHost) /\ Settled(NoHost)
  BY AccountAssumption DEF NoHost, Section, SectionOK, Settled, MaybeUser, MaybeToken
<1>4. LocalOK("dropActive", NoHost, j)
  BY <1>1, <1>2, <1>3 DEF LocalOK, LocalInv, Labels, Activating
<1>5. /\ pc' = [pc EXCEPT ![p] = "dropActive"]
      /\ mem' = [mem EXCEPT ![p] = NoHost]
  BY DEF LogoutLast, Goto
<1>6. SharedOK(disk, keyring, late)'
  BY SharedUntouched DEF LogoutLast
<1> HIDE DEF j
<1> QED
  BY <1>4, <1>5, <1>6, OneProcess DEF j

\* Removing an account leaves every token with its owner.
LEMMA WithoutUserOK ==
  ASSUME NEW s \in Section, SectionOK(s), NEW u \in Users
  PROVE  /\ WithoutUser(s, u) \in Section
         /\ SectionOK(WithoutUser(s, u))
         /\ WithoutUser(s, u).users = s.users \ {u}
         /\ WithoutUser(s, u).user = s.user
         /\ Settled(s) /\ s.user # u => Settled(WithoutUser(s, u))
<1> DEFINE w == WithoutUser(s, u)
<1>1. /\ s.user \in MaybeUser /\ s.oauth \in MaybeToken
      /\ s.users \in SUBSET Users /\ s.tok \in [Users -> MaybeToken]
  BY DEF Section
<1>2. w \in Section
  BY DEF WithoutUser, Section, MaybeToken
<1>3. /\ w.user = s.user /\ w.oauth = s.oauth /\ w.users = s.users \ {u}
      /\ \A v \in Users : w.tok[v] = IF v = u THEN NoToken ELSE s.tok[v]
  BY DEF WithoutUser, Section
<1> HIDE DEF w
<1>4. SectionOK(w)
  BY <1>1, <1>3 DEF SectionOK
<1>5. ASSUME Settled(s), s.user # u PROVE Settled(w)
  BY <1>1, <1>3, <1>5, AccountAssumption DEF Settled, MaybeUser
<1> QED
  BY <1>2, <1>3, <1>4, <1>5 DEF w

LEMMA LogoutInactiveStep == ASSUME IInv, NEW p \in Procs, LogoutInactive(p) PROVE IInv'
<1> PICK u \in mem[p].users : /\ mem[p].user # u
                              /\ mem' = [mem EXCEPT ![p] = WithoutUser(mem[p], u)]
  BY DEF LogoutInactive
<1> DEFINE j == [job[p] EXCEPT !.op = "logout"]
<1>1. /\ mem[p] \in Section /\ LocalInv(pc[p], mem[p], job[p]) /\ job[p] \in Job
      /\ pc[p] = "ready"
  BY DEF IInv, LocalOK, LogoutInactive, Goto
<1>2. u \in Users /\ SectionOK(mem[p]) /\ Settled(mem[p])
  BY <1>1 DEF LocalInv, Section
<1>3. j \in Job /\ j.op = "logout"
  BY <1>1 DEF Job, Ops
<1>4. LocalOK("write", WithoutUser(mem[p], u), j)
  BY <1>1, <1>2, <1>3, WithoutUserOK DEF LocalOK, LocalInv, Labels, Activating
<1>5. /\ pc' = [pc EXCEPT ![p] = "write"]
      /\ job' = [job EXCEPT ![p] = j]
  BY DEF LogoutInactive, Goto
<1>6. SharedOK(disk, keyring, late)'
  BY SharedUntouched DEF LogoutInactive
<1> HIDE DEF j
<1> QED
  BY <1>4, <1>5, <1>6, OneProcess

LEMMA LogoutActiveStep == ASSUME IInv, NEW p \in Procs, LogoutActive(p) PROVE IInv'
<1> DEFINE Changes(u, next) ==
      /\ mem[p].user = u
      /\ mem' = [mem EXCEPT ![p] = WithoutUser(@, u)]
      /\ job' = [job EXCEPT ![p].op = "logout", ![p].target = next]
<1> PICK u \in mem[p].users : \E next \in mem[p].users \ {u} : Changes(u, next)
  BY Zenon DEF LogoutActive
<1> PICK next \in mem[p].users \ {u} : Changes(u, next)
  OBVIOUS
<1> DEFINE j == [job[p] EXCEPT !.op = "logout", !.target = next]
<1>1. mem[p] \in Section /\ SectionOK(mem[p]) /\ job[p] \in Job
  BY DEF IInv, LocalOK, LocalInv
<1>2. u \in Users /\ next \in Users
  BY <1>1 DEF Section
<1>3. j \in Job /\ j.op = "logout" /\ j.target = next
  BY <1>1, <1>2 DEF Job, Ops, MaybeUser
<1>4. LocalOK("clear", WithoutUser(mem[p], u), j)
  BY <1>1, <1>2, <1>3, WithoutUserOK DEF LocalOK, LocalInv, Labels, Activating
<1>5. pc' = [pc EXCEPT ![p] = "clear"]
  BY DEF LogoutActive, Goto
<1>7. /\ mem' = [mem EXCEPT ![p] = WithoutUser(mem[p], u)]
      /\ job' = [job EXCEPT ![p] = j]
  BY <1>1
<1>6. SharedOK(disk, keyring, late)'
  BY SharedUntouched DEF LogoutActive
<1> HIDE DEF j, Changes
<1> QED
  BY <1>4, <1>5, <1>6, <1>7, OneProcess

LEMMA ConfigSetStep == ASSUME IInv, NEW p \in Procs, ConfigSet(p) PROVE IInv'
<1> DEFINE j == [job[p] EXCEPT !.op = "config"]
<1>1. LocalOK(pc[p], mem[p], job[p]) /\ pc[p] = "ready"
  BY DEF IInv, ConfigSet, Goto
<1>2. j \in Job /\ j.op = "config"
  BY <1>1 DEF LocalOK, Job, Ops
<1>3. LocalOK("write", mem[p], j)
  BY <1>1, <1>2 DEF LocalOK, LocalInv, Labels, Activating
<1>4. /\ pc' = [pc EXCEPT ![p] = "write"]
      /\ mem' = [mem EXCEPT ![p] = mem[p]]
      /\ job' = [job EXCEPT ![p] = j]
  BY DEF IInv, ConfigSet, Goto
<1>5. SharedOK(disk, keyring, late)'
  BY SharedUntouched DEF ConfigSet
<1> HIDE DEF j
<1> QED
  BY <1>3, <1>4, <1>5, OneProcess

\* The two deletions of LogoutLast change only the label and the keyring.
LEMMA DropSteps ==
  ASSUME IInv, NEW p \in Procs, DropActive(p) \/ DropUser(p)
  PROVE  IInv'
<1>1. LocalOK(pc[p], mem[p], job[p])
  BY DEF IInv
<1>2. SharedOK(disk, keyring, late)'
  <2>1. NoToken \in MaybeToken /\ ActiveSlot \in Slots
        /\ \A u \in Users : u \in Slots /\ OwnedBy(NoToken, u)
    BY DEF MaybeToken, Slots, OwnedBy
  <2>2. CASE DropActive(p)
    BY <2>1, <2>2, KeyringStep DEF DropActive
  <2>3. CASE DropUser(p)
    <3>1. job[p].target \in Users
      BY <1>1, <2>3 DEF LocalOK, LocalInv, DropUser, Goto
    <3> QED
      BY <2>1, <2>3, <3>1, KeyringStep DEF DropUser
  <2> QED
    BY <2>2, <2>3
<1>3. PICK l \in {"dropUser", "write"} : LocalOK(l, mem[p], job[p]) /\ pc' = [pc EXCEPT ![p] = l]
  BY <1>1 DEF DropActive, DropUser, Goto, LocalOK, LocalInv, Labels, Activating
<1>4. /\ mem' = [mem EXCEPT ![p] = mem[p]]
      /\ job' = [job EXCEPT ![p] = job[p]]
  BY DEF IInv, DropActive, DropUser
<1> QED
  BY <1>2, <1>3, <1>4, OneProcess

-----------------------------------------------------------------------------
(* activateUser. *)

LEMMA ClearActiveStep == ASSUME IInv, NEW p \in Procs, ClearActive(p) PROVE IInv'
<1> DEFINE s == [mem[p] EXCEPT !.oauth = NoToken]
<1>1. /\ LocalOK(pc[p], mem[p], job[p]) /\ mem[p] \in Section /\ pc[p] = "clear"
  BY DEF IInv, LocalOK, ClearActive, Goto
<1>2. /\ s \in Section /\ s.oauth = NoToken
      /\ s.users = mem[p].users /\ s.tok = mem[p].tok
  BY <1>1 DEF Section, MaybeToken
<1>3. LocalOK("get", s, job[p])
  BY <1>1, <1>2 DEF LocalOK, LocalInv, SectionOK, Labels, Activating
<1>4. /\ pc' = [pc EXCEPT ![p] = "get"]
      /\ mem' = [mem EXCEPT ![p] = s]
      /\ job' = [job EXCEPT ![p] = job[p]]
  BY DEF IInv, ClearActive, Goto
<1>5. SharedOK(disk, keyring, late)'
  BY KeyringStep DEF ClearActive, MaybeToken, Slots, OwnedBy
<1> HIDE DEF s
<1> QED
  BY <1>3, <1>4, <1>5, OneProcess

LEMMA GetUserTokenStep == ASSUME IInv, NEW p \in Procs, GetUserToken(p) PROVE IInv'
<1> PICK res \in Results :
      LET t == KeyringGet(job[p].target, res) IN
      /\ Goto(p, "get", IF t # NoToken THEN "set" ELSE "place")
      /\ job' = [job EXCEPT ![p].got = t]
      /\ UNCHANGED <<disk, keyring, late, mem>>
  BY DEF GetUserToken
<1> DEFINE t == KeyringGet(job[p].target, res)
           j == [job[p] EXCEPT !.got = t]
<1>1. /\ LocalOK(pc[p], mem[p], job[p]) /\ job[p] \in Job /\ pc[p] = "get"
      /\ mem[p] \in Section
  BY DEF IInv, LocalOK, Goto
<1>2. job[p].target \in mem[p].users /\ job[p].target \in Users
  BY <1>1 DEF LocalOK, LocalInv, Section, Activating
<1>3. t \in MaybeToken /\ OwnedBy(t, job[p].target)
  BY <1>2 DEF IInv, SharedOK, KeyringInv, KeyringGet, MaybeToken, OwnedBy, Slots
<1> HIDE DEF t
<1>4. /\ j \in Job /\ j.got = t /\ j.target = job[p].target
      /\ j.op = job[p].op /\ j.prevUser = job[p].prevUser
  BY <1>1, <1>3 DEF Job
<1>5. \A l \in {"set", "place"} : LocalOK(l, mem[p], j)
  BY <1>1, <1>2, <1>3, <1>4 DEF LocalOK, LocalInv, Labels, Activating
<1>6. /\ pc' = [pc EXCEPT ![p] = IF t # NoToken THEN "set" ELSE "place"]
      /\ mem' = [mem EXCEPT ![p] = mem[p]]
      /\ job' = [job EXCEPT ![p] = j]
  BY DEF IInv, Goto, t
<1>7. SharedOK(disk, keyring, late)'
  BY SharedUntouched
<1> HIDE DEF j
<1> QED
  BY <1>5, <1>6, <1>7, OneProcess

\* Where an error leads, the local invariant asks for little.
LEMMA ErrorLabel ==
  ASSUME NEW p \in Procs, NEW l, NEW s, NEW j, LocalOK(l, s, j), j.op = job[p].op
  PROVE  LocalOK(OnError(p), s, j)
BY DEF OnError, LocalOK, LocalInv, Labels, Activating

LEMMA SetActiveStep == ASSUME IInv, NEW p \in Procs, SetActive(p) PROVE IInv'
<1>0. PICK res \in Results :
      /\ Goto(p, "set", IF res = "ok" THEN "place" ELSE OnError(p))
      /\ KeyringPut(ActiveSlot, job[p].got, res)
      /\ UNCHANGED <<disk, mem, job>>
  BY DEF SetActive
<1>1. LocalOK(pc[p], mem[p], job[p]) /\ pc[p] = "set"
  BY <1>0 DEF IInv, Goto
<1>2. LocalOK("place", mem[p], job[p])
  BY <1>1 DEF LocalOK, LocalInv, Labels, Activating
<1>3. LocalOK(OnError(p), mem[p], job[p])
  BY <1>1, ErrorLabel
<1>4. PICK l : LocalOK(l, mem[p], job[p]) /\ pc' = [pc EXCEPT ![p] = l]
  <2>1. CASE res = "ok"
    BY <1>0, <1>2, <2>1 DEF Goto
  <2>2. CASE res # "ok"
    BY <1>0, <1>3, <2>2 DEF Goto
  <2> QED
    BY <2>1, <2>2
<1>5. /\ mem' = [mem EXCEPT ![p] = mem[p]]
      /\ job' = [job EXCEPT ![p] = job[p]]
  BY <1>0 DEF IInv
<1>6. SharedOK(disk, keyring, late)'
  <2>1. job[p].got \in MaybeToken /\ ActiveSlot \in Slots /\ ActiveSlot \notin Users
    BY <1>1, AccountAssumption DEF LocalOK, Job, Slots, ActiveSlot
  <2> QED
    BY <1>0, <2>1, KeyringStep
<1> QED
  BY <1>4, <1>5, <1>6, OneProcess

LEMMA PlaceTokenStep == ASSUME IInv, NEW p \in Procs, PlaceToken(p) PROVE IInv'
<1> DEFINE u == job[p].target
           t == mem[p].tok[u]
           tokenSwitched == job[p].got # NoToken \/ t # NoToken
           placed == [mem[p] EXCEPT !.user = u, !.oauth = IF t # NoToken THEN t ELSE @]
           j == [job[p] EXCEPT !.got = NoToken]
<1>1. /\ LocalOK(pc[p], mem[p], job[p]) /\ pc[p] = "place"
      /\ mem[p] \in Section /\ job[p] \in Job
  BY DEF IInv, LocalOK, PlaceToken, Goto
<1>2. /\ u \in mem[p].users /\ u \in Users /\ t \in MaybeToken
      /\ mem[p].oauth = NoToken /\ SectionOK(mem[p])
  BY <1>1 DEF LocalOK, LocalInv, Section, Activating
<1>3. /\ j \in Job /\ j.got = NoToken /\ j.op = job[p].op
      /\ j.target = u /\ j.prevUser = job[p].prevUser
  BY <1>1 DEF Job, MaybeToken
<1>4. /\ placed \in Section /\ placed.user = u
      /\ placed.oauth = t
      /\ placed.users = mem[p].users /\ placed.tok = mem[p].tok
  BY <1>1, <1>2 DEF Section, MaybeUser
<1>5. /\ pc' = [pc EXCEPT ![p] = IF tokenSwitched THEN "write" ELSE OnError(p)]
      /\ job' = [job EXCEPT ![p] = j]
  BY DEF PlaceToken, Goto
<1>6. SharedOK(disk, keyring, late)'
  BY SharedUntouched DEF PlaceToken
<1>7. CASE tokenSwitched
  <2>1. mem' = [mem EXCEPT ![p] = placed]
    BY <1>7 DEF PlaceToken
  <2>2. LocalOK("write", placed, j)
    <3> HIDE DEF placed, j
    <3>1. SectionOK(placed)
      BY <1>2, <1>4 DEF SectionOK
    <3>2. Settled(placed)
      BY <1>2, <1>4, AccountAssumption DEF Settled
    <3> QED
      BY <1>1, <1>3, <1>4, <3>1, <3>2 DEF LocalOK, LocalInv, Labels, Activating
  <2> HIDE DEF placed, j
  <2> QED
    BY <1>5, <1>6, <1>7, <2>1, <2>2, OneProcess
<1>8. CASE ~tokenSwitched
  <2>1. mem' = [mem EXCEPT ![p] = mem[p]]
    BY <1>8 DEF IInv, PlaceToken
  <2> HIDE DEF j, tokenSwitched
  <2>2. LocalOK("place", mem[p], j)
    BY <1>1, <1>2, <1>3 DEF LocalOK, LocalInv, OwnedBy
  <2>3. LocalOK(OnError(p), mem[p], j)
    BY <1>3, <2>2, ErrorLabel
  <2> QED
    BY <1>5, <1>6, <1>8, <2>1, <2>3, OneProcess
<1> QED
  BY <1>7, <1>8

-----------------------------------------------------------------------------
(* Writing, undoing and ending. *)

LEMMA StopOK == ASSUME IInv, NEW p \in Procs PROVE LocalOK("idle", NoHost, NoJob)
<1>1. NoHost \in Section /\ SectionOK(NoHost)
  BY DEF NoHost, Section, SectionOK, MaybeUser, MaybeToken
<1>2. NoJob \in Job /\ NoJob.op = "none"
  BY DEF NoJob, Job, Ops, MaybeUser, MaybeToken
<1> QED
  BY <1>1, <1>2 DEF LocalOK, LocalInv, Labels, Activating

LEMMA EndSteps ==
  ASSUME IInv, NEW p \in Procs, WriteSection(p) \/ Exit(p) \/ Crash(p)
  PROVE  IInv'
<1>1. /\ pc' = [pc EXCEPT ![p] = "idle"]
      /\ mem' = [mem EXCEPT ![p] = NoHost]
      /\ job' = [job EXCEPT ![p] = NoJob]
  BY DEF WriteSection, Exit, Crash, Stop
<1>2. CASE WriteSection(p)
  <2>1. mem[p] \in Section /\ SectionOK(mem[p]) /\ Settled(mem[p])
    BY <1>2 DEF IInv, LocalOK, LocalInv, WriteSection
  <2>2. SharedOK(disk, keyring, late)'
    BY <1>2, <2>1 DEF IInv, SharedOK, WriteSection
  <2> QED
    BY <1>1, <2>2, StopOK, OneProcess
<1>3. CASE Exit(p) \/ Crash(p)
  <2>1. SharedOK(disk, keyring, late)'
    BY <1>3, SharedUntouched DEF Exit, Crash
  <2> QED
    BY <1>1, <2>1, StopOK, OneProcess
<1> QED
  BY <1>2, <1>3

LEMMA WriteFailsStep == ASSUME IInv, NEW p \in Procs, WriteFails(p) PROVE IInv'
<1>1. LocalOK(OnError(p), mem[p], job[p])
  BY ErrorLabel DEF IInv
<1>2. /\ pc' = [pc EXCEPT ![p] = OnError(p)]
      /\ mem' = [mem EXCEPT ![p] = mem[p]]
      /\ job' = [job EXCEPT ![p] = job[p]]
  BY DEF IInv, WriteFails, Goto
<1>3. SharedOK(disk, keyring, late)'
  BY SharedUntouched DEF WriteFails
<1> QED
  BY <1>1, <1>2, <1>3, OneProcess

LEMMA RollbackStep == ASSUME IInv, NEW p \in Procs, Rollback(p) PROVE IInv'
<1> DEFINE j == job[p]
           s == [mem[p] EXCEPT
                   !.user  = j.prevUser,
                   !.oauth = IF j.prevSource = "oauth_token" THEN j.prevToken ELSE @]
<1>1. /\ LocalOK(pc[p], mem[p], j) /\ mem[p] \in Section /\ j \in Job
      /\ pc[p] = "rollback"
  BY DEF IInv, LocalOK, Rollback, Goto
<1>2. s \in Section /\ s.users = mem[p].users /\ s.tok = mem[p].tok
  BY <1>1 DEF Section, Job
<1>3. LocalOK("failed", s, j)
  <2> HIDE DEF s, j
  <2> QED
    BY <1>1, <1>2 DEF LocalOK, LocalInv, SectionOK, Labels, Activating
<1>4. /\ pc' = [pc EXCEPT ![p] = "failed"]
      /\ mem' = [mem EXCEPT ![p] = s]
      /\ job' = [job EXCEPT ![p] = j]
  BY DEF IInv, Rollback, Goto
<1>5. SharedOK(disk, keyring, late)'
  <2>1. j.prevToken \in MaybeToken /\ ActiveSlot \in Slots /\ ActiveSlot \notin Users
    BY <1>1, AccountAssumption DEF Job, Slots, ActiveSlot
  <2>2. CASE j.prevSource = "keyring"
    BY <2>1, <2>2, KeyringStep DEF Rollback
  <2>3. CASE j.prevSource # "keyring"
    BY <2>3, SharedUntouched DEF Rollback
  <2> QED
    BY <2>2, <2>3
<1> HIDE DEF s, j
<1> QED
  BY <1>3, <1>4, <1>5, OneProcess

-----------------------------------------------------------------------------

LEMMA InitialInvariant == Init => IInv
<1> SUFFICES ASSUME Init PROVE IInv
  OBVIOUS
<1>1. NoHost \in Section /\ SectionOK(NoHost) /\ Settled(NoHost)
  BY DEF NoHost, Section, SectionOK, Settled, MaybeUser, MaybeToken
<1>2. NoJob \in Job /\ NoJob.op = "none"
  BY DEF NoJob, Job, Ops, MaybeUser, MaybeToken
<1>3. LocalOK("idle", NoHost, NoJob)
  BY <1>1, <1>2 DEF LocalOK, LocalInv, Labels, Activating
<1>4. SharedOK(disk, keyring, late)
  BY <1>1 DEF Init, SharedOK, KeyringInv, OwnedBy, Slots, MaybeToken
<1>5. \A p \in Procs : pc[p] = "idle" /\ mem[p] = NoHost /\ job[p] = NoJob
  BY DEF Init
<1> QED
  BY <1>1, <1>2, <1>3, <1>4, <1>5 DEF Init, IInv, Labels

LEMMA InvariantPreserved == IInv /\ [Next]_vars => IInv'
<1> SUFFICES ASSUME IInv, [Next]_vars PROVE IInv'
  OBVIOUS
<1>1. CASE UNCHANGED vars
  BY <1>1 DEF vars, IInv
<1>2. CASE LateRequest
  BY <1>2, LateRequestStep
<1>3. ASSUME NEW p \in Procs, Start(p) PROVE IInv'
  BY <1>3, StartStep
<1>4. ASSUME NEW p \in Procs, Command(p) PROVE IInv'
  <2>1. CASE Login(p)
    BY <2>1, StoreTokenStep DEF Login
  <2>2. CASE Refresh(p)
    BY <2>2, StoreTokenStep DEF Refresh
  <2> QED
    BY <1>4, <2>1, <2>2, SwitchStep, ConfigSetStep, LogoutLastStep, LogoutInactiveStep,
       LogoutActiveStep DEF Command
<1>5. ASSUME NEW p \in Procs, Activate(p) PROVE IInv'
  BY <1>5, ClearActiveStep, GetUserTokenStep, SetActiveStep, PlaceTokenStep DEF Activate
<1>6. ASSUME NEW p \in Procs, Finish(p) PROVE IInv'
  BY <1>6, DropSteps, RollbackStep, EndSteps, WriteFailsStep DEF Finish
<1> QED
  BY <1>1, <1>2, <1>3, <1>4, <1>5, <1>6 DEF Next

\* The inductive invariant holds throughout, whatever the faults.
THEOREM Invariant == Spec => []IInv
BY InitialInvariant, InvariantPreserved, PTL DEF Spec

\* Every variable keeps its type, and a process that undoes or activates
\* something knows the account it does it for.
THEOREM TypeCorrect == Spec => []TypeOK
BY Invariant, InvariantImplied, PTL

\* The stored section, every process's copy that may still be written and every
\* keyring request that may still be served are consistent, whatever the faults.
THEOREM StoreConsistent == Spec => []StoreInv
BY Invariant, InvariantImplied, PTL

\* No interleaving of any number of commands, crashes and faults ever stores an
\* account's token as another account's.
THEOREM TokensStayWithOwners == Spec => []OwnTokens
<1>1. IInv => OwnTokens
  BY AccountAssumption
     DEF IInv, SharedOK, SectionOK, Settled, KeyringInv, OwnTokens, OwnedBy, Section, MaybeUser
<1> QED
  BY <1>1, Invariant, PTL

\* hosts.yml never names an active account it does not list, and never keeps
\* anything of a host without an active account.
THEOREM ActiveUserAlwaysListed == Spec => []ActiveUserListed
<1>1. ASSUME IInv PROVE ActiveUserListed
  <2>1. disk \in Section /\ SectionOK(disk) /\ Settled(disk)
    BY <1>1 DEF IInv, SharedOK
  <2>2. CASE disk.user = NoUser
    <3>1. disk.tok = [u \in Users |-> NoToken]
      BY <2>1, <2>2 DEF SectionOK, Settled, Section
    <3>2. disk = NoHost
      BY <2>1, <2>2, <3>1 DEF Settled, Section, NoHost
    <3> QED
      BY <2>1, <2>2, <3>2 DEF ActiveUserListed, SectionOK
  <2>3. CASE disk.user # NoUser
    BY <2>1, <2>3 DEF ActiveUserListed, SectionOK, Settled
  <2> QED
    BY <2>2, <2>3
<1> QED
  BY <1>1, Invariant, PTL

\* The plain-text token at the host is always the active account's own.
THEOREM HostTokenAlwaysUserToken == Spec => []HostTokenIsUserToken
<1>1. IInv => HostTokenIsUserToken
  BY DEF IInv, SharedOK, Settled, HostTokenIsUserToken
<1> QED
  BY <1>1, Invariant, PTL

-----------------------------------------------------------------------------
(* What others read, when one command runs after another and keyring calls *)
(* are at most refused.                                                    *)

\* A section that is written has its active account's token, in the section
\* or in the keyring, and the active slot has no other account's.
Keeps(d, kr) == d.user # NoUser /\ d.oauth = NoToken => kr[d.user] # NoToken

Backed(d, kr) == d.user # NoUser /\ d.oauth = NoToken => OwnedBy(kr[ActiveSlot], d.user)

\* What a process that has read d may write.
Leads(d, s) ==
  \/ /\ s.user \in Users
     /\ \/ s.users = d.users \cup {s.user}
        \/ d.user \in Users /\ s.users = d.users \ {d.user}
  \/ /\ s.user = d.user /\ s.oauth = d.oauth
     /\ s.users = d.users \/ \E u \in d.users \ {d.user} : s.users = d.users \ {u}
  \/ s = NoHost /\ d.users = {d.user}

\* The only process at label l with copy s and local variables j, while the
\* stored section is d and the keyring kr.
CalmOK(l, s, j, d, kr) ==
  /\ l # "write" => Keeps(d, kr)
  /\ l \notin {"place", "write"} => Backed(d, kr)
  /\ l = "ready" => s = d
  /\ l \in Activating =>
       \/ s.users = d.users \cup {j.target}
       \/ d.user \in Users /\ s.users = d.users \ {d.user}
  /\ l \in Activating \cup {"rollback"} /\ j.op = "switch" /\ j.prevSource = "keyring"
       => OwnedBy(j.prevToken, d.user)
  /\ l = "set" => j.got # NoToken /\ kr[j.target] # NoToken
  /\ l = "place" => IF j.got = NoToken THEN Backed(d, kr)
                    ELSE kr[j.target] # NoToken /\ kr[ActiveSlot] = j.got
  /\ l \in {"dropActive", "dropUser"} => s = NoHost /\ d.user = j.target /\ d.users = {d.user}
  /\ l = "write" => Keeps(s, kr) /\ Backed(s, kr) /\ Leads(d, s)

CalmInv ==
  /\ late = {}
  /\ \A p \in Procs : CalmOK(pc[p], mem[p], job[p], disk, keyring)

ReadersInv == calm => CalmInv /\ readers = ReadersSee

Seen(d, kr) ==
  [user |-> d.user, accounts |-> d.users,
   token |-> IF d.user = NoUser THEN NoToken ELSE ActiveToken(d, kr)]

\* The steps of AccountView.
ViewStep(v, w) ==
  \/ w = v
  \/ \E t \in Tokens :
       /\ w.user = TokenOwner[t] /\ w.token = t
       /\ \/ w.accounts = v.accounts \cup {TokenOwner[t]}
          \/ v.user = TokenOwner[t] /\ w.accounts = v.accounts
          \/ TokenOwner[t] \in v.accounts \ {v.user} /\ w.accounts = v.accounts \ {v.user}
  \/ /\ w.user = v.user /\ w.token = v.token
     /\ \E u \in v.accounts \ {v.user} : w.accounts = v.accounts \ {u}
  \/ /\ v.accounts = {v.user} /\ w.token = NoToken
     /\ \/ w.user = v.user /\ w.accounts = v.accounts
        \/ w.user = NoUser /\ w.accounts = {}

\* A step that leaves the active account's token where readers find it.
LEMMA SeenKept ==
  ASSUME NEW d, NEW kr, NEW kr2, Keeps(d, kr), d.user # NoUser => kr2[d.user] = kr[d.user]
  PROVE  Seen(d, kr2) = Seen(d, kr)
BY DEF Seen, Keeps, ActiveToken

\* The token that readers find with a section that is written.
LEMMA SeenOwned ==
  ASSUME NEW d \in Section, NEW kr \in [Slots -> MaybeToken], SectionOK(d), Settled(d),
         \A u \in Users : OwnedBy(kr[u], u), Keeps(d, kr), d.user \in Users
  PROVE  /\ Seen(d, kr).user = d.user /\ Seen(d, kr).accounts = d.users
         /\ Seen(d, kr).token \in Tokens /\ TokenOwner[Seen(d, kr).token] = d.user
<1>1. d.user # NoUser /\ d.oauth \in MaybeToken
  BY AccountAssumption DEF Section
<1>2. CASE d.oauth # NoToken
  BY <1>1, <1>2 DEF Seen, ActiveToken, Settled, SectionOK, MaybeToken
<1>3. CASE d.oauth = NoToken
  <2>1. kr[d.user] # NoToken /\ kr[d.user] \in MaybeToken
    BY <1>1, <1>3 DEF Keeps, Slots
  <2> QED BY <1>1, <1>3, <2>1 DEF Seen, ActiveToken, OwnedBy, MaybeToken
<1> QED BY <1>2, <1>3

\* A keyring call that is answered or refused.
LEMMA CalmPut ==
  ASSUME NEW slot, NEW tok, NEW res, KeyringPut(slot, tok, res), late = {}, late' = {}
  PROVE  \/ res = "ok" /\ keyring' = [keyring EXCEPT ![slot] = tok]
         \/ res # "ok" /\ keyring' = keyring
BY DEF KeyringPut

\* A step of the only process, which does not write.
LEMMA CalmStep ==
  ASSUME IInv, NEW p, Procs = {p}, NEW l, NEW s, NEW j, late' = {},
         pc' = [pc EXCEPT ![p] = l],
         mem' = [mem EXCEPT ![p] = s],
         job' = [job EXCEPT ![p] = j],
         CalmOK(l, s, j, disk', keyring')
  PROVE  CalmInv'
<1>1. pc'[p] = l /\ mem'[p] = s /\ job'[p] = j
  BY DEF IInv
<1> QED BY <1>1 DEF CalmInv

\* What is known of the only process before a step.
Calm(p) ==
  /\ IInv /\ CalmInv /\ Procs = {p} /\ late' = {}

LEMMA CalmFacts ==
  ASSUME NEW p, Calm(p)
  PROVE  /\ p \in Procs /\ late = {} /\ late' = {}
         /\ CalmOK(pc[p], mem[p], job[p], disk, keyring)
         /\ LocalOK(pc[p], mem[p], job[p])
         /\ mem[p] \in Section /\ job[p] \in Job /\ disk \in Section
         /\ SectionOK(disk) /\ Settled(disk)
         /\ keyring \in [Slots -> MaybeToken]
         /\ \A u \in Users : OwnedBy(keyring[u], u) /\ u \in Slots /\ u # ActiveSlot /\ u # NoUser
         /\ ActiveSlot \in Slots /\ NoUser = ActiveSlot /\ ActiveSlot \notin Users
         /\ disk.user \in Users \cup {NoUser} /\ disk.users \subseteq Users
BY AccountAssumption
   DEF Calm, CalmInv, IInv, SharedOK, KeyringInv, LocalOK, Slots, ActiveSlot, Section, MaybeUser

\* What a step has to show.
Shows == CalmInv' /\ ViewStep(Seen(disk, keyring), Seen(disk', keyring'))

LEMMA CalmStart == ASSUME NEW p, Calm(p), Start(p) PROVE Shows
<1>1. CalmOK("ready", disk, job[p], disk, keyring)
  BY CalmFacts DEF CalmOK, Start, Goto, Activating
<1>2. /\ pc' = [pc EXCEPT ![p] = "ready"] /\ mem' = [mem EXCEPT ![p] = disk]
      /\ job' = [job EXCEPT ![p] = job[p]] /\ UNCHANGED <<disk, keyring>>
  BY DEF Calm, IInv, Start, Goto
<1>3. CalmInv'
  BY <1>1, <1>2, CalmStep DEF Calm
<1> QED BY <1>2, <1>3 DEF Shows, ViewStep

\* The new token of the account that is active already is seen at once.
LEMMA CalmStoreToken ==
  ASSUME NEW p, Calm(p), NEW t \in Tokens, NEW op \in {"login", "refresh"}, StoreToken(p, t, op)
  PROVE  Shows
<1> DEFINE u == TokenOwner[t]
           stored(x) == [mem[p] EXCEPT !.users = @ \cup {u}, !.tok[u] = x]
           j == [job[p] EXCEPT !.op = op, !.target = u]
<1>1. u \in Users /\ t # NoToken /\ TokenOwner[t] = u
  BY AccountAssumption
<1>2. PICK secure \in BOOLEAN, res \in Results :
        /\ IF secure THEN KeyringPut(u, t, res)
                     ELSE res = "ok" /\ UNCHANGED <<keyring, late>>
        /\ mem' = [mem EXCEPT
             ![p].users  = @ \cup {u},
             ![p].tok[u] = IF secure /\ res = "ok" THEN NoToken ELSE t]
  BY DEF StoreToken
<1>3. PICK x \in {t, NoToken} : mem' = [mem EXCEPT ![p] = stored(x)]
  BY <1>2
<1>4. keyring' = keyring \/ keyring' = [keyring EXCEPT ![u] = t]
  BY <1>2, CalmPut, CalmFacts
<1>5. /\ CalmOK("ready", mem[p], job[p], disk, keyring) /\ mem[p] = disk
      /\ pc' = [pc EXCEPT ![p] = "clear"] /\ job' = [job EXCEPT ![p] = j] /\ disk' = disk
  <2>1. pc[p] = "ready" /\ pc' = [pc EXCEPT ![p] = "clear"] /\ disk' = disk
    BY DEF StoreToken, Goto
  <2>2. job' = [job EXCEPT ![p] = j]
    BY DEF StoreToken
  <2> QED BY <2>1, <2>2, CalmFacts DEF CalmOK
<1>6. /\ stored(x).users = disk.users \cup {u} /\ j.op = op /\ j.target = u
  BY <1>1, <1>5, CalmFacts DEF Section, Job
<1> HIDE DEF stored, j, u
<1>7. Keeps(disk, keyring') /\ Backed(disk, keyring')
  BY <1>1, <1>4, <1>5, CalmFacts DEF CalmOK, Keeps, Backed
<1>8. CalmOK("clear", stored(x), j, disk, keyring')
  BY <1>6, <1>7 DEF CalmOK
<1>9. CalmInv'
  BY <1>3, <1>5, <1>8, CalmStep, CalmFacts DEF Calm
<1>10. ViewStep(Seen(disk, keyring), Seen(disk, keyring'))
  <2>1. CASE disk.user # NoUser => keyring'[disk.user] = keyring[disk.user]
    <3>1. Seen(disk, keyring') = Seen(disk, keyring)
      BY <1>5, <2>1, SeenKept DEF CalmOK
    <3> QED BY <3>1 DEF ViewStep
  <2>2. CASE disk.user = u /\ keyring' = [keyring EXCEPT ![u] = t]
    <3>1. keyring'[u] = t
      BY <1>1, <2>2, CalmFacts
    <3>2. CASE disk.oauth # NoToken
      BY <3>2 DEF Seen, ActiveToken, ViewStep
    <3>3. CASE disk.oauth = NoToken
      <4>1. /\ Seen(disk, keyring').token = t
            /\ Seen(disk, keyring').user = u /\ Seen(disk, keyring).user = u
            /\ Seen(disk, keyring').accounts = Seen(disk, keyring).accounts
        BY <1>1, <2>2, <3>1, <3>3, CalmFacts DEF Seen, ActiveToken
      <4> QED BY <1>1, <4>1 DEF ViewStep
    <3> QED BY <3>2, <3>3
  <2> QED BY <1>4, <2>1, <2>2, CalmFacts
<1> QED BY <1>5, <1>9, <1>10 DEF Shows

LEMMA CalmSwitch == ASSUME NEW p, Calm(p), Switch(p) PROVE Shows
<1>1. PICK u \in mem[p].users, r1 \in Results, r2 \in Results :
      LET s     == mem[p]
          own   == KeyringGet(s.user, r1)
          found == IF own # NoToken THEN own ELSE KeyringGet(ActiveSlot, r2)
          fromKeyring == s.oauth = NoToken /\ found # NoToken
      IN job' = [job EXCEPT ![p] =
           [op |-> "switch", target |-> u, got |-> NoToken, prevUser |-> s.user,
            prevToken  |-> IF fromKeyring THEN found ELSE s.oauth,
            prevSource |-> IF fromKeyring THEN "keyring" ELSE "oauth_token"]]
  BY DEF Switch
<1> DEFINE own   == KeyringGet(mem[p].user, r1)
           found == IF own # NoToken THEN own ELSE KeyringGet(ActiveSlot, r2)
           fromKeyring == mem[p].oauth = NoToken /\ found # NoToken
           j == [op |-> "switch", target |-> u, got |-> NoToken, prevUser |-> mem[p].user,
                 prevToken  |-> IF fromKeyring THEN found ELSE mem[p].oauth,
                 prevSource |-> IF fromKeyring THEN "keyring" ELSE "oauth_token"]
<1>2. job' = [job EXCEPT ![p] = j]
  BY <1>1
<1>3. /\ CalmOK("ready", mem[p], job[p], disk, keyring) /\ mem[p] = disk /\ disk.user # NoUser
      /\ pc' = [pc EXCEPT ![p] = "clear"] /\ mem' = [mem EXCEPT ![p] = mem[p]]
      /\ UNCHANGED <<disk, keyring>>
  BY CalmFacts DEF Switch, Goto, CalmOK, Calm, IInv
<1>4. disk.oauth = NoToken => OwnedBy(found, disk.user)
  BY <1>3, CalmFacts DEF CalmOK, Backed, KeyringGet, OwnedBy
<1>5. /\ j.op = "switch" /\ j.target = u /\ u \in disk.users
      /\ j.prevSource = "keyring" => OwnedBy(j.prevToken, disk.user)
  BY <1>3, <1>4
<1> HIDE DEF j
<1>6. CalmOK("clear", mem[p], j, disk, keyring)
  BY <1>3, <1>5 DEF CalmOK
<1>7. CalmInv'
  BY <1>2, <1>3, <1>6, CalmStep, CalmFacts DEF Calm
<1> QED BY <1>3, <1>7 DEF Shows, ViewStep

LEMMA CalmLogoutLast == ASSUME NEW p, Calm(p), LogoutLast(p) PROVE Shows
<1>1. PICK u \in mem[p].users :
        /\ Cardinality(mem[p].users) < 2
        /\ job' = [job EXCEPT ![p] = [job[p] EXCEPT !.op = "logout", !.target = u]]
  BY DEF LogoutLast
<1> DEFINE j == [job[p] EXCEPT !.op = "logout", !.target = u]
<1>2. /\ CalmOK("ready", mem[p], job[p], disk, keyring) /\ mem[p] = disk
      /\ pc' = [pc EXCEPT ![p] = "dropActive"] /\ mem' = [mem EXCEPT ![p] = NoHost]
      /\ UNCHANGED <<disk, keyring>>
  BY CalmFacts DEF LogoutLast, Goto, CalmOK
<1>3. disk.users = {u}
  <2>1. IsFiniteSet(disk.users)
    BY AccountAssumption, CalmFacts, FS_Subset
  <2>2. Cardinality(disk.users) \in Nat /\ Cardinality(disk.users) < 2 /\ u \in disk.users
    BY <1>1, <1>2, <2>1, FS_CardinalityType
  <2>3. IsFiniteSet(disk.users \ {u}) /\ Cardinality(disk.users \ {u}) = Cardinality(disk.users) - 1
    BY <2>1, <2>2, FS_RemoveElement
  <2>4. Cardinality(disk.users \ {u}) \in Nat
    BY <2>3, FS_CardinalityType
  <2>5. Cardinality(disk.users \ {u}) = 0
    BY <2>2, <2>3, <2>4
  <2>6. disk.users \ {u} = {}
    BY <2>3, <2>5, FS_EmptySet
  <2> QED BY <2>2, <2>6
<1>4. disk.user = u
  BY <1>3, CalmFacts DEF Settled
<1>5. j.op = "logout" /\ j.target = u
  BY CalmFacts DEF Job
<1> HIDE DEF j
<1>6. CalmOK("dropActive", NoHost, j, disk, keyring)
  BY <1>2, <1>3, <1>4, <1>5 DEF CalmOK, Activating
<1>7. CalmInv'
  BY <1>1, <1>2, <1>6, CalmStep, CalmFacts DEF Calm, j
<1> QED BY <1>2, <1>7 DEF Shows, ViewStep

LEMMA CalmLogoutInactive == ASSUME NEW p, Calm(p), LogoutInactive(p) PROVE Shows
<1>1. PICK u \in mem[p].users : mem[p].user # u /\ mem' = [mem EXCEPT ![p] = WithoutUser(mem[p], u)]
  BY DEF LogoutInactive
<1> DEFINE j == [job[p] EXCEPT !.op = "logout"]
           s == WithoutUser(disk, u)
<1>2. /\ CalmOK("ready", mem[p], job[p], disk, keyring) /\ mem[p] = disk
      /\ pc' = [pc EXCEPT ![p] = "write"] /\ job' = [job EXCEPT ![p] = j]
      /\ UNCHANGED <<disk, keyring>>
  BY CalmFacts DEF LogoutInactive, Goto, CalmOK
<1>3. s.user = disk.user /\ s.oauth = disk.oauth /\ s.users = disk.users \ {u}
  BY CalmFacts DEF WithoutUser, Section
<1>4. mem' = [mem EXCEPT ![p] = s] /\ u \in disk.users \ {disk.user}
  BY <1>1, <1>2
<1> HIDE DEF j, s
<1>5. Keeps(s, keyring) /\ Backed(s, keyring) /\ Leads(disk, s)
  BY <1>2, <1>3, <1>4 DEF CalmOK, Keeps, Backed, Leads
<1>6. CalmOK("write", s, j, disk, keyring)
  BY <1>5 DEF CalmOK, Activating
<1>7. CalmInv'
  BY <1>2, <1>4, <1>6, CalmStep, CalmFacts DEF Calm
<1> QED BY <1>2, <1>7 DEF Shows, ViewStep

LEMMA CalmLogoutActive == ASSUME NEW p, Calm(p), LogoutActive(p) PROVE Shows
<1> DEFINE Changes(u, next) ==
      /\ mem[p].user = u
      /\ mem' = [mem EXCEPT ![p] = WithoutUser(@, u)]
      /\ job' = [job EXCEPT ![p].op = "logout", ![p].target = next]
<1>1. PICK u \in mem[p].users : \E next \in mem[p].users \ {u} : Changes(u, next)
  BY Zenon DEF LogoutActive
<1>2. PICK next \in mem[p].users \ {u} : Changes(u, next)
  BY <1>1
<1> DEFINE j == [job[p] EXCEPT !.op = "logout", !.target = next]
           s == WithoutUser(disk, u)
<1>3. /\ CalmOK("ready", mem[p], job[p], disk, keyring) /\ mem[p] = disk
      /\ pc' = [pc EXCEPT ![p] = "clear"] /\ UNCHANGED <<disk, keyring>>
  BY CalmFacts DEF LogoutActive, Goto, CalmOK
<1>4. mem' = [mem EXCEPT ![p] = s] /\ job' = [job EXCEPT ![p] = j] /\ u = disk.user /\ u \in disk.users
  BY <1>2, <1>3
<1>5. s.users = disk.users \ {u} /\ j.op = "logout"
  BY CalmFacts DEF WithoutUser, Section, Job
<1> HIDE DEF j, s, Changes
<1>6. CalmOK("clear", s, j, disk, keyring)
  BY <1>3, <1>4, <1>5, CalmFacts DEF CalmOK, Activating
<1>7. CalmInv'
  BY <1>3, <1>4, <1>6, CalmStep, CalmFacts DEF Calm
<1> QED BY <1>3, <1>7 DEF Shows, ViewStep

LEMMA CalmConfigSet == ASSUME NEW p, Calm(p), ConfigSet(p) PROVE Shows
<1> DEFINE j == [job[p] EXCEPT !.op = "config"]
<1>1. /\ CalmOK("ready", mem[p], job[p], disk, keyring) /\ mem[p] = disk
      /\ pc' = [pc EXCEPT ![p] = "write"] /\ mem' = [mem EXCEPT ![p] = disk]
      /\ job' = [job EXCEPT ![p] = j] /\ UNCHANGED <<disk, keyring>>
  BY CalmFacts DEF ConfigSet, Goto, CalmOK, Calm, IInv
<1> HIDE DEF j
<1>2. CalmOK("write", disk, j, disk, keyring)
  BY <1>1 DEF CalmOK, Leads, Activating
<1>3. CalmInv'
  BY <1>1, <1>2, CalmStep, CalmFacts DEF Calm
<1> QED BY <1>1, <1>3 DEF Shows, ViewStep

\* The tokens that LogoutLast deletes: readers still find the account.
LEMMA CalmDropActive == ASSUME NEW p, Calm(p), DropActive(p) PROVE Shows
<1>1. /\ CalmOK("dropActive", mem[p], job[p], disk, keyring)
      /\ pc' = [pc EXCEPT ![p] = "dropUser"] /\ mem' = [mem EXCEPT ![p] = mem[p]]
      /\ job' = [job EXCEPT ![p] = job[p]] /\ disk' = disk
  BY CalmFacts DEF DropActive, Goto, Calm, IInv
<1>2. keyring' = keyring \/ keyring' = [keyring EXCEPT ![ActiveSlot] = NoToken]
  BY CalmPut, CalmFacts DEF DropActive
<1>3. Keeps(disk, keyring') /\ Backed(disk, keyring') /\ (disk.user # NoUser => keyring'[disk.user] = keyring[disk.user])
  BY <1>1, <1>2, CalmFacts DEF CalmOK, Keeps, Backed, OwnedBy
<1>4. CalmOK("dropUser", mem[p], job[p], disk, keyring')
  BY <1>1, <1>3 DEF CalmOK, Activating
<1>5. CalmInv'
  BY <1>1, <1>4, CalmStep, CalmFacts DEF Calm
<1>6. Seen(disk, keyring') = Seen(disk, keyring)
  BY <1>1, <1>3, SeenKept DEF CalmOK
<1> QED BY <1>1, <1>5, <1>6 DEF Shows, ViewStep

LEMMA CalmDropUser == ASSUME NEW p, Calm(p), DropUser(p) PROVE Shows
<1>1. /\ CalmOK("dropUser", mem[p], job[p], disk, keyring)
      /\ pc' = [pc EXCEPT ![p] = "write"] /\ mem' = [mem EXCEPT ![p] = mem[p]]
      /\ job' = [job EXCEPT ![p] = job[p]] /\ disk' = disk
  BY CalmFacts DEF DropUser, Goto, Calm, IInv
<1>2. /\ mem[p] = NoHost /\ disk.user = job[p].target /\ disk.users = {disk.user}
      /\ Keeps(disk, keyring) /\ Backed(disk, keyring)
  BY <1>1 DEF CalmOK
<1>3. disk.user \in Users
  BY <1>2, CalmFacts
<1>4. keyring' = keyring \/ keyring' = [keyring EXCEPT ![disk.user] = NoToken]
  BY <1>2, CalmPut, CalmFacts DEF DropUser
<1>5. CalmOK("write", mem[p], job[p], disk, keyring')
  <2>1. NoHost.user = NoUser
    BY DEF NoHost
  <2> QED BY <1>2, <2>1 DEF CalmOK, Keeps, Backed, Leads, Activating
<1>6. CalmInv'
  BY <1>1, <1>5, CalmStep, CalmFacts DEF Calm
<1>7. ViewStep(Seen(disk, keyring), Seen(disk, keyring'))
  <2>1. CASE keyring' = keyring \/ disk.oauth # NoToken
    BY <2>1 DEF Seen, ActiveToken, ViewStep
  <2>2. CASE keyring' = [keyring EXCEPT ![disk.user] = NoToken] /\ disk.oauth = NoToken
    <3>1. keyring'[disk.user] = NoToken /\ keyring'[ActiveSlot] = keyring[ActiveSlot]
      BY <1>3, <2>2, CalmFacts
    <3>2. /\ Seen(disk, keyring').token = keyring[ActiveSlot]
          /\ Seen(disk, keyring').user = disk.user /\ Seen(disk, keyring').accounts = {disk.user}
          /\ Seen(disk, keyring).user = disk.user /\ Seen(disk, keyring).accounts = {disk.user}
      BY <1>2, <1>3, <2>2, <3>1, CalmFacts DEF Seen, ActiveToken
    <3>3. CASE keyring[ActiveSlot] = NoToken
      BY <3>2, <3>3 DEF ViewStep
    <3>4. CASE keyring[ActiveSlot] # NoToken
      <4>1. keyring[ActiveSlot] \in Tokens /\ TokenOwner[keyring[ActiveSlot]] = disk.user
        BY <1>2, <1>3, <2>2, <3>4, CalmFacts DEF Backed, OwnedBy, MaybeToken
      <4> QED BY <3>2, <4>1 DEF ViewStep
    <3> QED BY <3>3, <3>4
  <2> QED BY <1>4, <2>1, <2>2
<1> QED BY <1>1, <1>6, <1>7 DEF Shows

LEMMA CalmClearActive == ASSUME NEW p, Calm(p), ClearActive(p) PROVE Shows
<1> DEFINE s == [mem[p] EXCEPT !.oauth = NoToken]
<1>1. /\ CalmOK("clear", mem[p], job[p], disk, keyring)
      /\ pc' = [pc EXCEPT ![p] = "get"] /\ mem' = [mem EXCEPT ![p] = s]
      /\ job' = [job EXCEPT ![p] = job[p]] /\ disk' = disk
  BY CalmFacts DEF ClearActive, Goto, Calm, IInv
<1>2. keyring' = keyring \/ keyring' = [keyring EXCEPT ![ActiveSlot] = NoToken]
  BY CalmPut, CalmFacts DEF ClearActive
<1>3. Keeps(disk, keyring') /\ Backed(disk, keyring') /\ (disk.user # NoUser => keyring'[disk.user] = keyring[disk.user])
  BY <1>1, <1>2, CalmFacts DEF CalmOK, Keeps, Backed, OwnedBy
<1>4. s.users = mem[p].users
  BY CalmFacts DEF Section
<1> HIDE DEF s
<1>5. CalmOK("get", s, job[p], disk, keyring')
  BY <1>1, <1>3, <1>4 DEF CalmOK, Activating
<1>6. CalmInv'
  BY <1>1, <1>5, CalmStep, CalmFacts DEF Calm
<1>7. Seen(disk, keyring') = Seen(disk, keyring)
  BY <1>1, <1>3, SeenKept DEF CalmOK
<1> QED BY <1>1, <1>6, <1>7 DEF Shows, ViewStep

LEMMA CalmGetUserToken == ASSUME NEW p, Calm(p), GetUserToken(p) PROVE Shows
<1>1. PICK res \in Results :
      LET t == KeyringGet(job[p].target, res) IN
      /\ Goto(p, "get", IF t # NoToken THEN "set" ELSE "place")
      /\ job' = [job EXCEPT ![p].got = t]
      /\ UNCHANGED <<disk, keyring, late, mem>>
  BY DEF GetUserToken
<1> DEFINE t == KeyringGet(job[p].target, res)
           j == [job[p] EXCEPT !.got = t]
           l == IF t # NoToken THEN "set" ELSE "place"
<1>2. /\ CalmOK("get", mem[p], job[p], disk, keyring)
      /\ pc' = [pc EXCEPT ![p] = l] /\ mem' = [mem EXCEPT ![p] = mem[p]]
      /\ job' = [job EXCEPT ![p] = j] /\ UNCHANGED <<disk, keyring>>
  BY <1>1, CalmFacts DEF Goto, Calm, IInv
<1>3. /\ j.got = t /\ j.target = job[p].target /\ j.op = job[p].op
      /\ j.prevSource = job[p].prevSource /\ j.prevToken = job[p].prevToken
  BY CalmFacts DEF Job
<1>4. t # NoToken => keyring[job[p].target] # NoToken
  BY DEF KeyringGet
<1> HIDE DEF j, t
<1>5. CalmOK(l, mem[p], j, disk, keyring)
  BY <1>2, <1>3, <1>4 DEF CalmOK, Activating
<1> HIDE DEF l
<1>6. CalmInv'
  BY <1>2, <1>5, CalmStep, CalmFacts DEF Calm
<1> QED BY <1>2, <1>6 DEF Shows, ViewStep

\* Where an error leads, less is asked for.
LEMMA CalmError ==
  ASSUME NEW p, NEW s, NEW j, NEW d, NEW kr, Keeps(d, kr), Backed(d, kr),
         j.op = "switch" /\ j.prevSource = "keyring" => OwnedBy(j.prevToken, d.user)
  PROVE  CalmOK(OnError(p), s, j, d, kr)
BY DEF OnError, CalmOK, Activating

LEMMA CalmSetActive == ASSUME NEW p, Calm(p), SetActive(p) PROVE Shows
<1>1. PICK res \in Results :
      /\ Goto(p, "set", IF res = "ok" THEN "place" ELSE OnError(p))
      /\ KeyringPut(ActiveSlot, job[p].got, res)
      /\ UNCHANGED <<disk, mem, job>>
  BY DEF SetActive
<1>2. /\ CalmOK("set", mem[p], job[p], disk, keyring) /\ LocalOK("set", mem[p], job[p])
      /\ mem' = [mem EXCEPT ![p] = mem[p]]
      /\ job' = [job EXCEPT ![p] = job[p]] /\ disk' = disk
  BY <1>1, CalmFacts DEF Goto, Calm, IInv
<1>3. job[p].target \in Users
  BY <1>2, CalmFacts DEF LocalOK, LocalInv, Activating, Section
<1>4. PICK l : pc' = [pc EXCEPT ![p] = l] /\ CalmOK(l, mem[p], job[p], disk, keyring')
             /\ (disk.user # NoUser => keyring'[disk.user] = keyring[disk.user])
  <2>1. CASE res = "ok"
    <3>1. keyring' = [keyring EXCEPT ![ActiveSlot] = job[p].got]
      BY <1>1, <2>1, CalmPut, CalmFacts
    <3>2. /\ keyring'[ActiveSlot] = job[p].got /\ keyring'[job[p].target] = keyring[job[p].target]
          /\ disk.user # NoUser => keyring'[disk.user] = keyring[disk.user]
      BY <1>3, <3>1, CalmFacts
    <3>3. CalmOK("place", mem[p], job[p], disk, keyring')
      BY <1>2, <3>2 DEF CalmOK, Keeps, Activating
    <3> QED BY <1>1, <2>1, <3>2, <3>3 DEF Goto
  <2>2. CASE res # "ok"
    <3>1. keyring' = keyring
      BY <1>1, <2>2, CalmPut, CalmFacts
    <3>2. /\ Keeps(disk, keyring) /\ Backed(disk, keyring)
          /\ job[p].op = "switch" /\ job[p].prevSource = "keyring" => OwnedBy(job[p].prevToken, disk.user)
          /\ disk.user # NoUser => keyring'[disk.user] = keyring[disk.user]
      BY <1>2, <3>1 DEF CalmOK, Activating
    <3>3. CalmOK(OnError(p), mem[p], job[p], disk, keyring')
      BY <3>1, <3>2, CalmError
    <3> QED BY <1>1, <2>2, <3>2, <3>3 DEF Goto
  <2> QED BY <2>1, <2>2
<1>5. CalmInv'
  BY <1>2, <1>4, CalmStep, CalmFacts DEF Calm
<1>6. Seen(disk, keyring') = Seen(disk, keyring)
  BY <1>2, <1>4, SeenKept DEF CalmOK
<1> QED BY <1>2, <1>5, <1>6 DEF Shows, ViewStep

LEMMA CalmPlaceToken == ASSUME NEW p, Calm(p), PlaceToken(p) PROVE Shows
<1> DEFINE u == job[p].target
           t == mem[p].tok[u]
           tokenSwitched == job[p].got # NoToken \/ t # NoToken
           placed == [mem[p] EXCEPT !.user = u, !.oauth = IF t # NoToken THEN t ELSE @]
           j == [job[p] EXCEPT !.got = NoToken]
<1>1. /\ CalmOK("place", mem[p], job[p], disk, keyring) /\ LocalOK("place", mem[p], job[p])
      /\ pc' = [pc EXCEPT ![p] = IF tokenSwitched THEN "write" ELSE OnError(p)]
      /\ job' = [job EXCEPT ![p] = j] /\ UNCHANGED <<disk, keyring>>
  <2>1. /\ pc[p] = "place" /\ pc' = [pc EXCEPT ![p] = IF tokenSwitched THEN "write" ELSE OnError(p)]
        /\ job' = [job EXCEPT ![p] = j] /\ UNCHANGED <<disk, keyring>>
    BY DEF PlaceToken, Goto
  <2> QED BY <2>1, CalmFacts
<1>2. /\ u \in mem[p].users /\ u \in Users /\ mem[p].oauth = NoToken /\ OwnedBy(job[p].got, u)
  BY <1>1, CalmFacts DEF LocalOK, LocalInv, Section, Activating
<1>3. /\ j.got = NoToken /\ j.target = u /\ j.op = job[p].op
      /\ j.prevSource = job[p].prevSource /\ j.prevToken = job[p].prevToken
  BY CalmFacts DEF Job
<1>4. placed.user = u /\ placed.oauth = t /\ placed.users = mem[p].users
  BY <1>2, CalmFacts DEF Section
<1>5. PICK l, s : pc' = [pc EXCEPT ![p] = l] /\ mem' = [mem EXCEPT ![p] = s] /\ CalmOK(l, s, j, disk, keyring)
  <2>1. CASE tokenSwitched
    <3>1. mem' = [mem EXCEPT ![p] = placed]
      BY <2>1 DEF PlaceToken
    <3>2. Keeps(placed, keyring) /\ Backed(placed, keyring)
      <4> HIDE DEF placed
      <4> QED BY <1>1, <1>2, <1>4, <2>1 DEF CalmOK, Keeps, Backed
    <3>3. Leads(disk, placed)
      <4> HIDE DEF placed
      <4> QED BY <1>1, <1>2, <1>4 DEF CalmOK, Leads, Activating
    <3> HIDE DEF placed, j
    <3>4. CalmOK("write", placed, j, disk, keyring)
      BY <3>2, <3>3 DEF CalmOK, Activating
    <3> QED BY <1>1, <2>1, <3>1, <3>4
  <2>2. CASE ~tokenSwitched
    <3>1. mem' = [mem EXCEPT ![p] = mem[p]]
      BY <2>2 DEF PlaceToken, Calm, IInv
    <3> HIDE DEF j
    <3>2. CalmOK(OnError(p), mem[p], j, disk, keyring)
      BY <1>1, <1>3, <2>2, CalmError DEF CalmOK, Activating
    <3> QED BY <1>1, <2>2, <3>1, <3>2
  <2> QED BY <2>1, <2>2
<1> HIDE DEF j
<1>6. CalmInv'
  BY <1>1, <1>5, CalmStep, CalmFacts DEF Calm
<1> QED BY <1>1, <1>6 DEF Shows, ViewStep

\* The section replaces the stored one, and readers see the whole command.
LEMMA CalmWriteSection == ASSUME NEW p, Calm(p), WriteSection(p) PROVE Shows
<1>1. /\ CalmOK("write", mem[p], job[p], disk, keyring) /\ LocalOK("write", mem[p], job[p])
      /\ pc' = [pc EXCEPT ![p] = "idle"] /\ mem' = [mem EXCEPT ![p] = NoHost]
      /\ job' = [job EXCEPT ![p] = NoJob] /\ disk' = mem[p] /\ keyring' = keyring
  BY CalmFacts DEF WriteSection, Stop
<1>2. Keeps(mem[p], keyring) /\ Backed(mem[p], keyring) /\ Leads(disk, mem[p])
  BY <1>1 DEF CalmOK
<1>3. CalmOK("idle", NoHost, NoJob, disk', keyring')
  BY <1>1, <1>2 DEF CalmOK, Activating
<1>4. CalmInv'
  BY <1>1, <1>3, CalmStep, CalmFacts DEF Calm
<1>5. ViewStep(Seen(disk, keyring), Seen(mem[p], keyring))
  <2>1. SectionOK(mem[p]) /\ Settled(mem[p]) /\ mem[p] \in Section
    BY <1>1, CalmFacts DEF LocalOK, LocalInv
  <2>2. Seen(disk, keyring).user = disk.user /\ Seen(disk, keyring).accounts = disk.users
    BY DEF Seen
  <2>3. CASE /\ mem[p].user \in Users
             /\ \/ mem[p].users = disk.users \cup {mem[p].user}
                \/ disk.user \in Users /\ mem[p].users = disk.users \ {disk.user}
    <3>1. /\ Seen(mem[p], keyring).user = mem[p].user /\ Seen(mem[p], keyring).accounts = mem[p].users
          /\ Seen(mem[p], keyring).token \in Tokens
          /\ TokenOwner[Seen(mem[p], keyring).token] = mem[p].user
      BY <1>2, <2>1, <2>3, SeenOwned, CalmFacts
    <3>2. mem[p].user \in mem[p].users
      BY <2>1, <2>3, CalmFacts DEF Settled
    <3> QED BY <2>2, <2>3, <3>1, <3>2 DEF ViewStep
  <2>4. CASE /\ mem[p].user = disk.user /\ mem[p].oauth = disk.oauth
             /\ mem[p].users = disk.users \/ \E u \in disk.users \ {disk.user} : mem[p].users = disk.users \ {u}
    <3>1. /\ Seen(mem[p], keyring).token = Seen(disk, keyring).token
          /\ Seen(mem[p], keyring).user = Seen(disk, keyring).user
          /\ Seen(mem[p], keyring).accounts = mem[p].users
      BY <2>4 DEF Seen, ActiveToken
    <3>2. CASE mem[p].users = disk.users
      BY <2>4, <3>2 DEF Seen, ActiveToken, ViewStep
    <3>3. CASE \E u \in disk.users \ {disk.user} : mem[p].users = disk.users \ {u}
      BY <2>2, <3>1, <3>3 DEF ViewStep
    <3> QED BY <2>4, <3>2, <3>3
  <2>5. CASE mem[p] = NoHost /\ disk.users = {disk.user}
    <3>1. /\ Seen(mem[p], keyring).token = NoToken /\ Seen(mem[p], keyring).user = NoUser
          /\ Seen(mem[p], keyring).accounts = {}
      BY <2>5 DEF Seen, NoHost
    <3> QED BY <2>2, <2>5, <3>1 DEF ViewStep
  <2> QED BY <1>2, <2>3, <2>4, <2>5 DEF Leads
<1> QED BY <1>1, <1>4, <1>5 DEF Shows

LEMMA CalmRollback == ASSUME NEW p, Calm(p), Rollback(p) PROVE Shows
<1> DEFINE j == job[p]
           s == [mem[p] EXCEPT
                   !.user  = j.prevUser,
                   !.oauth = IF j.prevSource = "oauth_token" THEN j.prevToken ELSE @]
<1>1. /\ pc[p] = "rollback" /\ pc' = [pc EXCEPT ![p] = "failed"] /\ mem' = [mem EXCEPT ![p] = s]
      /\ job' = [job EXCEPT ![p] = j] /\ disk' = disk
  BY DEF Rollback, Goto, Calm, IInv
<1>2. CalmOK("rollback", mem[p], j, disk, keyring) /\ j.op = "switch"
  BY <1>1, CalmFacts DEF LocalOK, LocalInv
<1>3. \/ keyring' = keyring
      \/ j.prevSource = "keyring" /\ keyring' = [keyring EXCEPT ![ActiveSlot] = j.prevToken]
  BY CalmPut, CalmFacts DEF Rollback
<1> HIDE DEF j, s
<1>4. /\ Keeps(disk, keyring') /\ Backed(disk, keyring')
      /\ disk.user # NoUser => keyring'[disk.user] = keyring[disk.user]
  BY <1>2, <1>3, CalmFacts DEF CalmOK, Keeps, Backed
<1>5. CalmOK("failed", s, j, disk, keyring')
  BY <1>4 DEF CalmOK, Activating
<1>6. CalmInv'
  BY <1>1, <1>5, CalmStep, CalmFacts DEF Calm
<1>7. Seen(disk, keyring') = Seen(disk, keyring)
  BY <1>2, <1>4, SeenKept DEF CalmOK
<1> QED BY <1>1, <1>6, <1>7 DEF Shows, ViewStep

LEMMA CalmExit == ASSUME NEW p, Calm(p), Exit(p) PROVE Shows
<1>1. /\ CalmOK("failed", mem[p], job[p], disk, keyring)
      /\ pc' = [pc EXCEPT ![p] = "idle"] /\ mem' = [mem EXCEPT ![p] = NoHost]
      /\ job' = [job EXCEPT ![p] = NoJob] /\ UNCHANGED <<disk, keyring>>
  BY CalmFacts DEF Exit, Stop
<1>2. CalmOK("idle", NoHost, NoJob, disk, keyring)
  BY <1>1 DEF CalmOK, Activating
<1>3. CalmInv'
  BY <1>1, <1>2, CalmStep, CalmFacts DEF Calm
<1> QED BY <1>1, <1>3 DEF Shows, ViewStep

-----------------------------------------------------------------------------

\* Every step of the only process, unless it is killed or its write fails.
LEMMA CalmNext ==
  ASSUME NEW p, Calm(p), Next, ~WriteFails(p), ~Crash(p)
  PROVE  Shows
<1>1. Start(p) \/ Command(p) \/ Activate(p) \/ Finish(p)
  BY CalmFacts DEF Next, LateRequest, Calm
<1>2. CASE Start(p)
  BY <1>2, CalmStart
<1>3. CASE Command(p)
  <2>1. CASE Login(p)
    BY <2>1, CalmStoreToken DEF Login
  <2>2. CASE Refresh(p)
    BY <2>2, CalmStoreToken DEF Refresh
  <2> QED
    BY <1>3, <2>1, <2>2, CalmSwitch, CalmConfigSet, CalmLogoutLast, CalmLogoutInactive,
       CalmLogoutActive DEF Command
<1>4. CASE Activate(p)
  BY <1>4, CalmClearActive, CalmGetUserToken, CalmSetActive, CalmPlaceToken DEF Activate
<1>5. CASE Finish(p)
  BY <1>5, CalmDropActive, CalmDropUser, CalmRollback, CalmWriteSection, CalmExit DEF Finish
<1> QED
  BY <1>1, <1>2, <1>3, <1>4, <1>5

LEMMA ReadersSeen == ReadersSee = Seen(disk, keyring)
BY DEF ReadersSee, Seen

LEMMA ReadersInitially ==
  ASSUME NEW p, Procs = {p}, ReadersInit
  PROVE  ReadersInv
<1>1. readers = ReadersSee /\ late = {}
  BY DEF ReadersInit, Init
<1>2. CalmOK("idle", NoHost, NoJob, NoHost, keyring)
  BY DEF CalmOK, Keeps, Backed, NoHost, Activating
<1>3. pc[p] = "idle" /\ mem[p] = NoHost /\ job[p] = NoJob /\ disk = NoHost
  BY DEF ReadersInit, Init
<1> QED BY <1>1, <1>2, <1>3 DEF ReadersInv, CalmInv

\* A step keeps ReadersInv and is, to readers, a step of AccountView.
LEMMA ReadersStep ==
  ASSUME NEW p, Procs = {p}, IInv, ReadersInv, [ReadersNext]_<<vars, calm, readers>>
  PROVE  ReadersInv' /\ ViewStep(readers, readers')
<1>1. CASE UNCHANGED <<vars, calm, readers>>
  <2>1. ReadersSee' = ReadersSee /\ (CalmInv => CalmInv')
    BY <1>1 DEF vars, ReadersSee, ActiveToken, ActiveSlot, CalmInv
  <2>2. readers' = readers /\ (calm' => calm)
    BY <1>1
  <2> QED BY <2>1, <2>2 DEF ReadersInv, ViewStep
<1>2. CASE ReadersNext
  <2>1. CASE calm'
    <3>1. calm /\ ~Disturbed /\ readers' = ReadersSee' /\ Next
      BY <1>2, <2>1, Zenon DEF ReadersNext
    <3>2. CalmInv /\ readers = ReadersSee
      BY <3>1, Zenon DEF ReadersInv
    <3>3. late' = {} /\ ~WriteFails(p) /\ ~Crash(p)
      BY <3>1, <3>2 DEF Disturbed, CalmInv
    <3>4. Shows
      BY <3>1, <3>2, <3>3, CalmNext DEF Calm
    <3>5. ReadersSee' = Seen(disk', keyring')
      BY DEF ReadersSee, Seen
    <3> QED BY <3>1, <3>2, <3>4, <3>5, ReadersSeen DEF Shows, ReadersInv
  <2>2. CASE ~calm'
    <3>1. readers' = readers
      BY <1>2, <2>2, Zenon DEF ReadersNext
    <3> QED BY <2>2, <3>1 DEF ReadersInv, ViewStep
  <2> QED BY <2>1, <2>2
<1> QED BY <1>1, <1>2

LEMMA ViewSteps ==
  ASSUME ViewStep(readers, readers')
  PROVE  [View!Next]_(View!vars)
<1>1. CASE readers' = readers
  BY <1>1 DEF View!vars
<1>2. ASSUME NEW t \in Tokens, readers'.user = TokenOwner[t], readers'.token = t,
             \/ readers'.accounts = readers.accounts \cup {TokenOwner[t]}
             \/ readers.user = TokenOwner[t] /\ readers'.accounts = readers.accounts
             \/ /\ TokenOwner[t] \in readers.accounts \ {readers.user}
                /\ readers'.accounts = readers.accounts \ {readers.user}
      PROVE  View!Login(t) \/ View!Renew(t) \/ View!LogoutActive(t)
  BY <1>2 DEF View!Login, View!Renew, View!LogoutActive, View!Use
<1>3. ASSUME readers'.user = readers.user, readers'.token = readers.token,
             NEW u \in readers.accounts \ {readers.user},
             readers'.accounts = readers.accounts \ {u}
      PROVE  View!LogoutInactive(u)
  BY <1>3 DEF View!LogoutInactive
<1>4. ASSUME readers.accounts = {readers.user}, readers'.token = NoToken,
             \/ readers'.user = readers.user /\ readers'.accounts = readers.accounts
             \/ readers'.user = NoUser /\ readers'.accounts = {}
      PROVE  View!Revoke \/ View!Leave
  BY <1>4 DEF View!Revoke, View!Leave
<1> QED BY <1>1, <1>2, <1>3, <1>4 DEF ViewStep, View!Next

\* Between commands the active account has a token.
LEMMA CalmHasToken ==
  ASSUME NEW p, Procs = {p}, IInv, ReadersInv
  PROVE  ActiveAccountHasToken
<1> SUFFICES ASSUME calm, Quiescent, disk.user # NoUser
             PROVE  ActiveToken(disk, keyring) # NoToken
  BY DEF ActiveAccountHasToken
<1>1. CalmInv
  BY Zenon DEF ReadersInv
<1>2. pc[p] = "idle" /\ CalmOK(pc[p], mem[p], job[p], disk, keyring)
  BY <1>1 DEF Quiescent, CalmInv
<1> QED BY <1>2 DEF CalmOK, Keeps, ActiveToken

\* A single process keeps both invariants, with the readers beside it.
LEMMA ReadersInvariant ==
  ASSUME NEW p, Procs = {p}
  PROVE  ReadersSpec => [](IInv /\ ReadersInv)
<1>1. ReadersInit => IInv /\ ReadersInv
  BY InitialInvariant, ReadersInitially DEF ReadersInit
<1>2. IInv /\ ReadersInv /\ [ReadersNext]_<<vars, calm, readers>> => (IInv /\ ReadersInv)'
  <2>1. [ReadersNext]_<<vars, calm, readers>> => [Next]_vars
    BY DEF ReadersNext, vars
  <2> QED BY <2>1, InvariantPreserved, ReadersStep
<1> QED BY <1>1, <1>2, PTL DEF ReadersSpec

\* One command after another: as long as keyring calls are refused at most,
\* the active account has a usable token whenever no command is running.
THEOREM ActiveAccountKeepsToken ==
  ASSUME NEW p, Procs = {p}
  PROVE  ReadersSpec => []ActiveAccountHasToken
<1>1. IInv /\ ReadersInv => ActiveAccountHasToken
  BY CalmHasToken
<1> QED BY <1>1, ReadersInvariant, PTL

\* One command after another: what another process reads changes as
\* AccountView allows, at every step of every command.
THEOREM ReadersImplementView ==
  ASSUME NEW p, Procs = {p}
  PROVE  ReadersSpec => ReadersSeeAccountView
<1>1. ReadersInit => View!Init
  BY DEF ReadersInit, Init, ReadersSee, NoHost, View!Init
<1>2. IInv /\ ReadersInv /\ [ReadersNext]_<<vars, calm, readers>> => [View!Next]_(View!vars)
  BY ReadersStep, ViewSteps
<1> QED BY <1>1, <1>2, ReadersInvariant, PTL DEF ReadersSpec, ReadersSeeAccountView, View!Spec

=============================================================================
