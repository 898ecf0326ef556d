------------------------------ MODULE SshKeys ------------------------------
(***************************************************************************)
(* The key pair that gh codespace ssh and cp use: one given with -i, the   *)
(* automatic one, one that the user has configured, or an automatic one    *)
(* made now.  Earlier versions of gh had another name for the automatic    *)
(* pair, whose two files are renamed one after the other; ssh-keygen       *)
(* writes two files, too.  The command may be killed in between, and run   *)
(* again, one at a time: two at once can leave halves of different pairs.  *)
(*                                                                         *)
(* There may be an old pair beside an automatic one: from an older gh that *)
(* is still used, or made by the user under that name.  With -i gh does    *)
(* not look for an automatic pair before it renames the old one.           *)
(***************************************************************************)
EXTENDS Naturals

CONSTANTS
  MaxCommands,
  Faults        \* a subset of {"killed", "rename", "keygen", "config"}

VARIABLES
  keyFile,  \* of each file in ~/.ssh: the number of its pair, 0 if there is none
  pairs,    \* pairs made so far
  pc,       \* "idle", "look", "old_public", "old_private", "generate",
            \* "keygen", "public" or "use"
  asked,    \* what -i names: "none" or "auto"; with any other key gh is done
  selected, \* of the last command: "none", "auto", "own", "error" or "killed"
  damaged,  \* see Damages; for the properties
  count     \* commands begun

keys == <<keyFile, pairs>>
vars == <<keys, pc, asked, selected, damaged, count>>

AutoFiles == {"codespaces.auto", "codespaces.auto.pub"}
OldFiles  == {"codespaces", "codespaces.pub"}

Exists(f) == keyFile[f] # 0

\* Any of the four files, the old ones of pair 1 and the automatic ones of pair 2.
Init ==
  /\ \E files \in SUBSET (AutoFiles \cup OldFiles) :
       keyFile = [f \in AutoFiles \cup OldFiles |->
                    IF f \notin files THEN 0 ELSE IF f \in OldFiles THEN 1 ELSE 2]
  /\ pairs = 2
  /\ pc = "idle" /\ asked = "none" /\ selected = "none"
  /\ damaged = (Exists("codespaces.auto") /\ ~Exists("codespaces.auto.pub"))
  /\ count = 0

GoTo(s) == pc' = s /\ UNCHANGED <<keys, asked, selected, damaged, count>>

Done(what) == pc' = "idle" /\ selected' = what

-----------------------------------------------------------------------------

\* selectSSHKeys, first the -i argument.
Begin ==
  /\ pc = "idle"
  /\ count < MaxCommands /\ count' = count + 1
  /\ \/ asked' = "none" /\ pc' = "look"
     \/ asked' = "auto" /\ pc' = "old_public"
  /\ selected' = "none"
  /\ UNCHANGED <<keys, damaged>>

\* automaticSSHKeyPair, then firstConfiguredKeyPair.
Look ==
  /\ pc = "look"
  /\ IF \A f \in AutoFiles : Exists(f)
     THEN GoTo("use")
     ELSE \/ GoTo("old_public")
          \/ Done("own") /\ UNCHANGED <<keys, asked, damaged, count>>
          \/ "config" \in Faults /\ Done("error") /\ UNCHANGED <<keys, asked, damaged, count>>

Move(from, to) ==
  /\ keyFile' = [keyFile EXCEPT ![from] = 0, ![to] = keyFile[from]]
  /\ UNCHANGED <<pairs, asked, selected, damaged, count>>

\* What leaves an automatic private key without its public key if gh goes no
\* further: an ssh-keygen, or the renaming of an old pair over an automatic one.
Damages == pc = "public" \/ (pc = "old_private" /\ Exists("codespaces.auto"))

CannotMove ==
  /\ "rename" \in Faults
  /\ pc' = "generate" /\ damaged' = (damaged \/ Damages)
  /\ UNCHANGED <<keys, asked, selected, count>>

\* Slip: either file of an old pair is enough.
RenamePublicAlone ==
  /\ pc = "old_public"
  /\ IF Exists("codespaces.pub")
     THEN \/ Move("codespaces.pub", "codespaces.auto.pub") /\ pc' = "old_private"
          \/ CannotMove
     ELSE GoTo("generate")

\* checkAndUpdateOldKeyPair.
RenamePublic ==
  /\ pc = "old_public"
  /\ IF \A f \in OldFiles : Exists(f)
     THEN \/ Move("codespaces.pub", "codespaces.auto.pub") /\ pc' = "old_private"
          \/ CannotMove
     ELSE GoTo("generate")

RenamePrivate ==
  /\ pc = "old_private"
  /\ \/ Move("codespaces", "codespaces.auto") /\ pc' = "use"
     \/ CannotMove

\* Slip: ssh-keygen is left to find out whether there is a key.
GenerateAnyway == pc = "generate" /\ GoTo("keygen")

\* GenerateSSHKey; a pair whose private key exists is taken as it is.
Generate ==
  /\ pc = "generate"
  /\ GoTo(IF Exists("codespaces.auto") THEN "use" ELSE "keygen")

\* ssh-keygen writes the private and then the public key.
Keygen ==
  /\ pc = "keygen"
  /\ \/ /\ keyFile' = [keyFile EXCEPT !["codespaces.auto"] = pairs + 1]
        /\ pairs' = pairs + 1
        /\ pc' = "public"
        /\ UNCHANGED <<asked, selected, damaged, count>>
     \/ "keygen" \in Faults /\ Done("error") /\ UNCHANGED <<keys, asked, damaged, count>>

KeygenPublic ==
  /\ pc = "public"
  /\ \/ /\ keyFile' = [keyFile EXCEPT !["codespaces.auto.pub"] = pairs]
        /\ pc' = "use"
        /\ UNCHANGED <<pairs, asked, selected, damaged, count>>
     \/ /\ "keygen" \in Faults
        /\ Done("error") /\ damaged' = (damaged \/ Damages)
        /\ UNCHANGED <<keys, asked, count>>

Use ==
  /\ pc = "use"
  /\ Done("auto")
  /\ UNCHANGED <<keys, asked, damaged, count>>

Kill ==
  /\ "killed" \in Faults
  /\ pc # "idle"
  /\ Done("killed")
  /\ damaged' = (damaged \/ Damages)
  /\ UNCHANGED <<keys, asked, count>>

Command ==
  \/ Begin \/ Look \/ RenamePublic \/ RenamePrivate
  \/ Generate \/ Keygen \/ KeygenPublic \/ Use

AtRest == pc = "idle"

Stop == AtRest /\ UNCHANGED vars

Next == Command \/ Kill \/ Stop

Spec == Init /\ [][Next]_vars /\ WF_vars(Command)

-----------------------------------------------------------------------------
(* Properties. *)

TypeOK ==
  /\ keyFile \in [AutoFiles \cup OldFiles -> 0 .. pairs]
  /\ pairs \in 2 .. MaxCommands + 2
  /\ pc \in {"idle", "look", "old_public", "old_private", "generate", "keygen",
             "public", "use"}
  /\ asked \in {"none", "auto"}
  /\ selected \in {"none", "auto", "own", "error", "killed"}
  /\ damaged \in BOOLEAN
  /\ count \in 0 .. MaxCommands

\* When the automatic pair is selected both files exist and belong together,
\* also after commands that were killed between the two renamings of an old
\* pair, or could not rename the second file: unless the old pair was taking
\* the place of an automatic one, or an ssh-keygen was cut off.
SuccessMeansPair ==
  selected = "auto" /\ ~damaged =>
    Exists("codespaces.auto") /\ keyFile["codespaces.auto.pub"] = keyFile["codespaces.auto"]

\* No private key is lost, with one exception: an old key takes the place of the
\* automatic one where gh has not looked for it, that is with -i, or where its
\* public key was missing.
KeepsExisting ==
  \A f \in {"codespaces", "codespaces.auto"} :
    Exists(f) =>
      \/ \E g \in {"codespaces", "codespaces.auto"} : keyFile'[g] = keyFile[f]
      \/ f = "codespaces.auto" /\ pc = "old_private" /\ (asked = "auto" \/ damaged)

=============================================================================
