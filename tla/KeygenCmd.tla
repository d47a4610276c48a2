------------------------------ MODULE KeygenCmd ------------------------------
(***************************************************************************)
(* The keygen subcommand (cmd_keygen in main.rs), run again and again for  *)
(* one key name and output directory: generate a key pair, save            *)
(* <name>.secret, then <name>.pub, each through write_new_atomic.  The two *)
(* files are two separate writes, so a run may die or fail between them,   *)
(* and between runs the user may remove either file.                       *)
(***************************************************************************)
EXTENDS AtomicFile

CONSTANTS Keys,        \* bound: as many key pairs as are around at once
          NoKey,
          Exclusive    \* runs of keygen do not overlap

\* What the two files hold: the bytes of one half of a key pair.
KeyFiles == [half : {"secret", "pub"}, key : Keys]

ASSUME KeygenOK == /\ Paths = {"secret", "pub"}
                   /\ Contents = KeyFiles
                   /\ "new" \in Kinds
                   /\ NoKey \notin Keys
                   /\ Exclusive \in BOOLEAN

VARIABLES phase,   \* phase[p]: the file p is about to save or is saving
          key,     \* key[p]: the key pair that p has generated
          made,    \* the pair of the last run that exited with success, until the
                   \* user removes a file
          orphan   \* the user removed the secret of the public key that is there

runVars == <<phase, key, made, orphan>>
keygenVars == <<file, tmp, pid, pc, job, phase, key, made, orphan>>

KeygenTypeOK == /\ TypeOK
                /\ phase \in [Procs -> {"none", "secret", "pub"}]
                /\ key \in [Procs -> Keys \cup {NoKey}]
                /\ made \in Keys \cup {NoKey}
                /\ orphan \in BOOLEAN
                /\ \A p \in Procs : Live(p) <=> phase[p] # "none"

KeygenInit == /\ file = [path \in Paths |-> NoFile]
              /\ tmp = [k \in TmpKeys |-> NoFile]
              /\ pid \in [Procs -> Pids]
              /\ pc = [p \in Procs |-> "dead"]
              /\ job = [p \in Procs |-> NoJob]
              /\ phase = [p \in Procs |-> "none"]
              /\ key = [p \in Procs |-> NoKey]
              /\ made = NoKey
              /\ orphan = FALSE

\* SecretKey::load and PublicKey::load: a missing file, or one that is short
\* of the fixed lengths they check, is an error.
Load(half) == IF file[half] # NoFile /\ file[half].body = "whole"
              THEN file[half].data.key ELSE NoKey

-----------------------------------------------------------------------------
\* Mutant: the phase of the ended run is kept.
Ends_KeepsPhase(p, how) == /\ key' = [key EXCEPT ![p] = NoKey]
                           /\ made' = IF how = "ok" THEN key[p] ELSE made
                           /\ UNCHANGED <<phase, orphan>>

Ends(p, how) == /\ phase' = [phase EXCEPT ![p] = "none"]
                /\ key' = [key EXCEPT ![p] = NoKey]
                /\ made' = IF how = "ok" THEN key[p] ELSE made
                /\ UNCHANGED orphan

\* SecretKey::generate: a key pair that is nowhere around.
InUse == {key[p] : p \in Procs} \cup {made}
         \cup {file[k].data.key : k \in {x \in DOMAIN file : file[x] # NoFile}}
         \cup {tmp[k].data.key : k \in {x \in DOMAIN tmp : tmp[x] # NoFile}}
Generated == CHOOSE k \in Keys \ InUse : TRUE

KeygenStart(p) == /\ Exclusive => \A q \in Procs : ~Live(q)
                  /\ Keys \ InUse # {}
                  /\ Spawn(p)
                  /\ key' = [key EXCEPT ![p] = Generated]
                  /\ phase' = [phase EXCEPT ![p] = "secret"]
                  /\ UNCHANGED <<made, orphan>>

\* SecretKey::save and PublicKey::save.
Save(p) == /\ phase[p] # "none"
           /\ Begin(p, [path |-> phase[p], kind |-> "new",
                        data |-> [half |-> phase[p], key |-> key[p]]])
           /\ UNCHANGED runVars

SaveStep(p) == phase[p] # "none" /\ CallStep(p) /\ UNCHANGED runVars

SecretSaved(p) == /\ phase[p] = "secret"
                  /\ pc[p] = "ok"
                  /\ Return(p)
                  /\ phase' = [phase EXCEPT ![p] = "pub"]
                  /\ UNCHANGED <<key, made, orphan>>

Leaves(p) == /\ job' = [job EXCEPT ![p] = NoJob]
             /\ Goto(p, "dead")
             /\ UNCHANGED <<file, tmp, pid>>

PubSaved(p) == phase[p] = "pub" /\ pc[p] = "ok" /\ Leaves(p) /\ Ends(p, "ok")

\* Mutant: the error of a save is dropped.
SaveFails_Ignored(p) == phase[p] # "none" /\ pc[p] = "err" /\ Leaves(p) /\ Ends(p, "ok")

SaveFails(p) == phase[p] # "none" /\ pc[p] = "err" /\ Leaves(p) /\ Ends(p, "failed")

KeygenCrash(p) == Crash(p) /\ Ends(p, "failed")

KeygenPowerLoss ==
  /\ PowerLoss
  /\ phase' = [p \in Procs |-> "none"]
  /\ key' = [p \in Procs |-> NoKey]
  /\ UNCHANGED <<made, orphan>>

\* The user removes one of the files.
Remove(half) == /\ \A p \in Procs : ~Live(p)
                /\ file[half] # NoFile
                /\ file' = [file EXCEPT ![half] = NoFile]
                /\ orphan' = (half = "secret" /\ file["pub"] # NoFile)
                /\ made' = NoKey
                /\ UNCHANGED <<tmp, pid, pc, job, phase, key>>

RunStep(p) == \/ Save(p) \/ SaveStep(p) \/ SecretSaved(p) \/ PubSaved(p) \/ SaveFails(p)

KeygenNext == \/ \E p \in Procs : KeygenStart(p) \/ RunStep(p) \/ KeygenCrash(p)
              \/ \E half \in Paths : Remove(half)
              \/ KeygenPowerLoss

KeygenSpec == KeygenInit /\ [][KeygenNext]_keygenVars

-----------------------------------------------------------------------------
\* With runs that do not overlap, whatever fails or dies in between: the two
\* files belong to different key pairs only if the user took the secret of the
\* public key away, so a cache signed with <name>.secret never fails against
\* <name>.pub ...
Paired == Load("secret") # NoKey /\ Load("secret") = Load("pub")
PairMatches == Load("secret") # NoKey /\ Load("pub") # NoKey => Paired \/ orphan

\* ... a secret that was generated is never replaced by a run, also not by a
\* rerun after a crash between the two files ...
SecretStays ==
  [][Load("secret") # NoKey => Load("secret")' = Load("secret") \/ Remove("secret")]_keygenVars

\* ... and a run that exits with success leaves its own pair, for good.
SuccessLeavesPair == made # NoKey => Paired /\ Load("secret") = made

\* keygen is run again until there is a pair, and the user removes, one file
\* after the other, what a run has left that is no pair.
CleanUp(half) == Remove(half) /\ ~Paired
KeygenFair == /\ KeygenSpec
              /\ SF_keygenVars(\E p \in Procs : KeygenStart(p))
              /\ \A p \in Procs : WF_keygenVars(RunStep(p))
              /\ \A half \in Paths : SF_keygenVars(CleanUp(half))

\* A run is cut short by a crash or power loss, or a pair is taken apart.
Cut(p) == phase[p] # "none" /\ phase'[p] = "none" /\ ~PubSaved(p) /\ ~SaveFails(p)
KeygenCalm == <>[][~ \/ \E p \in Procs : CallFault(p) \/ Cut(p)
                     \/ \E half \in Paths : Remove(half) /\ Paired]_keygenVars

\* No stop of a run leaves a directory that keygen refuses for good: once
\* faults stop, removing the files that are no pair, and nothing else (not the
\* temporary files), and running keygen again ends with a pair that stays.
EventuallyPaired == KeygenCalm => <>[]Paired
=============================================================================
