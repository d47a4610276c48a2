--------------------------- MODULE KeygenCmdProofs ---------------------------
(***************************************************************************)
(* Proofs about KeygenCmd: for any number of processes whose runs do not   *)
(* overlap, the two key files belong together unless the user took the     *)
(* secret of the public key away, no run replaces a secret, and a run that *)
(* succeeded leaves its own pair.                                          *)
(*                                                                         *)
(* That the check of write_new_atomic and its rename are two steps is made *)
(* up for by the runs not overlapping: from the check on, the file a run   *)
(* saves stays absent until its own rename (RunInv).                       *)
(***************************************************************************)
EXTENDS KeygenCmd, AtomicFileProofs

Alone == \A p, q \in Procs : Live(p) /\ Live(q) => p = q

\* What the run of p knows.
RunInv(p) ==
  /\ Live(p) <=> phase[p] # "none"
  /\ Live(p) => key[p] \in Keys
  /\ job[p] # NoJob => job[p] = [path |-> phase[p], kind |-> "new",
                                 data |-> [half |-> phase[p], key |-> key[p]]]
  /\ pc[p] \in {"open", "write", "sync", "rename"} => file[phase[p]] = NoFile
  /\ pc[p] = "ok" => file[phase[p]] # NoFile /\ file[phase[p]].data.key = key[p]
  /\ phase[p] = "pub" => file["secret"] # NoFile /\ file["secret"].data.key = key[p]

\* How the two files are related, whatever runs there were.
PairInv ==
  /\ file["pub"] # NoFile /\ ~orphan =>
       file["secret"] # NoFile /\ file["secret"].data.key = file["pub"].data.key
  /\ made # NoKey => /\ file["secret"] # NoFile /\ file["secret"].data.key = made
                     /\ file["pub"] # NoFile /\ file["pub"].data.key = made

RunTypeOK == /\ phase \in [Procs -> {"none", "secret", "pub"}]
             /\ key \in [Procs -> Keys \cup {NoKey}]
             /\ made \in Keys \cup {NoKey}
             /\ orphan \in BOOLEAN

KInv == IInv /\ RunTypeOK /\ Alone /\ (\A p \in Procs : RunInv(p)) /\ PairInv

\* The invariant holds at the start, and each action preserves it.
LEMMA InitKInv == KeygenInit => KInv
<1> SUFFICES ASSUME KeygenInit PROVE KInv
  OBVIOUS
<1>1. FileInit
  <2>1. file \in [Paths -> {NoFile} \cup {OnDisk(c) : c \in Contents}]
    BY DEF KeygenInit
  <2> QED
    BY <2>1 DEF KeygenInit, FileInit
<1> QED
  BY <1>1, InitIInv, KeygenOK DEF KeygenInit, KInv, RunTypeOK, Alone, RunInv, PairInv, Live

\* A key pair that is nowhere around is one, where the guard says that there is.
LEMMA GeneratedIsAKey == ASSUME Keys \ InUse # {} PROVE Generated \in Keys
BY DEF Generated

\* The files hold halves of key pairs.
LEMMA FilesHoldKeys ==
  ASSUME IInv, NEW path \in Paths, file[path] # NoFile
  PROVE  file[path].data.key \in Keys /\ Load(path) = file[path].data.key
BY KeygenOK DEF IInv, TypeOK, Published, Inodes, KeyFiles, Load

LEMMA StartKInv == ASSUME Exclusive, KInv, NEW p \in Procs, KeygenStart(p) PROVE KInv'
<1>1. IInv'
  BY SpawnIInv DEF KeygenStart, KInv
<1>2. /\ \A q \in Procs : ~Live(q)
      /\ \A q \in Procs : Live(q)' => q = p
      /\ pc'[p] = "idle" /\ UNCHANGED <<file, job, made, orphan>>
      /\ phase' = [phase EXCEPT ![p] = "secret"]
      /\ key' = [key EXCEPT ![p] = Generated]
  BY DEF KeygenStart, Spawn, Goto, Live, KInv, IInv, TypeOK
<1>3. Generated \in Keys
  BY GeneratedIsAKey DEF KeygenStart
<1>4. job[p] = NoJob
  BY <1>2 DEF KInv, IInv, JobKnown, Live, Working
<1> QED
  BY <1>1, <1>2, <1>3, <1>4 DEF KInv, RunTypeOK, Alone, RunInv, PairInv, Live

LEMMA SaveKInv == ASSUME KInv, NEW p \in Procs, Save(p) PROVE KInv'
<1> DEFINE j == [path |-> phase[p], kind |-> "new", data |-> [half |-> phase[p], key |-> key[p]]]
<1>1. /\ pc[p] = "idle" /\ phase[p] \in {"secret", "pub"} /\ key[p] \in Keys
      /\ job' = [job EXCEPT ![p] = j] /\ pc' = [pc EXCEPT ![p] = "check"]
      /\ UNCHANGED <<file, tmp, pid, phase, key, made, orphan>>
  BY DEF Save, Begin, Goto, runVars, KInv, RunTypeOK, RunInv, Live
<1>2. j \in Jobs
  BY <1>1, KeygenOK DEF Jobs, KeyFiles
<1>3. IInv'
  BY <1>2, BeginIInv DEF Save, Invoke, KInv
<1>4. \A q \in Procs : q # p => pc'[q] = pc[q] /\ job'[q] = job[q]
  BY <1>1 DEF KInv, IInv, TypeOK
<1>5. pc'[p] = "check" /\ job'[p] = j
  BY <1>1 DEF KInv, IInv, TypeOK
<1>6. \A q \in Procs : RunInv(q)'
  BY <1>1, <1>4, <1>5 DEF KInv, RunInv, Live
<1>7. Alone'
  BY <1>1, <1>4 DEF KInv, Alone, Live
<1> QED
  BY <1>1, <1>3, <1>6, <1>7 DEF KInv, RunTypeOK, PairInv

\* A rename brings out the half that the job names; a secret only where none was.
LEMMA SaveStepKInv == ASSUME KInv, NEW p \in Procs, SaveStep(p) PROVE KInv'
<1>1. CallStep(p) /\ UNCHANGED <<phase, key, made, orphan>> /\ phase[p] \in {"secret", "pub"}
  BY DEF SaveStep, runVars, KInv, RunTypeOK
<1>2. /\ IInv' /\ UNCHANGED <<pid, job>>
      /\ pc[p] \in Working /\ pc'[p] \in Working \cup {"ok", "err"}
      /\ \A q \in Procs : q # p => pc'[q] = pc[q]
      /\ job[p] \in Jobs
      /\ pc'[p] \in {"open", "write", "sync", "rename"} =>
           \/ pc[p] \in {"open", "write", "sync"}
           \/ pc[p] = "check" /\ file[job[p].path] = NoFile
      /\ RenameTmp(p) =>
           /\ pc[p] = "rename" /\ pc'[p] = "ok"
           /\ tmp[TmpOf(p)] \in Inodes /\ tmp[TmpOf(p)].data = job[p].data
           /\ file' = [file EXCEPT ![job[p].path] = tmp[TmpOf(p)]]
      /\ ~RenameTmp(p) => file' = file /\ pc'[p] # "ok"
  BY <1>1, CallStepEffect DEF KInv
<1>3. job[p] = [path |-> phase[p], kind |-> "new", data |-> [half |-> phase[p], key |-> key[p]]]
  BY <1>2, ConstantsOK DEF KInv, RunInv
<1>4. \A q \in Procs : q # p => pc[q] = "dead" /\ phase[q] = "none" /\ job[q] = NoJob
  BY <1>2 DEF KInv, Alone, RunInv, Live, Working, IInv, JobKnown
<1>5. RunTypeOK' /\ Alone'
  BY <1>1, <1>2, <1>4 DEF KInv, RunTypeOK, Alone, Live, Working
<1>6. \A q \in Procs : q # p => RunInv(q)'
  BY <1>1, <1>2, <1>4 DEF RunInv, Live
<1>7. CASE RenameTmp(p)
  <2>1. /\ file[phase[p]] = NoFile
        /\ file'[phase[p]] # NoFile /\ file'[phase[p]].data.key = key[p]
        /\ \A path \in Paths : path # phase[p] => file'[path] = file[path]
    BY <1>1, <1>2, <1>3, <1>7, ConstantsOK, KeygenOK DEF KInv, RunInv, IInv, TypeOK
  <2>2. RunInv(p)'
    BY <1>1, <1>2, <1>3, <1>7, <2>1, KeygenOK DEF KInv, RunInv, Live, Working
  <2>3. PairInv'
    BY <1>1, <2>1, KeygenOK DEF KInv, PairInv, RunInv
  <2> QED
    BY <1>2, <1>5, <1>6, <2>2, <2>3 DEF KInv
<1>8. CASE ~RenameTmp(p)
  <2>1. RunInv(p)'
    BY <1>1, <1>2, <1>3, <1>8 DEF KInv, RunInv, Live, Working
  <2>2. PairInv'
    BY <1>1, <1>2, <1>8 DEF KInv, PairInv
  <2> QED
    BY <1>2, <1>5, <1>6, <2>1, <2>2 DEF KInv
<1> QED
  BY <1>7, <1>8

LEMMA SecretSavedKInv == ASSUME KInv, NEW p \in Procs, SecretSaved(p) PROVE KInv'
<1>1. IInv'
  BY ReturnIInv DEF SecretSaved, KInv
<1>2. /\ pc[p] = "ok" /\ phase[p] = "secret"
      /\ job' = [job EXCEPT ![p] = NoJob] /\ pc' = [pc EXCEPT ![p] = "idle"]
      /\ phase' = [phase EXCEPT ![p] = "pub"]
      /\ UNCHANGED <<file, key, made, orphan>>
  BY DEF SecretSaved, Return, Goto
<1>3. \A q \in Procs : q # p => RunInv(q)'
  BY <1>2 DEF KInv, RunInv, Live, IInv, TypeOK, RunTypeOK
<1>4. RunInv(p)'
  BY <1>2 DEF KInv, RunInv, Live, IInv, TypeOK, RunTypeOK
<1>5. RunTypeOK' /\ Alone' /\ PairInv'
  BY <1>2 DEF KInv, RunTypeOK, Alone, PairInv, Live, IInv, TypeOK
<1> QED
  BY <1>1, <1>3, <1>4, <1>5 DEF KInv

LEMMA LeavesKInv == ASSUME KInv, NEW p \in Procs, PubSaved(p) \/ SaveFails(p) PROVE KInv'
<1>1. /\ pc[p] \in {"ok", "err"}
      /\ job' = [job EXCEPT ![p] = NoJob] /\ pc' = [pc EXCEPT ![p] = "dead"]
      /\ phase' = [phase EXCEPT ![p] = "none"] /\ key' = [key EXCEPT ![p] = NoKey]
      /\ UNCHANGED <<file, tmp, pid, orphan>>
  BY DEF PubSaved, SaveFails, Leaves, Ends, Goto
<1>2. IInv'
  BY <1>1, LeaveIInv DEF KInv, Goto
<1>3. made' = made \/ (phase[p] = "pub" /\ pc[p] = "ok" /\ made' = key[p] /\ key[p] \in Keys)
  BY DEF PubSaved, SaveFails, Ends, KInv, RunInv, Live
<1>4. \A q \in Procs : RunInv(q)'
  BY <1>1 DEF KInv, RunInv, Live, IInv, TypeOK, RunTypeOK
<1>5. RunTypeOK' /\ Alone'
  BY <1>1, <1>3 DEF KInv, RunTypeOK, Alone, Live, IInv, TypeOK
<1>6. PairInv'
  BY <1>1, <1>3 DEF KInv, PairInv, RunInv
<1> QED
  BY <1>2, <1>4, <1>5, <1>6 DEF KInv

\* A reader of the two files notices no death.
LEMMA DeathKInv ==
  ASSUME Durable, KInv, KeygenPowerLoss \/ \E p \in Procs : KeygenCrash(p)
  PROVE  KInv'
<1>1. /\ IInv'
      /\ \A path \in Paths : /\ file'[path] = NoFile <=> file[path] = NoFile
                             /\ file[path] # NoFile => file'[path].data = file[path].data
  BY DeathEffect DEF KeygenCrash, KeygenPowerLoss, KInv
<1>2. UNCHANGED <<made, orphan>>
  BY DEF KeygenCrash, KeygenPowerLoss, Ends
<1>3. /\ phase' \in [Procs -> {"none", "secret", "pub"}]
      /\ key' \in [Procs -> Keys \cup {NoKey}]
  BY DEF KeygenCrash, KeygenPowerLoss, Ends, KInv, RunTypeOK
<1>4. ASSUME NEW q \in Procs
      PROVE  \/ pc'[q] = "dead" /\ job'[q] = NoJob /\ phase'[q] = "none"
             \/ pc'[q] = pc[q] /\ job'[q] = job[q] /\ phase'[q] = phase[q] /\ key'[q] = key[q]
  <2>1. CASE KeygenPowerLoss
    BY <2>1 DEF KeygenPowerLoss, PowerLoss
  <2>2. ASSUME NEW p \in Procs, KeygenCrash(p)
        PROVE  /\ pc' = [pc EXCEPT ![p] = "dead"] /\ job' = [job EXCEPT ![p] = NoJob]
               /\ phase' = [phase EXCEPT ![p] = "none"] /\ key' = [key EXCEPT ![p] = NoKey]
    BY <2>2 DEF KeygenCrash, Crash, Ends, Goto
  <2>3. /\ DOMAIN pc = Procs /\ DOMAIN job = Procs
        /\ DOMAIN phase = Procs /\ DOMAIN key = Procs
    BY DEF KInv, IInv, TypeOK, RunTypeOK
  <2> QED
    BY <2>1, <2>2, <2>3
<1>5. RunTypeOK' /\ Alone'
  BY <1>2, <1>3, <1>4 DEF KInv, RunTypeOK, Alone, Live
<1>6. ASSUME NEW q \in Procs PROVE RunInv(q)'
  <2>1. RunInv(q) /\ phase[q] \in {"none", "secret", "pub"}
    BY DEF KInv, RunTypeOK
  <2>2. phase[q] # "none" => phase[q] \in Paths
    BY <2>1, KeygenOK
  <2> QED
    BY <1>1, <1>4, <2>1, <2>2, KeygenOK DEF RunInv, Live
<1>7. PairInv'
  BY <1>1, <1>2, KeygenOK DEF KInv, PairInv
<1> QED
  BY <1>1, <1>5, <1>6, <1>7 DEF KInv

\* Removing the secret makes an orphan of the public key; no other removal does.
LEMMA RemoveKInv == ASSUME KInv, NEW half \in Paths, Remove(half) PROVE KInv'
<1>1. IInv'
  BY ReplaceIInv DEF Remove, KInv
<1>2. /\ \A p \in Procs : ~Live(p)
      /\ file' = [file EXCEPT ![half] = NoFile]
      /\ orphan' = (half = "secret" /\ file["pub"] # NoFile) /\ made' = NoKey
      /\ UNCHANGED <<pc, job, phase, key>>
  BY DEF Remove
<1>3. /\ RunTypeOK' /\ Alone'
  BY <1>2 DEF KInv, RunTypeOK, Alone, Live
<1>4. \A p \in Procs : RunInv(p)'
  BY <1>2 DEF KInv, RunInv, Live, IInv, JobKnown, Working
<1>5. PairInv'
  BY <1>2, KeygenOK DEF KInv, PairInv, IInv, TypeOK
<1> QED
  BY <1>1, <1>3, <1>4, <1>5 DEF KInv

\* All steps together.
LEMMA StepKInv == ASSUME Exclusive, Durable, KInv, [KeygenNext]_keygenVars PROVE KInv'
<1>1. CASE UNCHANGED keygenVars
  BY <1>1 DEF keygenVars, KInv, IInv, TypeOK, IdsDistinct, JobKnown, OwnTemp, OwnTempOf, OwnDescriptor,
     Published, Live, Holds, TmpOf, RunTypeOK, Alone, RunInv, PairInv
<1>2. ASSUME NEW p \in Procs, KeygenStart(p) \/ RunStep(p) \/ KeygenCrash(p) PROVE KInv'
  BY <1>2, StartKInv, SaveKInv, SaveStepKInv, SecretSavedKInv, LeavesKInv, DeathKInv DEF RunStep
<1>3. ASSUME NEW half \in Paths, Remove(half) PROVE KInv'
  BY <1>3, RemoveKInv
<1>4. CASE KeygenPowerLoss
  BY <1>4, DeathKInv
<1> QED
  BY <1>1, <1>2, <1>3, <1>4 DEF KeygenNext

\* The strengthened invariant.
LEMMA KeygenInvariant == Exclusive /\ Durable => (KeygenSpec => []KInv)
<1> SUFFICES ASSUME Exclusive, Durable PROVE KeygenSpec => []KInv
  OBVIOUS
<1> QED
  BY InitKInv, StepKInv, PTL DEF KeygenSpec

-----------------------------------------------------------------------------
\* For any number of processes whose runs do not overlap, and every fault but
\* a power loss after a failed sync: the state keeps its declared shape.
THEOREM KeygenTypeTheorem == Exclusive /\ Durable => (KeygenSpec => []KeygenTypeOK)
<1>1. KInv => KeygenTypeOK
  BY DEF KInv, IInv, RunTypeOK, RunInv, KeygenTypeOK
<1> QED
  BY <1>1, KeygenInvariant, PTL

\* The two key files belong together, unless the user removed the secret of the
\* public key that is there.
THEOREM PairTheorem == Exclusive /\ Durable => (KeygenSpec => []PairMatches)
<1>1. KInv => PairMatches
  BY FilesHoldKeys, KeygenOK DEF KInv, PairInv, PairMatches, Paired, Load
<1> QED
  BY <1>1, KeygenInvariant, PTL

\* A run that exited with success has left its own pair.
THEOREM SuccessTheorem == Exclusive /\ Durable => (KeygenSpec => []SuccessLeavesPair)
<1>1. KInv => SuccessLeavesPair
  BY FilesHoldKeys, KeygenOK DEF KInv, PairInv, SuccessLeavesPair, Paired
<1> QED
  BY <1>1, KeygenInvariant, PTL

\* No run replaces a secret that is there, a rerun after a crash included.
LEMMA SecretStep ==
  ASSUME Exclusive, Durable, KInv, KInv', [KeygenNext]_keygenVars
  PROVE  [Load("secret") # NoKey => Load("secret")' = Load("secret") \/ Remove("secret")]_keygenVars
<1> SUFFICES ASSUME Load("secret") # NoKey, ~Remove("secret")
             PROVE  Load("secret")' = Load("secret")
  OBVIOUS
<1>1. "secret" \in Paths /\ file["secret"] # NoFile
  BY KeygenOK DEF Load
<1>2. SUFFICES file'["secret"] # NoFile /\ file'["secret"].data = file["secret"].data
  BY <1>1, FilesHoldKeys DEF KInv, IInv, Published, Load
<1>3. CASE UNCHANGED keygenVars
  BY <1>1, <1>3 DEF keygenVars
<1>4. ASSUME NEW p \in Procs, SaveStep(p)
      PROVE  file'["secret"] # NoFile /\ file'["secret"].data = file["secret"].data
  <2>1. CASE RenameTmp(p)
    <3>1. job[p].path = phase[p] /\ pc[p] = "rename" /\ file' = [file EXCEPT ![job[p].path] = tmp[TmpOf(p)]]
      <4>1. job[p] # NoJob
        BY <2>1 DEF RenameTmp, KInv, IInv, JobKnown, Working
      <4>2. RunInv(p)
        BY DEF KInv
      <4>3. job[p].path = phase[p]
        BY <4>1, <4>2 DEF RunInv
      <4> QED
        BY <2>1, <4>3 DEF RenameTmp
    <3>2. phase[p] # "secret"
      BY <1>1, <3>1 DEF KInv, RunInv
    <3> QED
      BY <1>1, <3>1, <3>2 DEF KInv, IInv, TypeOK
  <2>2. CASE ~RenameTmp(p)
    BY <1>1, <1>4, <2>2, CallStepEffect DEF SaveStep, KInv
  <2> QED
    BY <2>1, <2>2
<1>5. ASSUME NEW p \in Procs,
             KeygenStart(p) \/ Save(p) \/ SecretSaved(p) \/ PubSaved(p) \/ SaveFails(p)
      PROVE  UNCHANGED file
  BY <1>5 DEF KeygenStart, Spawn, Save, Begin, SecretSaved, Return, PubSaved, SaveFails, Leaves
<1>6. CASE KeygenPowerLoss \/ \E p \in Procs : KeygenCrash(p)
  BY <1>1, <1>6, DeathEffect DEF KeygenPowerLoss, KeygenCrash, KInv
<1>7. ASSUME NEW half \in Paths, Remove(half)
      PROVE  file'["secret"] # NoFile /\ file'["secret"].data = file["secret"].data
  BY <1>1, <1>7 DEF Remove, KInv, IInv, TypeOK
<1> QED
  BY <1>1, <1>3, <1>4, <1>5, <1>6, <1>7 DEF KeygenNext, RunStep

\* A secret that is there stays, and stays the same, until the user removes it.
THEOREM SecretTheorem == Exclusive /\ Durable => (KeygenSpec => SecretStays)
<1> SUFFICES ASSUME Exclusive, Durable PROVE KeygenSpec => SecretStays
  OBVIOUS
<1>1. KeygenSpec => []KInv
  BY KeygenInvariant
<1> QED
  BY <1>1, SecretStep, PTL DEF KeygenSpec, SecretStays
=============================================================================
