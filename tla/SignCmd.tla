------------------------------- MODULE SignCmd -------------------------------
(***************************************************************************)
(* The sign subcommand (cmd_sign in main.rs), run by several processes on  *)
(* one cache directory: scan the directory, and for each narinfo read it,  *)
(* drop the lines of the own key name, append a fresh Sig: and Sig-PQC:    *)
(* line, and overwrite the file through AtomicFile.  Files may be yielded  *)
(* more than once while they are being replaced, any call of AtomicFile    *)
(* may fail, processes die, and other programs put narinfos in place.  No  *)
(* lock is held between a read and the rename: behind and lost record what *)
(* that costs.                                                             *)
(***************************************************************************)
EXTENDS AtomicFile, Signatures

CONSTANTS Signers,         \* the key files: records [name, key]
          Fresh,           \* the narinfos other programs put in the cache
          Malformed,       \* a file that does not parse
          MaxYields,       \* bound: how often one scan yields a path
          Exclusive        \* runs of sign do not overlap

ASSUME SignOK == /\ Signers # {} /\ Signers \subseteq [name : Names, key : Keys]
                 /\ Fresh \subseteq Contents
                 /\ Contents \subseteq NarInfos \cup {Malformed}
                 /\ Malformed \notin NarInfos
                 /\ \A d \in Contents \ {Malformed}, s \in Signers :
                      DualSigned(d, s.name, s.key) \in Contents
                 /\ "overwrite" \in Kinds
                 /\ MaxYields \in Nat \ {0}
                 \* No torn narinfo is read: the conditions of Untorn.
                 /\ OneNamespace /\ ~({"power", "sync"} \subseteq Faults)
                 /\ Exclusive \in BOOLEAN

VARIABLES run,      \* run[p]: "none", "running", or how the last run ended
          signer,   \* signer[p]: the key file it loaded
          listed,   \* listed[p]: the paths there when the scan began
          yields,   \* yields[p][path]: how often the scan yielded path
          behind,   \* behind[p]: who wrote the path p is at since p read it;
                    \* Nobody for a program that is not sign
          lost      \* lost[p]: the listed paths that were written again
                    \* without regard to what p made of them

scanVars == <<run, signer, listed, yields>>
signVars == <<file, tmp, pid, pc, job, run, signer, listed, yields, behind, lost>>

NoYields == [path \in Paths |-> 0]
NoSigner == [name |-> NoName, key |-> NoName]
Present == {path \in Paths : file[path] # NoFile}

SignTypeOK == /\ TypeOK
              /\ run \in [Procs -> {"none", "running", "ok", "failed"}]
              /\ listed \in [Procs -> SUBSET Paths]
              /\ signer \in [Procs -> Signers \cup {NoSigner}]
              /\ yields \in [Procs -> [Paths -> 0..MaxYields]]
              /\ behind \in [Procs -> SUBSET (Procs \cup {Nobody})]
              /\ lost \in [Procs -> SUBSET Paths]
              /\ \A p \in Procs : Live(p) <=> run[p] = "running"

SignInit == /\ file \in [Paths -> {NoFile} \cup {OnDisk(d) : d \in Fresh}]
            /\ tmp = [k \in TmpKeys |-> NoFile]
            /\ pid \in [Procs -> Pids]
            /\ pc = [p \in Procs |-> "dead"]
            /\ job = [p \in Procs |-> NoJob]
            /\ run = [p \in Procs |-> "none"]
            /\ signer = [p \in Procs |-> NoSigner]
            /\ listed = [p \in Procs |-> {}]
            /\ yields = [p \in Procs |-> NoYields]
            /\ behind = [p \in Procs |-> {}]
            /\ lost = [p \in Procs |-> {}]

-----------------------------------------------------------------------------
\* Of a run that ended only signer, listed and lost matter, and only of one
\* that ended well.
Ends(p, how) ==
  /\ run' = [run EXCEPT ![p] = how]
  /\ yields' = [yields EXCEPT ![p] = NoYields]
  /\ behind' = [behind EXCEPT ![p] = {}]
  /\ IF how = "ok" THEN UNCHANGED <<signer, listed, lost>>
     ELSE /\ signer' = [signer EXCEPT ![p] = NoSigner]
          /\ listed' = [listed EXCEPT ![p] = {}]
          /\ lost' = [lost EXCEPT ![p] = {}]

Loses(p, path) == lost[p] \cup ({path} \cap listed[p])

\* w has written path: who has read it and not yet written is behind.
Overtakes(w, path) ==
  behind' = [p \in Procs |-> IF p # w /\ job[p] # NoJob /\ job[p].path = path
                             THEN behind[p] \cup {w} ELSE behind[p]]

\* The key file loads and read_dir opens the directory.
SignStart(p, s) == /\ Exclusive => \A q \in Procs : ~Live(q)
                   /\ Spawn(p)
                   /\ run' = [run EXCEPT ![p] = "running"]
                   /\ signer' = [signer EXCEPT ![p] = s]
                   /\ listed' = [listed EXCEPT ![p] = Present]
                   /\ yields' = [yields EXCEPT ![p] = NoYields]
                   /\ lost' = [lost EXCEPT ![p] = {}]
                   /\ UNCHANGED behind

\* The scan yields a path: read, parse, sign, and begin to overwrite.
SignEntry(p) ==
  /\ run[p] = "running"
  /\ \E path \in Present :
       /\ yields[p][path] < MaxYields
       /\ file[path].data # Malformed
       /\ Begin(p, [path |-> path, kind |-> "overwrite",
                    data |-> DualSigned(file[path].data, signer[p].name, signer[p].key)])
       /\ yields' = [yields EXCEPT ![p][path] = @ + 1]
       /\ behind' = [behind EXCEPT ![p] = {}]
       /\ UNCHANGED <<run, signer, listed, lost>>

\* NarInfo::parse fails, and with it the whole run.
ParseFails(p) == /\ run[p] = "running"
                 /\ \E path \in Present : /\ yields[p][path] < MaxYields
                                          /\ file[path].data = Malformed
                 /\ Exit(p)
                 /\ Ends(p, "failed")

WriteStep(p) == /\ run[p] = "running"
                /\ CallStep(p) /\ ~RenameTmp(p)
                /\ UNCHANGED <<scanVars, behind, lost>>

\* The rename.  It undoes what was written since the read, and replaces the
\* lines of another key of the same name.
Commits(p) ==
  /\ run[p] = "running"
  /\ RenameTmp(p)
  /\ Overtakes(p, job[p].path)
  /\ lost' = [q \in Procs |->
       IF q = p THEN lost[q] \ {job[p].path}
       ELSE IF q \in behind[p] \/ (signer[q].name = signer[p].name /\ signer[q] # signer[p])
       THEN Loses(q, job[p].path) ELSE lost[q]]
  /\ UNCHANGED scanVars

EntryDone(p) == /\ pc[p] = "ok"
                /\ Return(p)
                /\ behind' = [behind EXCEPT ![p] = {}]
                /\ UNCHANGED <<scanVars, lost>>

\* Mutant: the process is gone, the run goes on.
EntryFails_NoResult(p) == /\ pc[p] = "err"
                          /\ job' = [job EXCEPT ![p] = NoJob]
                          /\ Goto(p, "dead")
                          /\ UNCHANGED <<file, tmp, pid, scanVars, behind, lost>>

\* Mutant: a file that could not be written is skipped.
EntryFails_Skips(p) == /\ pc[p] = "err"
                       /\ Return(p)
                       /\ UNCHANGED <<scanVars, behind, lost>>

\* write_atomic_overwrite(..)? returns from cmd_sign: the rest is not signed.
EntryFails(p) == /\ pc[p] = "err"
                 /\ job' = [job EXCEPT ![p] = NoJob]
                 /\ Goto(p, "dead")
                 /\ Ends(p, "failed")
                 /\ UNCHANGED <<file, tmp, pid>>

\* The directory is exhausted: "dual-signed {count} narinfo file(s)".
SignFinish(p) == /\ run[p] = "running"
                 /\ \A path \in listed[p] : yields[p][path] > 0
                 /\ Exit(p)
                 /\ Ends(p, "ok")

\* Also a read or directory error, which ends the run at the same points.
SignCrash(p) == Crash(p) /\ Ends(p, "failed")

SignPowerLoss ==
  LET Cut(f, none) == [p \in Procs |-> IF run[p] = "running" THEN none ELSE f[p]]
  IN  /\ PowerLoss
      /\ run' = Cut(run, "failed") /\ signer' = Cut(signer, NoSigner)
      /\ listed' = Cut(listed, {}) /\ yields' = Cut(yields, NoYields)
      /\ behind' = Cut(behind, {}) /\ lost' = Cut(lost, {})

\* Another program (nix copy) publishes a narinfo, for a new path or again,
\* atomically.
Publish(path) == /\ \E d \in Fresh : file' = [file EXCEPT ![path] = OnDisk(d)]
                 /\ file' # file
                 /\ Overtakes(Nobody, path)
                 /\ lost' = [p \in Procs |-> Loses(p, path)]
                 /\ UNCHANGED <<tmp, pid, pc, job, run, signer, listed, yields>>

ScanStep(p) == \/ SignEntry(p) \/ ParseFails(p) \/ WriteStep(p) \/ Commits(p)
               \/ EntryDone(p) \/ EntryFails(p)

SignNext == \/ \E p \in Procs : \/ \E s \in Signers : SignStart(p, s)
                                \/ ScanStep(p) \/ SignFinish(p) \/ SignCrash(p)
            \/ SignPowerLoss
            \/ \E path \in Paths : Publish(path)

SignSpec == SignInit /\ [][SignNext]_signVars

-----------------------------------------------------------------------------
OwnLines(lines, name) == {i \in DOMAIN lines : lines[i].name = name}
HasPair(info, s) == VerifyHybrid(info, s.name, s.key)
Parses(path) == file[path].data # Malformed
Signed(path, s) == Parses(path) /\ HasPair(file[path].data, s)

\* "REPLACE this key's prior entries, not accumulate duplicates": whatever was
\* in the file, and however often and with whom it is signed, what a run
\* publishes has one line of its name in each list, and they verify.
CommitsOnePair ==
  [][\A p \in Procs : Commits(p) =>
       LET new == file'[job[p].path].data
       IN  /\ Cardinality(OwnLines(new.sigs, signer[p].name)) = 1
           /\ Cardinality(OwnLines(new.sig_pqc, signer[p].name)) = 1
           /\ HasPair(new, signer[p])]_signVars

\* A run that exits with success left every narinfo it found on its start
\* signed, whatever failed or died before and after; what took its signature
\* away since is another key of its name, a publication, or a run that had
\* read the file before and overwrote it after.
FinishedMeansSigned ==
  \A p \in Procs : run[p] = "ok" =>
    \A path \in listed[p] \ lost[p] : Signed(path, signer[p])

\* Nothing is lost but by overlapping: what a run publishes keeps the path's
\* fingerprint and every line of other names, in order, as they are in the
\* file it replaces, unless that was written since the run read it.
KeepsTheRest ==
  [][\A p \in Procs : Commits(p) /\ behind[p] = {} =>
       LET old == file[job[p].path].data
           new == file'[job[p].path].data
       IN  /\ new.print = old.print
           /\ Others(new.sigs, signer[p].name) = Others(old.sigs, signer[p].name)
           /\ Others(new.sig_pqc, signer[p].name) = Others(old.sig_pqc, signer[p].name)]_signVars

\* Signing is rerun with each key, and a run makes progress.  A scan ends once
\* every listed path was yielded, so it does not yield replaced files for ever.
SignFair == /\ SignSpec
            /\ \A s \in Signers : SF_signVars(\E p \in Procs : SignStart(p, s))
            /\ \A p \in Procs : WF_signVars(ScanStep(p)) /\ WF_signVars(SignFinish(p))

\* A run is cut short by what is not its own code: a crash or power loss.
Killed(p) == /\ run[p] = "running" /\ run'[p] = "failed"
             /\ ~EntryFails(p) /\ ~ParseFails(p)

Disturbance == \/ \E p \in Procs : CallFault(p) \/ Killed(p)
               \/ \E path \in Paths : Publish(path)
SignCalm == <>[][~Disturbance]_signVars

\* Runs that failed part of the way are made good by running again: once
\* faults and publications stop, every well-formed cache ends up signed by
\* every signer, and stays so.
EventuallySigned ==
  SignCalm /\ <>[](\A path \in Present : Parses(path)) =>
    <>[](\A s \in Signers, path \in Present : Signed(path, s))
=============================================================================
