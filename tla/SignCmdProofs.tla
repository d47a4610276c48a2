---------------------------- MODULE SignCmdProofs ----------------------------
(***************************************************************************)
(* Proofs about SignCmd: for any number of processes, paths, key files and *)
(* narinfos, and runs that overlap, die and fail in any order, what a run  *)
(* publishes has exactly one valid pair of its name and keeps the rest,    *)
(* and a run that succeeded left every narinfo it listed signed.           *)
(*                                                                         *)
(* FinishedMeansSigned speaks of runs that ended and of files.  What keeps *)
(* it true are the runs in between: a job that will replace a signed file  *)
(* was made from a narinfo that had the signature already, or its owner is *)
(* recorded as behind (SignedBy).                                          *)
(***************************************************************************)
EXTENDS SignCmd, AtomicFileProofs, SignatureProofs

MarkedBy(info, sg) == info \in NarInfos /\ Marked(info, sg.name, sg.key)

\* p has signed what it read of path and not yet published it.
Pending(p, path) == job[p] # NoJob /\ job[p].path = path /\ pc[p] # "ok"

\* q has been at path, and nobody has taken its signature away since.
Done(q, path) == /\ run[q] \in {"running", "ok"}
                 /\ path \in listed[q] \ lost[q]
                 /\ run[q] = "ok" \/ yields[q][path] > 0
                 /\ ~Pending(q, path)

\* What p is about to publish takes away the lines of q.
Rival(p, q) == signer[p].name = signer[q].name /\ signer[p] # signer[q]

\* A run knows its key file, and what it writes is some narinfo that it signed.
RunInv(p) ==
  /\ Live(p) <=> run[p] = "running"
  /\ run[p] \in {"running", "ok"} => signer[p] \in Signers
  /\ job[p] # NoJob => \E d \in NarInfos :
       job[p].data = DualSigned(d, signer[p].name, signer[p].key)
  /\ \A path \in listed[p] : file[path] # NoFile

\* Unless it is behind, what it signed is what is there.
UpToDate(p) == \A path \in Paths : Pending(p, path) /\ behind[p] = {} =>
  /\ file[path] # NoFile /\ file[path].data # Malformed
  /\ job[p].data = DualSigned(file[path].data, signer[p].name, signer[p].key)

\* What q has signed bears its signature, and so does what any other run is
\* about to put in its place, if it read the file after q wrote it.
SignedBy(q) == \A path \in Paths : Done(q, path) =>
  /\ MarkedBy(file[path].data, signer[q])
  /\ \A p \in Procs : p # q /\ Pending(p, path) /\ q \notin behind[p] /\ ~Rival(p, q) =>
       MarkedBy(job[p].data, signer[q])

RunTypeOK == /\ run \in [Procs -> {"none", "running", "ok", "failed"}]
             /\ listed \in [Procs -> SUBSET Paths]
             /\ signer \in [Procs -> Signers \cup {NoSigner}]
             /\ yields \in [Procs -> [Paths -> 0..MaxYields]]
             /\ behind \in [Procs -> SUBSET (Procs \cup {Nobody})]
             /\ lost \in [Procs -> SUBSET Paths]

SInv == /\ IInv /\ RunTypeOK
        /\ \A p \in Procs : RunInv(p) /\ UpToDate(p) /\ SignedBy(p)

\* The module's assumptions give the conditions under which no file is torn.
LEMMA SignIsDurable == Durable /\ OneNamespace
BY SignOK DEF Durable

\* What signing makes of a narinfo.
LEMMA SignedNarInfo ==
  ASSUME NEW d \in NarInfos, NEW s \in Signers
  PROVE  LET new == DualSigned(d, s.name, s.key)
         IN  /\ new \in NarInfos /\ new.print = d.print
             /\ MarkedBy(new, s)
             /\ Cardinality(OwnLines(new.sigs, s.name)) = 1
             /\ Cardinality(OwnLines(new.sig_pqc, s.name)) = 1
             /\ Others(new.sigs, s.name) = Others(d.sigs, s.name)
             /\ Others(new.sig_pqc, s.name) = Others(d.sig_pqc, s.name)
             /\ \A other \in Signers : other.name # s.name /\ MarkedBy(d, other) => MarkedBy(new, other)
<1> DEFINE ed == SigLine(s.name, EdSign(s.key, d.print))
           ml == SigLine(s.name, MlSign(s.key, d.print))
           new == DualSigned(d, s.name, s.key)
<1>1. /\ d.sigs \in Seq(Lines) /\ d.sig_pqc \in Seq(Lines) /\ d.print \in Prints
      /\ s.name \in Names /\ s.key \in Keys
  BY SignOK DEF NarInfos
<1>2. ed \in Lines /\ ml \in Lines /\ ed.name = s.name /\ ml.name = s.name
  BY <1>1, OwnSignatures DEF SigLine
<1>3. /\ new.print = d.print
      /\ new.sigs = Append(Others(d.sigs, ed.name), ed)
      /\ new.sig_pqc = Append(Others(d.sig_pqc, ml.name), ml)
      /\ new = [print |-> new.print, sigs |-> new.sigs, sig_pqc |-> new.sig_pqc]
  BY <1>2 DEF DualSigned
<1> HIDE DEF ed, ml, new
<1>4. /\ new.sigs \in Seq(Lines)
      /\ OwnLines(new.sigs, s.name) = {Len(new.sigs)}
      /\ OnlyLine(new.sigs, ed)
      /\ Others(new.sigs, s.name) = Others(d.sigs, s.name)
      /\ \A m : m.name # s.name /\ OnlyLine(d.sigs, m) => OnlyLine(new.sigs, m)
  <2> DEFINE out == Append(Others(d.sigs, ed.name), ed)
  <2>1. /\ out \in Seq(Lines)
        /\ {i \in DOMAIN out : out[i].name = ed.name} = {Len(out)}
        /\ OnlyLine(out, ed)
        /\ Others(out, ed.name) = Others(d.sigs, ed.name)
        /\ \A m : m.name # ed.name /\ OnlyLine(d.sigs, m) => OnlyLine(out, m)
    BY <1>1, <1>2, ReplacedLines
  <2>2. new.sigs = out /\ ed.name = s.name
    BY <1>2, <1>3
  <2> HIDE DEF out
  <2>3. OwnLines(out, s.name) = {i \in DOMAIN out : out[i].name = ed.name}
    BY <2>2 DEF OwnLines
  <2> QED
    BY <2>1, <2>2, <2>3
<1>5. /\ new.sig_pqc \in Seq(Lines)
      /\ OwnLines(new.sig_pqc, s.name) = {Len(new.sig_pqc)}
      /\ OnlyLine(new.sig_pqc, ml)
      /\ Others(new.sig_pqc, s.name) = Others(d.sig_pqc, s.name)
      /\ \A m : m.name # s.name /\ OnlyLine(d.sig_pqc, m) => OnlyLine(new.sig_pqc, m)
  <2> DEFINE out == Append(Others(d.sig_pqc, ml.name), ml)
  <2>1. /\ out \in Seq(Lines)
        /\ {i \in DOMAIN out : out[i].name = ml.name} = {Len(out)}
        /\ OnlyLine(out, ml)
        /\ Others(out, ml.name) = Others(d.sig_pqc, ml.name)
        /\ \A m : m.name # ml.name /\ OnlyLine(d.sig_pqc, m) => OnlyLine(out, m)
    BY <1>1, <1>2, ReplacedLines
  <2>2. new.sig_pqc = out /\ ml.name = s.name
    BY <1>2, <1>3
  <2> HIDE DEF out
  <2>3. OwnLines(out, s.name) = {i \in DOMAIN out : out[i].name = ml.name}
    BY <2>2 DEF OwnLines
  <2> QED
    BY <2>1, <2>2, <2>3
<1>6. new \in NarInfos
  BY <1>1, <1>3, <1>4, <1>5 DEF NarInfos
<1>7. MarkedBy(new, s)
  BY <1>3, <1>4, <1>5, <1>6 DEF MarkedBy, Marked, ed, ml
<1>8. /\ Cardinality(OwnLines(new.sigs, s.name)) = 1
      /\ Cardinality(OwnLines(new.sig_pqc, s.name)) = 1
  BY <1>4, <1>5, FS_Singleton
<1>9. ASSUME NEW other \in Signers, other.name # s.name, MarkedBy(d, other) PROVE MarkedBy(new, other)
  <2>1. /\ SigLine(other.name, EdSign(other.key, d.print)).name # s.name
        /\ SigLine(other.name, MlSign(other.key, d.print)).name # s.name
    BY <1>9 DEF SigLine
  <2> QED
    BY <1>3, <1>4, <1>5, <1>6, <1>9, <2>1 DEF MarkedBy, Marked
<1> QED
  BY <1>3, <1>4, <1>5, <1>6, <1>7, <1>8, <1>9 DEF new

\* Its signature verifies.
LEMMA MarkedIsSigned ==
  ASSUME NEW s \in Signers, NEW d, MarkedBy(d, s)
  PROVE  d \in NarInfos /\ d # Malformed /\ HasPair(d, s)
BY SignOK, MarkedVerifies DEF MarkedBy, HasPair

\* The invariant holds at the start, and each action preserves it.
LEMMA InitSInv == SignInit => SInv
<1> SUFFICES ASSUME SignInit PROVE SInv
  OBVIOUS
<1>1. FileInit
  <2>1. file \in [Paths -> {NoFile} \cup {OnDisk(c) : c \in Contents}]
    BY SignOK DEF SignInit
  <2> QED
    BY <2>1 DEF SignInit, FileInit
<1>2. NoYields \in [Paths -> 0..MaxYields]
  BY SignOK DEF NoYields
<1>3. RunTypeOK
  BY <1>2 DEF SignInit, RunTypeOK
<1>4. ASSUME NEW p \in Procs PROVE RunInv(p) /\ UpToDate(p) /\ SignedBy(p)
  BY DEF SignInit, RunInv, Live, UpToDate, Pending, SignedBy, Done
<1> QED
  BY <1>1, <1>3, <1>4, InitIInv DEF SInv

-----------------------------------------------------------------------------
\* Nothing of q changes.
SameOf(q) == /\ pc'[q] = pc[q] /\ job'[q] = job[q]
             /\ run'[q] = run[q] /\ signer'[q] = signer[q]
             /\ listed'[q] = listed[q] /\ yields'[q] = yields[q]
             /\ behind'[q] = behind[q] /\ lost'[q] = lost[q]

\* A step of p that touches no destination: it may end p's claims, but make none,
\* and what it prepares must respect those of the others.
LEMMA QuietStep ==
  ASSUME SInv, NEW p \in Procs, IInv', RunTypeOK', file' = file,
         \A q \in Procs : q # p => SameOf(q),
         RunInv(p)', UpToDate(p)',
         \A path \in Paths : Done(p, path)' => Done(p, path) /\ signer'[p] = signer[p],
         \A path \in Paths, q \in Procs :
           q # p /\ Pending(p, path)' /\ Done(q, path) /\ q \notin behind'[p] /\ ~Rival(p, q)'
             => MarkedBy(job'[p].data, signer[q])
  PROVE  SInv'
<1>1. ASSUME NEW q \in Procs, q # p PROVE RunInv(q)' /\ UpToDate(q)'
  <2>1. RunInv(q) /\ UpToDate(q) /\ SameOf(q)
    BY <1>1 DEF SInv
  <2> QED
    BY <2>1 DEF RunInv, UpToDate, Pending, Live, SameOf
<1>2. ASSUME NEW q \in Procs, q # p, NEW path \in Paths
      PROVE  (Done(q, path)' <=> Done(q, path)) /\ (Pending(q, path)' <=> Pending(q, path))
  BY <1>2 DEF SameOf, Done, Pending
<1>3. ASSUME NEW q \in Procs, NEW path \in Paths, Done(q, path)'
      PROVE  /\ MarkedBy(file[path].data, signer'[q])
             /\ \A x \in Procs : x # q /\ Pending(x, path)' /\ q \notin behind'[x] /\ ~Rival(x, q)' =>
                  MarkedBy(job'[x].data, signer'[q])
  <2>1. Done(q, path) /\ signer'[q] = signer[q]
    BY <1>2, <1>3 DEF SameOf
  <2>2. /\ MarkedBy(file[path].data, signer[q])
        /\ \A x \in Procs : x # q /\ Pending(x, path) /\ q \notin behind[x] /\ ~Rival(x, q) =>
             MarkedBy(job[x].data, signer[q])
    BY <2>1 DEF SInv, SignedBy
  <2>3. ASSUME NEW x \in Procs, x # q, Pending(x, path)', q \notin behind'[x], ~Rival(x, q)'
        PROVE  MarkedBy(job'[x].data, signer'[q])
    <3>1. CASE x = p
      BY <2>1, <2>3, <3>1
    <3>2. CASE x # p
      BY <1>2, <2>1, <2>2, <2>3, <3>2 DEF SameOf, Rival
    <3> QED
      BY <3>1, <3>2
  <2> QED
    BY <2>1, <2>2, <2>3
<1>4. \A q \in Procs : SignedBy(q)'
  BY <1>3 DEF SignedBy, MarkedBy, Marked
<1> QED
  BY <1>1, <1>4 DEF SInv

\* A run begins, or ends in whatever way: it has no job then.
LEMMA StartSInv == ASSUME SInv, NEW p \in Procs, NEW s \in Signers, SignStart(p, s) PROVE SInv'
<1>1. IInv'
  BY SpawnIInv, SignIsDurable DEF SignStart, SInv
<1>2. /\ pc[p] = "dead" /\ pc' = [pc EXCEPT ![p] = "idle"]
      /\ run' = [run EXCEPT ![p] = "running"] /\ signer' = [signer EXCEPT ![p] = s]
      /\ listed' = [listed EXCEPT ![p] = Present] /\ yields' = [yields EXCEPT ![p] = NoYields]
      /\ lost' = [lost EXCEPT ![p] = {}]
      /\ UNCHANGED <<file, job, behind>>
  BY DEF SignStart, Spawn, Goto
<1>3. NoYields \in [Paths -> 0..MaxYields] /\ Present \in SUBSET Paths
  BY SignOK DEF NoYields, Present
<1>4. RunTypeOK'
  BY <1>2, <1>3 DEF SInv, RunTypeOK
<1>5. job[p] = NoJob /\ job'[p] = NoJob
  BY <1>2 DEF SInv, IInv, JobKnown, Working
<1>6. \A q \in Procs : q # p => SameOf(q)
  BY <1>2 DEF SInv, IInv, TypeOK, RunTypeOK, SameOf
<1>7. /\ pc'[p] = "idle" /\ run'[p] = "running" /\ signer'[p] = s
      /\ listed'[p] = Present /\ yields'[p] = NoYields
  BY <1>2 DEF SInv, IInv, TypeOK, RunTypeOK
<1>8. RunInv(p)' /\ UpToDate(p)'
  BY <1>2, <1>5, <1>7 DEF RunInv, UpToDate, Pending, Live, Present
<1>9. \A path \in Paths : ~Done(p, path)' /\ ~Pending(p, path)'
  BY <1>5, <1>7 DEF Done, Pending, NoYields
<1> QED
  BY <1>1, <1>2, <1>4, <1>6, <1>8, <1>9, QuietStep

\* A run that ends, well or not.
LEMMA EndSInv ==
  ASSUME SInv, NEW p \in Procs, NEW how \in {"ok", "failed"}, Ends(p, how),
         IInv', file' = file, pc' = [pc EXCEPT ![p] = "dead"], job' = [job EXCEPT ![p] = NoJob],
         how = "ok" => /\ run[p] = "running" /\ job[p] = NoJob
                       /\ \A path \in listed[p] : yields[p][path] > 0
  PROVE  SInv'
<1>1. NoYields \in [Paths -> 0..MaxYields]
  BY SignOK DEF NoYields
<1>2. RunTypeOK'
  BY <1>1 DEF Ends, SInv, RunTypeOK
<1>3. \A q \in Procs : q # p => SameOf(q)
  BY DEF Ends, SInv, IInv, TypeOK, RunTypeOK, SameOf
<1>4. /\ pc'[p] = "dead" /\ job'[p] = NoJob /\ run'[p] = how
      /\ how = "ok" => signer' = signer /\ listed' = listed /\ lost' = lost
      /\ how # "ok" => listed'[p] = {}
  BY DEF Ends, SInv, IInv, TypeOK, RunTypeOK
<1>5. RunInv(p)' /\ UpToDate(p)'
  BY <1>4 DEF SInv, RunInv, UpToDate, Pending, Live
<1>6. \A path \in Paths : Done(p, path)' => Done(p, path) /\ signer'[p] = signer[p]
  BY <1>4 DEF Done, Pending
<1>7. \A path \in Paths : ~Pending(p, path)'
  BY <1>4 DEF Pending
<1> QED
  BY <1>2, <1>3, <1>5, <1>6, <1>7, QuietStep

LEMMA ParseFailsSInv == ASSUME SInv, NEW p \in Procs, ParseFails(p) PROVE SInv'
<1>1. IInv'
  BY ExitIInv DEF ParseFails, SInv
<1>2. pc[p] = "idle" /\ pc' = [pc EXCEPT ![p] = "dead"] /\ UNCHANGED <<file, job>>
  BY DEF ParseFails, Exit, Goto
<1>3. job' = [job EXCEPT ![p] = NoJob]
  BY <1>2 DEF SInv, IInv, TypeOK, JobKnown, Working
<1> QED
  BY <1>1, <1>2, <1>3, EndSInv DEF ParseFails

LEMMA EntryFailsSInv == ASSUME SInv, NEW p \in Procs, EntryFails(p) PROVE SInv'
<1>1. IInv'
  BY LeaveIInv DEF EntryFails, SInv
<1> QED
  BY <1>1, EndSInv DEF EntryFails, Goto

LEMMA SignFinishSInv == ASSUME SInv, NEW p \in Procs, SignFinish(p) PROVE SInv'
<1>1. IInv'
  BY ExitIInv DEF SignFinish, SInv
<1>2. pc[p] = "idle" /\ pc' = [pc EXCEPT ![p] = "dead"] /\ UNCHANGED <<file, job>>
  BY DEF SignFinish, Exit, Goto
<1>3. job[p] = NoJob /\ job' = [job EXCEPT ![p] = NoJob]
  BY <1>2 DEF SInv, IInv, TypeOK, JobKnown, Working
<1> QED
  BY <1>1, <1>2, <1>3, EndSInv DEF SignFinish

LEMMA SignCrashSInv == ASSUME SInv, NEW p \in Procs, SignCrash(p) PROVE SInv'
<1>1. IInv' /\ file' = file
  BY CrashIInv, PublishedUntouched DEF SignCrash, Crash, SInv
<1> QED
  BY <1>1, EndSInv DEF SignCrash, Crash, Goto

-----------------------------------------------------------------------------
\* The scan yields a path: what p is about to publish is signed from what is
\* there, so it has the signatures of all who are done with the path.
LEMMA SignEntrySInv == ASSUME SInv, NEW p \in Procs, SignEntry(p) PROVE SInv'
<1>1. PICK path \in Present :
        /\ yields[p][path] < MaxYields
        /\ file[path].data # Malformed
        /\ Begin(p, [path |-> path, kind |-> "overwrite",
                     data |-> DualSigned(file[path].data, signer[p].name, signer[p].key)])
        /\ yields' = [yields EXCEPT ![p][path] = @ + 1]
        /\ behind' = [behind EXCEPT ![p] = {}]
        /\ UNCHANGED <<run, signer, listed, lost>>
  BY DEF SignEntry
<1> DEFINE old == file[path].data
           new == DualSigned(old, signer[p].name, signer[p].key)
           j == [path |-> path, kind |-> "overwrite", data |-> new]
<1>2. path \in Paths /\ file[path] # NoFile
  BY DEF Present
<1>3. old \in Contents /\ old \in NarInfos /\ run[p] = "running" /\ signer[p] \in Signers
  BY <1>1, <1>2, SignOK DEF SignEntry, SInv, RunInv, IInv, TypeOK, Inodes
<1>4. j \in Jobs
  <2>1. new \in Contents
    BY <1>1, <1>3, SignOK
  <2> QED
    BY <1>2, <2>1, SignOK DEF Jobs
<1>5. /\ pc[p] = "idle" /\ pc' = [pc EXCEPT ![p] = "open"] /\ job' = [job EXCEPT ![p] = j]
      /\ UNCHANGED <<file, tmp, pid>>
  BY <1>1 DEF Begin, Goto
<1>6. IInv'
  BY <1>1, <1>4, BeginIInv DEF SInv, Invoke
<1>7. yields' \in [Procs -> [Paths -> 0..MaxYields]]
  BY <1>1, <1>2, SignOK DEF SInv, RunTypeOK
<1>8. RunTypeOK'
  BY <1>1, <1>7 DEF SInv, RunTypeOK
<1>9. \A q \in Procs : q # p => SameOf(q)
  BY <1>1, <1>5 DEF SInv, IInv, TypeOK, RunTypeOK, SameOf
<1>10. /\ pc'[p] = "open" /\ job'[p] = j /\ job[p] = NoJob
       /\ \A other \in Paths : other # path => yields'[p][other] = yields[p][other]
  BY <1>1, <1>2, <1>5 DEF SInv, IInv, TypeOK, RunTypeOK, JobKnown, Working
<1> HIDE DEF new
<1>11. new = DualSigned(old, signer[p].name, signer[p].key)
  BY DEF new
<1>12. RunInv(p)'
  BY <1>1, <1>3, <1>5, <1>10, <1>11 DEF SInv, RunInv, Live
<1>13. UpToDate(p)'
  BY <1>1, <1>2, <1>5, <1>10, <1>11 DEF UpToDate, Pending
<1>14. \A other \in Paths : Done(p, other)' => Done(p, other) /\ signer'[p] = signer[p]
  <2> SUFFICES ASSUME NEW other \in Paths, Done(p, other)' PROVE Done(p, other)
    BY <1>1
  <2>1. other # path
    BY <1>10, ConstantsOK, <1>4 DEF Done, Pending
  <2> QED
    BY <1>1, <1>10, <2>1 DEF Done, Pending
<1>15. ASSUME NEW other \in Paths, NEW q \in Procs, q # p, Pending(p, other)', Done(q, other), ~Rival(p, q)'
       PROVE  MarkedBy(job'[p].data, signer[q])
  <2>1. other = path /\ job'[p].data = new
    BY <1>10, <1>15 DEF Pending
  <2>2. signer[q] \in Signers /\ MarkedBy(old, signer[q])
    BY <1>15, <2>1 DEF SInv, RunInv, SignedBy, Done
  <2>3. signer[q].name # signer[p].name \/ signer[q] = signer[p]
    BY <1>1, <1>15 DEF Rival
  <2>4. signer[p] \in Signers /\ old \in NarInfos
    BY <1>3
  <2>5. MarkedBy(new, signer[q])
    BY <1>11, <2>2, <2>3, <2>4, SignedNarInfo
  <2> QED
    BY <2>1, <2>5
<1> QED
  BY <1>5, <1>6, <1>8, <1>9, <1>12, <1>13, <1>14, <1>15, QuietStep

\* Up to the rename a call changes nothing that is visible.
LEMMA WriteStepSInv == ASSUME SInv, NEW p \in Procs, WriteStep(p) PROVE SInv'
<1>1. /\ IInv' /\ UNCHANGED <<pid, job>> /\ file' = file
      /\ pc[p] \in Working /\ pc'[p] \in Working \cup {"err"}
      /\ \A q \in Procs : q # p => pc'[q] = pc[q]
  BY CallStepEffect DEF WriteStep, SInv
<1>2. UNCHANGED <<run, signer, listed, yields, behind, lost>>
  BY DEF WriteStep, scanVars
<1>3. RunTypeOK'
  BY <1>2 DEF SInv, RunTypeOK
<1>4. \A q \in Procs : q # p => SameOf(q)
  BY <1>1, <1>2 DEF SameOf
<1>5. \A path \in Paths : Pending(p, path)' <=> Pending(p, path)
  BY <1>1 DEF Pending, Working
<1>6. RunInv(p)' /\ UpToDate(p)'
  BY <1>1, <1>2, <1>5 DEF SInv, RunInv, UpToDate, Live, Working
<1>7. \A path \in Paths : Done(p, path)' => Done(p, path) /\ signer'[p] = signer[p]
  BY <1>2, <1>5 DEF Done
<1>8. ASSUME NEW path \in Paths, NEW q \in Procs,
             q # p, Pending(p, path)', Done(q, path), q \notin behind'[p], ~Rival(p, q)'
      PROVE  MarkedBy(job'[p].data, signer[q])
  BY <1>1, <1>2, <1>5, <1>8 DEF SInv, SignedBy, Rival
<1> QED
  BY <1>1, <1>3, <1>4, <1>6, <1>7, <1>8, QuietStep

\* A call that answered is over; the path was not pending any more.
LEMMA EntryDoneSInv == ASSUME SInv, NEW p \in Procs, EntryDone(p) PROVE SInv'
<1>1. IInv'
  BY ReturnIInv DEF EntryDone, SInv
<1>2. /\ pc[p] = "ok" /\ pc' = [pc EXCEPT ![p] = "idle"] /\ job' = [job EXCEPT ![p] = NoJob]
      /\ behind' = [behind EXCEPT ![p] = {}]
      /\ UNCHANGED <<file, run, signer, listed, yields, lost>>
  BY DEF EntryDone, Return, Goto, scanVars
<1>3. RunTypeOK'
  BY <1>2 DEF SInv, RunTypeOK
<1>4. \A q \in Procs : q # p => SameOf(q)
  BY <1>2 DEF SInv, IInv, TypeOK, RunTypeOK, SameOf
<1>5. pc'[p] = "idle" /\ job'[p] = NoJob
  BY <1>2 DEF SInv, IInv, TypeOK
<1>6. \A path \in Paths : ~Pending(p, path)' /\ ~Pending(p, path)
  BY <1>2, <1>5 DEF Pending
<1>7. RunInv(p)' /\ UpToDate(p)'
  BY <1>2, <1>5, <1>6 DEF SInv, RunInv, UpToDate, Live
<1>8. \A path \in Paths : Done(p, path)' => Done(p, path) /\ signer'[p] = signer[p]
  BY <1>2, <1>6 DEF Done
<1> QED
  BY <1>1, <1>2, <1>3, <1>4, <1>6, <1>7, <1>8, QuietStep

-----------------------------------------------------------------------------
\* The rename.  Who is done with the path has its signature in what p wrote;
\* who is about to replace it again is behind p from now on.
LEMMA CommitsSInv == ASSUME SInv, NEW p \in Procs, Commits(p) PROVE SInv'
<1> DEFINE at == job[p].path
           new == job[p].data
<1>1. /\ IInv' /\ UNCHANGED job /\ pc[p] = "rename" /\ pc'[p] = "ok"
      /\ \A q \in Procs : q # p => pc'[q] = pc[q]
      /\ job[p] \in Jobs
      /\ file' = [file EXCEPT ![at] = tmp[TmpOf(p)]]
      /\ tmp[TmpOf(p)] \in Inodes /\ tmp[TmpOf(p)].data = new
  BY CallStepEffect DEF Commits, CallStep, SInv
<1>2. /\ behind' = [q \in Procs |-> IF q # p /\ job[q] # NoJob /\ job[q].path = at
                                    THEN behind[q] \cup {p} ELSE behind[q]]
      /\ lost' = [q \in Procs |->
           IF q = p THEN lost[q] \ {at}
           ELSE IF q \in behind[p] \/ (signer[q].name = signer[p].name /\ signer[q] # signer[p])
           THEN Loses(q, at) ELSE lost[q]]
      /\ UNCHANGED <<run, signer, listed, yields>>
  BY DEF Commits, Overtakes, scanVars
<1>3. at \in Paths /\ job[p] # NoJob /\ run[p] = "running" /\ signer[p] \in Signers
  BY <1>1, ConstantsOK DEF Jobs, Commits, SInv, RunInv
<1>4. /\ file'[at] # NoFile /\ file'[at].data = new
      /\ \A path \in Paths : path # at => file'[path] = file[path]
  BY <1>1, <1>3, ConstantsOK DEF SInv, IInv, TypeOK
<1>5. MarkedBy(new, signer[p])
  <2>1. PICK d \in NarInfos : new = DualSigned(d, signer[p].name, signer[p].key)
    BY <1>3 DEF SInv, RunInv
  <2> QED
    BY <1>3, <2>1, SignedNarInfo
<1> HIDE DEF new, at
<1>6. RunTypeOK'
  BY <1>2, <1>3 DEF SInv, RunTypeOK, Loses
<1>7. \A q \in Procs : RunInv(q)'
  BY <1>1, <1>2, <1>4 DEF SInv, RunInv, Live
<1>8. ASSUME NEW q \in Procs, NEW path \in Paths, Pending(q, path)'
      PROVE  /\ q # p /\ Pending(q, path)
             /\ path = at => p \in behind'[q]
             /\ path # at => behind'[q] = behind[q]
             /\ behind[q] \subseteq behind'[q]
  <2>1. q # p
    BY <1>1, <1>8 DEF Pending
  <2> QED
    BY <1>1, <1>2, <1>8, <2>1 DEF Pending
<1>9. \A q \in Procs : UpToDate(q)'
  <2> SUFFICES ASSUME NEW q \in Procs, NEW path \in Paths, Pending(q, path)', behind'[q] = {}
               PROVE  /\ file'[path] # NoFile /\ file'[path].data # Malformed
                      /\ job'[q].data = DualSigned(file'[path].data, signer'[q].name, signer'[q].key)
    BY DEF UpToDate
  <2>1. Pending(q, path) /\ path # at /\ behind[q] = {}
    BY <1>8
  <2> QED
    BY <1>1, <1>2, <1>4, <2>1 DEF SInv, UpToDate
<1>10. ASSUME NEW q \in Procs, q # p, NEW path \in Paths, Done(q, path)'
       PROVE  /\ Done(q, path)
              /\ path = at => q \notin behind[p] /\ ~Rival(p, q)
  BY <1>1, <1>2, <1>10 DEF Done, Pending, Rival, Loses
<1>11. ASSUME NEW q \in Procs, NEW path \in Paths, Done(q, path)'
       PROVE  MarkedBy(file'[path].data, signer[q])
  <2>1. CASE path = at /\ q = p
    BY <1>4, <1>5, <2>1
  <2>2. CASE path = at /\ q # p
    <3>1. Pending(p, path)
      BY <1>1, <1>3, <2>2 DEF Pending, at
    <3>2. MarkedBy(new, signer[q])
      BY <1>10, <1>11, <2>2, <3>1 DEF SInv, SignedBy, new
    <3> QED
      BY <1>4, <2>2, <3>2
  <2>3. CASE path # at
    <3>1. Done(q, path)
      BY <1>1, <1>2, <1>3, <1>10, <1>11, <2>3 DEF Done, Pending, at
    <3> QED
      BY <1>4, <2>3, <3>1 DEF SInv, SignedBy
  <2> QED
    BY <2>1, <2>2, <2>3
<1>12. ASSUME NEW q \in Procs, NEW path \in Paths, Done(q, path)',
              NEW x \in Procs, x # q, Pending(x, path)', q \notin behind'[x], ~Rival(x, q)'
       PROVE  MarkedBy(job[x].data, signer[q])
  <2>1. x # p /\ Pending(x, path) /\ q \notin behind[x] /\ ~Rival(x, q)
    BY <1>2, <1>8, <1>12 DEF Rival
  <2>2. Done(q, path)
    <3>1. CASE q # p
      BY <1>10, <1>12, <3>1
    <3>2. CASE q = p
      <4>1. path # at
        BY <1>8, <1>12, <3>2
      <4> QED
        BY <1>1, <1>2, <1>3, <1>12, <3>2, <4>1 DEF Done, Pending, at
    <3> QED
      BY <3>1, <3>2
  <2> QED
    BY <1>12, <2>1, <2>2 DEF SInv, SignedBy
<1>13. \A q \in Procs : SignedBy(q)'
  BY <1>1, <1>2, <1>11, <1>12 DEF SignedBy, MarkedBy, Marked
<1> QED
  BY <1>1, <1>6, <1>7, <1>9, <1>13 DEF SInv

\* Power loss ends every run, and takes no content that was published.
LEMMA SignPowerLossSInv == ASSUME SInv, SignPowerLoss PROVE SInv'
<1>1. /\ IInv'
      /\ \A path \in Paths : /\ file'[path] = NoFile <=> file[path] = NoFile
                             /\ file[path] # NoFile => file'[path].data = file[path].data
  BY DeathEffect, SignIsDurable DEF SignPowerLoss, SInv
<1>2. /\ pc' = [p \in Procs |-> "dead"] /\ job' = [p \in Procs |-> NoJob]
      /\ run' = [p \in Procs |-> IF run[p] = "running" THEN "failed" ELSE run[p]]
      /\ signer' = [p \in Procs |-> IF run[p] = "running" THEN NoSigner ELSE signer[p]]
      /\ listed' = [p \in Procs |-> IF run[p] = "running" THEN {} ELSE listed[p]]
      /\ yields' = [p \in Procs |-> IF run[p] = "running" THEN NoYields ELSE yields[p]]
      /\ behind' = [p \in Procs |-> IF run[p] = "running" THEN {} ELSE behind[p]]
      /\ lost' = [p \in Procs |-> IF run[p] = "running" THEN {} ELSE lost[p]]
  BY DEF SignPowerLoss, PowerLoss
<1>3. NoYields \in [Paths -> 0..MaxYields]
  BY SignOK DEF NoYields
<1>4. RunTypeOK'
  BY <1>2, <1>3 DEF SInv, RunTypeOK
<1>5. \A q \in Procs, path \in Paths : ~Pending(q, path)'
  BY <1>2 DEF Pending
<1>6. \A q \in Procs : RunInv(q)' /\ UpToDate(q)'
  BY <1>1, <1>2, <1>5 DEF SInv, RunTypeOK, RunInv, UpToDate, Live
<1>7. ASSUME NEW q \in Procs PROVE SignedBy(q)'
  <2> SUFFICES ASSUME NEW path \in Paths, Done(q, path)'
               PROVE  MarkedBy(file'[path].data, signer'[q])
    BY <1>5 DEF SignedBy, MarkedBy, Marked
  <2>1. run[q] = "ok" /\ path \in listed[q] \ lost[q] /\ signer'[q] = signer[q]
    BY <1>2 DEF Done
  <2>2. job[q] = NoJob
    BY <2>1 DEF SInv, RunInv, Live, IInv, JobKnown, Working
  <2>3. MarkedBy(file[path].data, signer[q]) /\ file[path] # NoFile
    BY <2>1, <2>2 DEF SInv, RunInv, SignedBy, Done, Pending
  <2> QED
    BY <1>1, <2>1, <2>3
<1> QED
  BY <1>1, <1>4, <1>6, <1>7 DEF SInv

\* Another program publishes: nobody is done with the path any more, and who is
\* about to replace it is behind.
LEMMA PublishSInv == ASSUME SInv, NEW at \in Paths, Publish(at) PROVE SInv'
<1>1. PICK d \in Fresh : file' = [file EXCEPT ![at] = OnDisk(d)]
  BY DEF Publish
<1>2. /\ behind' = [q \in Procs |-> IF q # Nobody /\ job[q] # NoJob /\ job[q].path = at
                                    THEN behind[q] \cup {Nobody} ELSE behind[q]]
      /\ lost' = [q \in Procs |-> lost[q] \cup ({at} \cap listed[q])]
      /\ UNCHANGED <<tmp, pid, pc, job, run, signer, listed, yields>>
  BY DEF Publish, Overtakes, Loses
<1>3. d \in Contents /\ OnDisk(d) # NoFile
  BY SignOK, ConstantsOK DEF OnDisk, Inodes
<1>4. IInv'
  BY <1>1, <1>2, <1>3, ReplaceIInv DEF SInv
<1>5. RunTypeOK'
  BY <1>2 DEF SInv, RunTypeOK
<1>6. /\ file'[at] # NoFile
      /\ \A path \in Paths : path # at => file'[path] = file[path]
  BY <1>1, <1>3 DEF SInv, IInv, TypeOK
<1>7. \A q \in Procs : RunInv(q)'
  BY <1>2, <1>6 DEF SInv, RunTypeOK, RunInv, Live
<1>8. ASSUME NEW q \in Procs, NEW path \in Paths, Pending(q, path)'
      PROVE  /\ Pending(q, path) /\ behind[q] \subseteq behind'[q]
             /\ path = at => Nobody \in behind'[q]
  BY <1>2, <1>8, ConstantsOK DEF Pending
<1>9. \A q \in Procs : UpToDate(q)'
  <2> SUFFICES ASSUME NEW q \in Procs, NEW path \in Paths, Pending(q, path)', behind'[q] = {}
               PROVE  /\ file'[path] # NoFile /\ file'[path].data # Malformed
                      /\ job'[q].data = DualSigned(file'[path].data, signer'[q].name, signer'[q].key)
    BY DEF UpToDate
  <2>1. Pending(q, path) /\ path # at /\ behind[q] = {}
    BY <1>8
  <2> QED
    BY <1>2, <1>6, <2>1 DEF SInv, UpToDate
<1>10. ASSUME NEW q \in Procs, NEW path \in Paths, Done(q, path)'
       PROVE  Done(q, path) /\ path # at
  BY <1>2, <1>10 DEF Done, Pending
<1>11. ASSUME NEW q \in Procs PROVE SignedBy(q)'
  <2> SUFFICES ASSUME NEW path \in Paths, Done(q, path)'
               PROVE  /\ MarkedBy(file'[path].data, signer[q])
                      /\ \A x \in Procs : x # q /\ Pending(x, path)' /\ q \notin behind'[x] /\ ~Rival(x, q)' =>
                           MarkedBy(job[x].data, signer[q])
    BY <1>2 DEF SignedBy, MarkedBy, Marked
  <2>1. Done(q, path) /\ path # at
    BY <1>10
  <2>2. MarkedBy(file'[path].data, signer[q])
    BY <1>6, <2>1 DEF SInv, SignedBy
  <2>3. ASSUME NEW x \in Procs, x # q, Pending(x, path)', q \notin behind'[x], ~Rival(x, q)'
        PROVE  MarkedBy(job[x].data, signer[q])
    <3>1. Pending(x, path) /\ q \notin behind[x] /\ ~Rival(x, q)
      BY <1>2, <1>8, <2>3 DEF Rival
    <3> QED
      BY <2>1, <2>3, <3>1 DEF SInv, SignedBy
  <2> QED
    BY <2>2, <2>3
<1> QED
  BY <1>4, <1>5, <1>7, <1>9, <1>11 DEF SInv

-----------------------------------------------------------------------------
\* All steps together.
LEMMA StepSInv == ASSUME SInv, [SignNext]_signVars PROVE SInv'
<1>1. CASE UNCHANGED signVars
  BY <1>1 DEF signVars, SInv, IInv, TypeOK, IdsDistinct, JobKnown, OwnTemp, OwnTempOf,
     OwnDescriptor, Published, Live, Holds, TmpOf, RunTypeOK, RunInv, UpToDate, SignedBy,
     Done, Pending, Rival, MarkedBy, Marked
<1>2. ASSUME NEW p \in Procs, ScanStep(p) \/ SignFinish(p) \/ SignCrash(p) PROVE SInv'
  BY <1>2, SignEntrySInv, ParseFailsSInv, WriteStepSInv, CommitsSInv, EntryDoneSInv,
     EntryFailsSInv, SignFinishSInv, SignCrashSInv DEF ScanStep
<1> QED
  BY <1>1, <1>2, StartSInv, SignPowerLossSInv, PublishSInv DEF SignNext

\* The strengthened invariant.  It needs nothing but what SignOK says.
THEOREM SignInvariant == SignSpec => []SInv
BY InitSInv, StepSInv, PTL DEF SignSpec

\* The state keeps its declared shape.
THEOREM SignTypeTheorem == SignSpec => []SignTypeOK
<1>1. SInv => SignTypeOK
  BY DEF SInv, IInv, RunTypeOK, RunInv, SignTypeOK
<1> QED
  BY <1>1, SignInvariant, PTL

\* A run that exited with success left signed what it found, whatever other
\* runs did, but for what they are recorded to have taken away.
THEOREM FinishedTheorem == SignSpec => []FinishedMeansSigned
<1>1. ASSUME SInv, NEW p \in Procs, run[p] = "ok", NEW path \in listed[p] \ lost[p]
      PROVE  Signed(path, signer[p])
  <2>1. signer[p] \in Signers /\ job[p] = NoJob /\ path \in Paths
    BY <1>1 DEF SInv, RunTypeOK, RunInv, Live, IInv, JobKnown, Working
  <2>2. Done(p, path)
    BY <1>1, <2>1 DEF Done, Pending
  <2>3. MarkedBy(file[path].data, signer[p])
    BY <1>1, <2>1, <2>2 DEF SInv, SignedBy
  <2> QED
    BY <2>1, <2>3, MarkedIsSigned DEF Signed, Parses
<1>2. SInv => FinishedMeansSigned
  BY <1>1 DEF FinishedMeansSigned
<1> QED
  BY <1>2, SignInvariant, PTL

-----------------------------------------------------------------------------
\* What a commit publishes is what the run made of some narinfo; of the one it
\* replaces, if nobody wrote that since it was read.
LEMMA CommitEffect ==
  ASSUME SInv, NEW p \in Procs, Commits(p)
  PROVE  /\ signer[p] \in Signers
         /\ \E d \in NarInfos : /\ file'[job[p].path].data = DualSigned(d, signer[p].name, signer[p].key)
                                /\ behind[p] = {} => d = file[job[p].path].data
<1> DEFINE at == job[p].path
           new == job[p].data
<1>1. /\ pc[p] = "rename" /\ job[p] \in Jobs
      /\ file' = [file EXCEPT ![at] = tmp[TmpOf(p)]] /\ tmp[TmpOf(p)].data = new
  BY CallStepEffect DEF Commits, CallStep, SInv
<1>2. at \in Paths /\ job[p] # NoJob
  BY <1>1, ConstantsOK DEF Jobs
<1>3. file'[at].data = new
  BY <1>1, <1>2 DEF SInv, IInv, TypeOK
<1>4. signer[p] \in Signers
  BY DEF Commits, SInv, RunInv
<1>5. CASE behind[p] = {}
  <2>1. Pending(p, at)
    BY <1>1, <1>2 DEF Pending
  <2>2. /\ file[at] # NoFile /\ file[at].data # Malformed
        /\ new = DualSigned(file[at].data, signer[p].name, signer[p].key)
    BY <1>2, <1>5, <2>1 DEF SInv, UpToDate
  <2>3. file[at].data \in NarInfos
    BY <1>2, <2>2, SignOK DEF SInv, IInv, TypeOK, Inodes
  <2> QED
    BY <1>3, <1>4, <2>2, <2>3
<1>6. CASE behind[p] # {}
  BY <1>2, <1>3, <1>4, <1>6 DEF SInv, RunInv
<1> QED
  BY <1>5, <1>6

\* Whatever was in the file, and however often it is signed, a run publishes
\* exactly one line of its name in each list, and the two verify.
THEOREM OnePairTheorem == SignSpec => CommitsOnePair
<1>1. ASSUME SInv, NEW p \in Procs, Commits(p)
      PROVE  LET new == file'[job[p].path].data
             IN  /\ Cardinality(OwnLines(new.sigs, signer[p].name)) = 1
                 /\ Cardinality(OwnLines(new.sig_pqc, signer[p].name)) = 1
                 /\ HasPair(new, signer[p])
  BY <1>1, CommitEffect, SignedNarInfo, MarkedIsSigned
<1>2. SInv /\ [SignNext]_signVars =>
        [\A p \in Procs : Commits(p) =>
           LET new == file'[job[p].path].data
           IN  /\ Cardinality(OwnLines(new.sigs, signer[p].name)) = 1
               /\ Cardinality(OwnLines(new.sig_pqc, signer[p].name)) = 1
               /\ HasPair(new, signer[p])]_signVars
  BY <1>1
<1> QED
  BY <1>2, SignInvariant, PTL DEF SignSpec, CommitsOnePair

\* Signing costs nobody else a line, or the narinfo its fingerprint, unless the
\* file was written between the read and the rename.
THEOREM KeepsTheRestTheorem == SignSpec => KeepsTheRest
<1>1. ASSUME SInv, NEW p \in Procs, Commits(p), behind[p] = {}
      PROVE  LET old == file[job[p].path].data
                 new == file'[job[p].path].data
             IN  /\ new.print = old.print
                 /\ Others(new.sigs, signer[p].name) = Others(old.sigs, signer[p].name)
                 /\ Others(new.sig_pqc, signer[p].name) = Others(old.sig_pqc, signer[p].name)
  BY <1>1, CommitEffect, SignedNarInfo
<1>2. SInv /\ [SignNext]_signVars =>
        [\A p \in Procs : Commits(p) /\ behind[p] = {} =>
           LET old == file[job[p].path].data
               new == file'[job[p].path].data
           IN  /\ new.print = old.print
               /\ Others(new.sigs, signer[p].name) = Others(old.sigs, signer[p].name)
               /\ Others(new.sig_pqc, signer[p].name) = Others(old.sig_pqc, signer[p].name)]_signVars
  BY <1>1
<1> QED
  BY <1>2, SignInvariant, PTL DEF SignSpec, KeepsTheRest
=============================================================================
