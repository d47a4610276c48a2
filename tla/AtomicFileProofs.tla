-------------------------- MODULE AtomicFileProofs --------------------------
(***************************************************************************)
(* Proofs about AtomicFile: for any number of processes, process ids,      *)
(* paths and contents, a published file is never torn, and the temporary-  *)
(* file protocol implements the register of FileRegister.                  *)
(*                                                                         *)
(* Untorn is not inductive: what makes a rename safe is that the temporary *)
(* file under a caller's name is the one the caller created and wrote, and *)
(* that holds because no other live process shares its id.  The inductive  *)
(* invariant IInv says so, with the place of every open descriptor.        *)
(***************************************************************************)
EXTENDS AtomicFile, TLAPS

\* Process ids identify live processes.
IdsDistinct == \A p, q \in Procs : p # q /\ Live(p) /\ Live(q) => pid[p] # pid[q]

\* A process inside a call has its arguments.
JobKnown == \A p \in Procs : pc[p] \in Working \cup {"ok", "err"} <=> job[p] # NoJob

\* What the caller finds behind its temporary name once it created it.
OwnTempOf(p) ==
  /\ pc[p] \in {"write", "sync", "rename"} =>
       tmp[TmpOf(p)] # NoFile /\ tmp[TmpOf(p)].data = job[p].data
  /\ pc[p] \in {"write", "sync"} => tmp[TmpOf(p)].fd = p
  /\ pc[p] \in {"sync", "rename"} => tmp[TmpOf(p)].body = "whole"
  /\ pc[p] = "rename" =>
       /\ tmp[TmpOf(p)].fd = Nobody
       /\ tmp[TmpOf(p)].disk = "synced" \/ "sync" \in Faults

OwnTemp == \A p \in Procs : OwnTempOf(p)

\* An open descriptor is that of a caller writing its own temporary file.
OwnDescriptor == \A k \in TmpKeys : \A p \in Procs :
  Holds(p, tmp[k]) => pc[p] \in {"write", "sync"} /\ k = TmpOf(p)

\* What is published is whole, closed and, unless syncs fail, on disk.
Published == \A path \in Paths : file[path] # NoFile =>
  /\ file[path].body = "whole"
  /\ file[path].fd = Nobody
  /\ file[path].disk = "synced" \/ "sync" \in Faults

IInv == TypeOK /\ IdsDistinct /\ JobKnown /\ OwnTemp /\ OwnDescriptor /\ Published

\* The two environments in which the promise holds: process ids are not
\* shared, and no power is lost after a sync that failed.
Durable == ~({"power", "sync"} \subseteq Faults)
Sound == OneNamespace /\ Durable

-----------------------------------------------------------------------------
\* A name that is some process's temporary name is nobody else's.
LEMMA TmpNamesDistinct ==
  ASSUME IInv, NEW p \in Procs, NEW q \in Procs, p # q,
         pc[p] \in Working, Live(q)
  PROVE  TmpOf(p) \in TmpKeys /\ TmpOf(p) # TmpOf(q)
BY ConstantsOK DEF IInv, TypeOK, IdsDistinct, JobKnown, Live, Working, TmpOf, TmpKeys, Jobs

\* No descriptor is open on a published file, so no write reaches one.
LEMMA PublishedUntouched ==
  ASSUME IInv, NEW p \in Procs
  PROVE  /\ WriteThrough(p, file) = file
         /\ CloseAll(p, file) = file
         /\ CloseAll(p, SyncThrough(p, file)) = file
<1>1. \A path \in Paths : ~Holds(p, file[path])
  BY ConstantsOK DEF IInv, TypeOK, Published, Holds
<1>2. SyncThrough(p, file) = file
  BY <1>1 DEF IInv, TypeOK, SyncThrough
<1> QED
  BY <1>1, <1>2 DEF IInv, TypeOK, WriteThrough, CloseAll

\* The temporary file of a writer is the one file it has a descriptor on.
LEMMA WriterHoldsOwnTemp ==
  ASSUME IInv, NEW p \in Procs, pc[p] \in {"write", "sync"}
  PROVE  /\ TmpOf(p) \in TmpKeys
         /\ tmp[TmpOf(p)] \in Inodes
         /\ \A k \in TmpKeys : Holds(p, tmp[k]) <=> k = TmpOf(p)
<1>1. TmpOf(p) \in TmpKeys
  BY ConstantsOK DEF IInv, TypeOK, JobKnown, Working, TmpOf, TmpKeys, Jobs
<1>2. tmp[TmpOf(p)] # NoFile /\ tmp[TmpOf(p)].fd = p
  BY DEF IInv, OwnTemp, OwnTempOf
<1> QED
  BY <1>1, <1>2 DEF IInv, TypeOK, OwnDescriptor, Holds

\* A process that is not writing has no descriptor open.
LEMMA NoDescriptor ==
  ASSUME IInv, NEW p \in Procs, pc[p] \notin {"write", "sync"}
  PROVE  CloseAll(p, tmp) = tmp
BY DEF IInv, TypeOK, OwnDescriptor, CloseAll

\* The invariant holds at the start, and each action preserves it.
LEMMA InitIInv == FileInit => IInv
BY ConstantsOK DEF FileInit, IInv, TypeOK, IdsDistinct, JobKnown, OwnTemp, OwnTempOf, OwnDescriptor,
   Published, Working, Places, Live, OnDisk, Inodes, Holds

LEMMA SpawnIInv ==
  ASSUME IInv, NEW p \in Procs, Spawn(p), OneNamespace \/ \A q \in Procs : ~Live(q)
  PROVE  IInv'
BY DEF Spawn, Goto, IInv, TypeOK, IdsDistinct, JobKnown, OwnTemp, OwnTempOf, OwnDescriptor,
   Published, Working, Places, Live, Holds, TmpOf

LEMMA BeginIInv == ASSUME IInv, NEW p \in Procs, Invoke(p) PROVE IInv'
BY ConstantsOK DEF Invoke, Begin, Goto, IInv, TypeOK, IdsDistinct, JobKnown, OwnTemp, OwnTempOf, OwnDescriptor,
   Published, Working, Places, Live, Holds, TmpOf

LEMMA CreateTmpIInv == ASSUME IInv, NEW p \in Procs, CreateTmp(p) PROVE IInv'
BY ConstantsOK DEF CreateTmp, Goto, IInv, TypeOK, IdsDistinct, JobKnown, OwnTemp, OwnTempOf, OwnDescriptor,
   Published, Working, Places, Live, Holds, TmpOf, TmpKeys, Jobs, Inodes

LEMMA CheckNewIInv == ASSUME IInv, NEW p \in Procs, CheckNew(p) PROVE IInv'
BY ConstantsOK DEF CheckNew, Goto, IInv, TypeOK, IdsDistinct, JobKnown, OwnTemp, OwnTempOf,
   OwnDescriptor, Published, Working, Places, Live, Holds, TmpOf, TmpKeys, Jobs, Inodes

LEMMA CreateFailsIInv == ASSUME IInv, NEW p \in Procs, CreateFails(p) PROVE IInv'
BY ConstantsOK DEF CreateFails, Goto, IInv, TypeOK, IdsDistinct, JobKnown, OwnTemp, OwnTempOf,
   OwnDescriptor, Published, Working, Places, Live, Holds, TmpOf, TmpKeys, Jobs, Inodes

LEMMA ReturnIInv == ASSUME IInv, NEW p \in Procs, Return(p) PROVE IInv'
BY ConstantsOK DEF Return, Goto, IInv, TypeOK, IdsDistinct, JobKnown, OwnTemp, OwnTempOf,
   OwnDescriptor, Published, Working, Places, Live, Holds, TmpOf, TmpKeys, Jobs, Inodes

LEMMA ExitIInv == ASSUME IInv, NEW p \in Procs, Exit(p) PROVE IInv'
BY ConstantsOK DEF Exit, Goto, IInv, TypeOK, IdsDistinct, JobKnown, OwnTemp, OwnTempOf,
   OwnDescriptor, Published, Working, Places, Live, Holds, TmpOf, TmpKeys, Jobs, Inodes

LEMMA RenameFailsIInv == ASSUME IInv, NEW p \in Procs, RenameFails(p) PROVE IInv'
BY ConstantsOK DEF RenameFails, Goto, IInv, TypeOK, IdsDistinct, JobKnown, OwnTemp, OwnTempOf,
   OwnDescriptor, Published, Working, Places, Live, Holds, TmpOf, TmpKeys, Jobs, Inodes

\* A step that changes only the caller's own temporary file is invisible to
\* the others, because no other live process has that name.
LEMMA OwnStep ==
  ASSUME IInv, NEW p \in Procs, pc[p] \in Working,
         NEW place \in Places \ {"dead", "idle"}, Goto(p, place),
         UNCHANGED <<file, pid, job>>,
         tmp' \in [TmpKeys -> Inodes \cup {NoFile}],
         \A k \in TmpKeys : k # TmpOf(p) => tmp'[k] = tmp[k],
         OwnTempOf(p)',
         \A q \in Procs : Holds(q, tmp'[TmpOf(p)]) =>
            q = p /\ place \in {"write", "sync"}
  PROVE  IInv'
<1>1. TypeOK'
  BY DEF IInv, TypeOK, Goto
<1>2. IdsDistinct'
  BY DEF IInv, TypeOK, IdsDistinct, Goto, Live, Working
<1>3. JobKnown'
  BY DEF IInv, TypeOK, JobKnown, Goto, Working, Places
<1>4. OwnTemp'
  <2> SUFFICES ASSUME NEW q \in Procs, q # p PROVE OwnTempOf(q)'
    BY DEF OwnTemp
  <2>1. OwnTempOf(q) /\ pc'[q] = pc[q] /\ TmpOf(q)' = TmpOf(q) /\ job'[q] = job[q]
    BY DEF IInv, TypeOK, OwnTemp, Goto, TmpOf
  <2>2. CASE pc[q] \in {"write", "sync", "rename"}
    <3>1. TmpOf(q) \in TmpKeys /\ TmpOf(q) # TmpOf(p)
      BY <2>2, TmpNamesDistinct DEF Live, Working
    <3>2. tmp'[TmpOf(q)] = tmp[TmpOf(q)]
      BY <3>1
    <3> QED
      BY <2>1, <3>2 DEF OwnTempOf
  <2>3. CASE pc[q] \notin {"write", "sync", "rename"}
    BY <2>1, <2>3 DEF OwnTempOf
  <2> QED
    BY <2>2, <2>3
<1>5. OwnDescriptor'
  <2> SUFFICES ASSUME NEW k \in TmpKeys, NEW q \in Procs, Holds(q, tmp'[k])
               PROVE  pc'[q] \in {"write", "sync"} /\ k = TmpOf(q)'
    BY DEF OwnDescriptor, Holds
  <2>1. TmpOf(q)' = TmpOf(q)
    BY DEF TmpOf
  <2>2. CASE k = TmpOf(p)
    BY <2>1, <2>2 DEF IInv, TypeOK, Goto
  <2>3. CASE k # TmpOf(p)
    <3>1. Holds(q, tmp[k])
      BY <2>3
    <3>2. pc[q] \in {"write", "sync"} /\ k = TmpOf(q)
      BY <3>1 DEF IInv, OwnDescriptor
    <3> QED
      BY <2>1, <2>3, <3>2 DEF IInv, TypeOK, Goto
  <2> QED
    BY <2>2, <2>3
<1>6. Published'
  BY DEF IInv, Published
<1> QED
  BY <1>1, <1>2, <1>3, <1>4, <1>5, <1>6 DEF IInv

\* The steps that change the caller's own temporary file.
LEMMA RemoveTmpIInv == ASSUME IInv, NEW p \in Procs, RemoveTmp(p) PROVE IInv'
<1>1. TmpOf(p) \in TmpKeys
  BY ConstantsOK DEF RemoveTmp, IInv, TypeOK, JobKnown, Working, TmpOf, TmpKeys, Jobs
<1>2. /\ tmp' \in [TmpKeys -> Inodes \cup {NoFile}]
      /\ \A k \in TmpKeys : k # TmpOf(p) => tmp'[k] = tmp[k]
      /\ tmp'[TmpOf(p)] \in {NoFile, tmp[TmpOf(p)]}
  BY <1>1 DEF RemoveTmp, IInv, TypeOK
<1>3. \A q \in Procs : ~Holds(q, tmp'[TmpOf(p)])
  BY <1>1, <1>2, TmpNamesDistinct DEF RemoveTmp, IInv, OwnDescriptor, Holds, Working, Live
<1>4. OwnTempOf(p)' /\ Goto(p, "err")
  BY DEF RemoveTmp, Goto, OwnTempOf, IInv, TypeOK
<1> QED
  BY <1>2, <1>3, <1>4, OwnStep DEF RemoveTmp, Working, Places

LEMMA WriteTmpIInv == ASSUME IInv, NEW p \in Procs, WriteTmp(p) PROVE IInv'
<1>1. /\ TmpOf(p) \in TmpKeys
      /\ tmp[TmpOf(p)] \in Inodes
      /\ \A k \in TmpKeys : Holds(p, tmp[k]) <=> k = TmpOf(p)
  BY WriterHoldsOwnTemp DEF WriteTmp
<1>2. UNCHANGED file
  BY PublishedUntouched DEF WriteTmp
<1>3. \A k \in TmpKeys : k # TmpOf(p) => tmp'[k] = tmp[k]
  BY <1>1 DEF WriteTmp, WriteThrough, IInv, TypeOK
<1>4. tmp'[TmpOf(p)] = [tmp[TmpOf(p)] EXCEPT !.body = "whole"]
  BY <1>1 DEF WriteTmp, WriteThrough, IInv, TypeOK
<1>5. tmp' \in [TmpKeys -> Inodes \cup {NoFile}]
  <2>1. tmp'[TmpOf(p)] \in Inodes
    BY <1>1, <1>4 DEF Inodes
  <2>2. DOMAIN tmp' = TmpKeys /\ tmp' = [k \in TmpKeys |-> tmp'[k]]
    BY DEF WriteTmp, WriteThrough, IInv, TypeOK
  <2> QED
    BY <1>1, <1>3, <2>1, <2>2 DEF IInv, TypeOK
<1>6. TmpOf(p)' = TmpOf(p) /\ Goto(p, "sync")
  BY DEF WriteTmp, TmpOf
<1>7. OwnTempOf(p)'
  BY <1>1, <1>4, <1>6, ConstantsOK DEF WriteTmp, Goto, OwnTemp, OwnTempOf, IInv, TypeOK, Inodes
<1>8. \A q \in Procs : Holds(q, tmp'[TmpOf(p)]) => q = p /\ "sync" \in {"write", "sync"}
  BY <1>1, <1>4, ConstantsOK DEF Holds, Inodes
<1> QED
  BY <1>2, <1>3, <1>5, <1>6, <1>7, <1>8, OwnStep DEF WriteTmp, Working, Places

LEMMA WriteFailsIInv == ASSUME IInv, NEW p \in Procs, WriteFails(p) PROVE IInv'
<1>1. /\ TmpOf(p) \in TmpKeys
      /\ tmp[TmpOf(p)] \in Inodes
      /\ \A k \in TmpKeys : Holds(p, tmp[k]) <=> k = TmpOf(p)
  BY WriterHoldsOwnTemp DEF WriteFails
<1>2. UNCHANGED file
  BY PublishedUntouched DEF WriteFails
<1>3. \A k \in TmpKeys : k # TmpOf(p) => tmp'[k] = tmp[k]
  BY <1>1 DEF WriteFails, CloseAll, IInv, TypeOK
<1>4. tmp'[TmpOf(p)] = [tmp[TmpOf(p)] EXCEPT !.fd = Nobody]
  BY <1>1 DEF WriteFails, CloseAll, IInv, TypeOK
<1>5. tmp' \in [TmpKeys -> Inodes \cup {NoFile}]
  <2>1. tmp'[TmpOf(p)] \in Inodes
    BY <1>1, <1>4 DEF Inodes
  <2>2. DOMAIN tmp' = TmpKeys /\ tmp' = [k \in TmpKeys |-> tmp'[k]]
    BY DEF WriteFails, CloseAll, IInv, TypeOK
  <2> QED
    BY <1>1, <1>3, <2>1, <2>2 DEF IInv, TypeOK
<1>6. TmpOf(p)' = TmpOf(p) /\ Goto(p, "cleanup")
  BY DEF WriteFails, TmpOf
<1>7. OwnTempOf(p)'
  BY <1>1, <1>4, <1>6, ConstantsOK DEF WriteFails, Goto, OwnTemp, OwnTempOf, IInv, TypeOK, Inodes
<1>8. \A q \in Procs : Holds(q, tmp'[TmpOf(p)]) => q = p /\ "cleanup" \in {"write", "sync"}
  BY <1>1, <1>4, ConstantsOK DEF Holds, Inodes
<1> QED
  BY <1>2, <1>3, <1>5, <1>6, <1>7, <1>8, OwnStep DEF WriteFails, Working, Places

LEMMA SyncTmpIInv == ASSUME IInv, NEW p \in Procs, SyncTmp(p) PROVE IInv'
<1>1. /\ TmpOf(p) \in TmpKeys
      /\ tmp[TmpOf(p)] \in Inodes
      /\ \A k \in TmpKeys : Holds(p, tmp[k]) <=> k = TmpOf(p)
  BY WriterHoldsOwnTemp DEF SyncTmp
<1>2. UNCHANGED file
  BY PublishedUntouched DEF SyncTmp
<1>3. \A k \in TmpKeys : k # TmpOf(p) => tmp'[k] = tmp[k]
  BY <1>1 DEF SyncTmp, SyncThrough, CloseAll, Holds, IInv, TypeOK
<1>4. \/ tmp'[TmpOf(p)] = [tmp[TmpOf(p)] EXCEPT !.disk = "synced", !.fd = Nobody]
      \/ "sync" \in Faults /\ tmp'[TmpOf(p)] = [tmp[TmpOf(p)] EXCEPT !.fd = Nobody]
  <2> DEFINE own == tmp[TmpOf(p)]
  <2>1. Holds(p, own) /\ own # NoFile
    BY <1>1, ConstantsOK DEF Holds
  <2>2. SyncThrough(p, tmp)[TmpOf(p)] = [own EXCEPT !.disk = "synced"]
    BY <1>1, <2>1 DEF SyncThrough, IInv, TypeOK
  <2>3. Holds(p, [own EXCEPT !.disk = "synced"])
    BY <1>1, <2>1, ConstantsOK DEF Holds, Inodes
  <2>4. CloseAll(p, SyncThrough(p, tmp))[TmpOf(p)] = [own EXCEPT !.disk = "synced", !.fd = Nobody]
    BY <1>1, <2>2, <2>3 DEF CloseAll, SyncThrough, IInv, TypeOK
  <2>5. CloseAll(p, tmp)[TmpOf(p)] = [own EXCEPT !.fd = Nobody]
    BY <1>1, <2>1 DEF CloseAll, IInv, TypeOK
  <2> QED
    BY <2>4, <2>5 DEF SyncTmp
<1>5. tmp' \in [TmpKeys -> Inodes \cup {NoFile}]
  <2>1. tmp'[TmpOf(p)] \in Inodes
    BY <1>1, <1>4 DEF Inodes
  <2>2. DOMAIN tmp' = TmpKeys /\ tmp' = [k \in TmpKeys |-> tmp'[k]]
    BY DEF SyncTmp, SyncThrough, CloseAll, Holds, IInv, TypeOK
  <2> QED
    BY <1>1, <1>3, <2>1, <2>2 DEF IInv, TypeOK
<1>6. TmpOf(p)' = TmpOf(p) /\ Goto(p, "rename")
  BY DEF SyncTmp, TmpOf
<1>7. OwnTempOf(p)'
  <2>1. pc'[p] = "rename" /\ job'[p] = job[p]
    BY DEF SyncTmp, Goto, IInv, TypeOK
  <2>2. tmp[TmpOf(p)].data = job[p].data /\ tmp[TmpOf(p)].body = "whole"
    BY DEF SyncTmp, IInv, OwnTemp, OwnTempOf
  <2>3. /\ tmp'[TmpOf(p)].data = job[p].data
        /\ tmp'[TmpOf(p)].body = "whole"
        /\ tmp'[TmpOf(p)].fd = Nobody
        /\ tmp'[TmpOf(p)].disk = "synced" \/ "sync" \in Faults
        /\ tmp'[TmpOf(p)] \in Inodes
    BY <1>1, <1>4, <2>2 DEF Inodes
  <2> QED
    BY <1>6, <2>1, <2>3, ConstantsOK DEF OwnTempOf
<1>8. \A q \in Procs : Holds(q, tmp'[TmpOf(p)]) => q = p /\ "rename" \in {"write", "sync"}
  BY <1>1, <1>4, ConstantsOK DEF Holds, Inodes
<1> QED
  BY <1>2, <1>3, <1>5, <1>6, <1>7, <1>8, OwnStep DEF SyncTmp, Working, Places

\* The file that a rename publishes is closed, whole and on disk.
LEMMA RenameTmpIInv == ASSUME IInv, NEW p \in Procs, RenameTmp(p) PROVE IInv'
<1> DEFINE at == job[p].path
           k  == TmpOf(p)
<1>1. /\ pc[p] = "rename" /\ UNCHANGED <<pid, job>>
      /\ file' = [file EXCEPT ![at] = tmp[k]]
      /\ tmp' = [tmp EXCEPT ![k] = NoFile]
      /\ pc' = [pc EXCEPT ![p] = "ok"]
  BY DEF RenameTmp, Goto
<1>2. job[p] \in Jobs /\ at \in Paths /\ k \in TmpKeys
  BY <1>1, ConstantsOK DEF IInv, TypeOK, JobKnown, Working, TmpOf, TmpKeys, Jobs
<1>3. /\ tmp[k] \in Inodes /\ tmp[k].body = "whole" /\ tmp[k].fd = Nobody
      /\ tmp[k].disk = "synced" \/ "sync" \in Faults
  BY <1>1, <1>2 DEF IInv, TypeOK, OwnTemp, OwnTempOf
<1>4. \A q \in Procs : TmpOf(q)' = TmpOf(q)
  BY <1>1 DEF TmpOf
<1>5. pc' \in [Procs -> Places] /\ pc'[p] = "ok" /\ \A q \in Procs : q # p => pc'[q] = pc[q]
  BY <1>1 DEF IInv, TypeOK, Places
<1>6. TypeOK'
  BY <1>1, <1>2, <1>3, <1>5 DEF IInv, TypeOK
<1>7. IdsDistinct'
  BY <1>1, <1>5 DEF IInv, IdsDistinct, Live
<1>8. JobKnown'
  BY <1>1, <1>5 DEF IInv, JobKnown, Working
<1>9. OwnTemp'
  <2> SUFFICES ASSUME NEW q \in Procs PROVE OwnTempOf(q)'
    BY DEF OwnTemp
  <2>1. CASE pc'[q] \in {"write", "sync", "rename"}
    <3>1. q # p /\ pc[q] = pc'[q] /\ Live(q)
      BY <1>5, <2>1 DEF Live
    <3>2. TmpOf(q) # k /\ TmpOf(q) \in TmpKeys
      BY <1>1, <2>1, <3>1, TmpNamesDistinct DEF Working, Live
    <3>3. tmp'[TmpOf(q)] = tmp[TmpOf(q)]
      BY <1>1, <3>2 DEF IInv, TypeOK
    <3>4. OwnTempOf(q)
      BY DEF IInv, OwnTemp
    <3> QED
      BY <1>1, <1>4, <3>1, <3>3, <3>4 DEF OwnTempOf
  <2>2. CASE pc'[q] \notin {"write", "sync", "rename"}
    BY <2>2 DEF OwnTempOf
  <2> QED
    BY <2>1, <2>2
<1>10. OwnDescriptor'
  <2> SUFFICES ASSUME NEW l \in TmpKeys, NEW q \in Procs, Holds(q, tmp'[l])
               PROVE  pc'[q] \in {"write", "sync"} /\ l = TmpOf(q)'
    BY DEF OwnDescriptor, Holds
  <2>1. l # k /\ tmp'[l] = tmp[l]
    BY <1>1, <1>2 DEF IInv, TypeOK, Holds
  <2>2. pc[q] \in {"write", "sync"} /\ l = TmpOf(q)
    BY <2>1 DEF IInv, OwnDescriptor
  <2> QED
    BY <1>1, <1>4, <1>5, <2>2
<1>11. Published'
  BY <1>1, <1>3 DEF IInv, TypeOK, Published
<1> QED
  BY <1>6, <1>7, <1>8, <1>9, <1>10, <1>11 DEF IInv

LEMMA CrashIInv == ASSUME IInv, NEW p \in Procs, Crash(p) PROVE IInv'
<1>1. UNCHANGED <<file, pid>>
  BY PublishedUntouched DEF Crash
<1>2. \A k \in TmpKeys : tmp'[k] # tmp[k] => pc[p] \in {"write", "sync"} /\ k = TmpOf(p)
  BY DEF Crash, CloseAll, IInv, TypeOK, OwnDescriptor
<1>3. \A k \in TmpKeys : \A q \in Procs : Holds(q, tmp'[k]) => q # p /\ Holds(q, tmp[k])
  BY ConstantsOK DEF Crash, CloseAll, Holds, IInv, TypeOK, Inodes
<1>4. TypeOK'
  <2>1. \A k \in TmpKeys : tmp'[k] \in Inodes \cup {NoFile}
    BY DEF Crash, CloseAll, IInv, TypeOK, Holds, Inodes
  <2>2. tmp' = [k \in TmpKeys |-> tmp'[k]]
    BY DEF Crash, CloseAll, IInv, TypeOK
  <2>3. tmp' \in [TmpKeys -> Inodes \cup {NoFile}]
    BY <2>1, <2>2
  <2>4. pc' \in [Procs -> Places] /\ job' \in [Procs -> Jobs \cup {NoJob}]
    BY DEF Crash, Goto, IInv, TypeOK, Places
  <2> QED
    BY <1>1, <2>3, <2>4 DEF IInv, TypeOK
<1>5. IdsDistinct'
  BY <1>1 DEF Crash, Goto, IInv, TypeOK, IdsDistinct, Live
<1>6. JobKnown'
  BY DEF Crash, Goto, IInv, TypeOK, JobKnown, Working
<1>7. OwnTemp'
  <2> SUFFICES ASSUME NEW q \in Procs PROVE OwnTempOf(q)'
    BY DEF OwnTemp
  <2>1. CASE q = p \/ pc[q] \notin {"write", "sync", "rename"}
    BY <2>1 DEF Crash, Goto, IInv, TypeOK, OwnTempOf
  <2>2. CASE q # p /\ pc[q] \in {"write", "sync", "rename"}
    <3>1. TmpOf(q)' = TmpOf(q) /\ pc'[q] = pc[q] /\ job'[q] = job[q]
      BY <1>1, <2>2 DEF Crash, Goto, IInv, TypeOK, TmpOf
    <3>2. tmp'[TmpOf(q)] = tmp[TmpOf(q)]
      BY <1>2, <2>2, TmpNamesDistinct DEF Crash, Working, Live
    <3> QED
      BY <3>1, <3>2 DEF IInv, OwnTemp, OwnTempOf
  <2> QED
    BY <2>1, <2>2
<1>8. OwnDescriptor'
  BY <1>1, <1>3 DEF Crash, Goto, IInv, TypeOK, OwnDescriptor, Holds, TmpOf
<1>9. Published'
  BY <1>1 DEF IInv, Published
<1> QED
  BY <1>4, <1>5, <1>6, <1>7, <1>8, <1>9 DEF IInv

LEMMA PowerLossIInv == ASSUME IInv, Durable, PowerLoss PROVE IInv'
BY ConstantsOK DEF Durable, PowerLoss, AfterPower, Unsynced, IInv, TypeOK, IdsDistinct, JobKnown, OwnTemp, OwnTempOf,
   OwnDescriptor, Published, Working, Places, Live, Holds, TmpOf, TmpKeys, Jobs, Inodes

-----------------------------------------------------------------------------
\* All steps together; only here do the conditions of Sound come in.
LEMMA StepIInv == ASSUME IInv, Sound, [Next]_fileVars PROVE IInv'
<1>1. CASE PowerLoss
  BY <1>1, PowerLossIInv DEF Sound
<1>2. CASE UNCHANGED fileVars
  BY <1>2 DEF fileVars, IInv, TypeOK, IdsDistinct, JobKnown, OwnTemp, OwnTempOf,
     OwnDescriptor, Published, Live, Holds, TmpOf
<1>3. ASSUME NEW p \in Procs,
             \/ Spawn(p) \/ Invoke(p) \/ Return(p) \/ Exit(p) \/ Crash(p)
             \/ CallStep(p)
      PROVE  IInv'
  BY <1>3, SpawnIInv, BeginIInv, CheckNewIInv, CreateTmpIInv, CreateFailsIInv,
     WriteTmpIInv, WriteFailsIInv, SyncTmpIInv, RemoveTmpIInv, RenameTmpIInv,
     RenameFailsIInv, ReturnIInv, ExitIInv, CrashIInv DEF CallStep, Sound
<1> QED
  BY <1>1, <1>2, <1>3 DEF Next

\* The strengthened invariant, under the two conditions of Sound.
THEOREM Invariant == Sound => (Spec => []IInv)
<1> SUFFICES ASSUME Sound PROVE Spec => []IInv
  OBVIOUS
<1> QED
  BY InitIInv, StepIInv, PTL DEF Spec

\* For any number of processes, ids, paths and contents, and under every
\* fault but the two combinations Sound excludes, no reader of a destination
\* finds part of a content.
THEOREM UntornTheorem == Sound => (Spec => []Untorn)
<1>1. IInv => Untorn
  BY DEF IInv, Published, Untorn
<1> QED
  BY <1>1, Invariant, PTL

-----------------------------------------------------------------------------
\* Typing needs neither condition: it rests on JobKnown alone.
LEMMA DirectoriesTyped ==
  ASSUME TypeOK, NEW p \in Procs
  PROVE  /\ WriteThrough(p, file) \in [Paths -> Inodes \cup {NoFile}]
         /\ WriteThrough(p, tmp) \in [TmpKeys -> Inodes \cup {NoFile}]
         /\ CloseAll(p, file) \in [Paths -> Inodes \cup {NoFile}]
         /\ CloseAll(p, tmp) \in [TmpKeys -> Inodes \cup {NoFile}]
         /\ CloseAll(p, SyncThrough(p, file)) \in [Paths -> Inodes \cup {NoFile}]
         /\ CloseAll(p, SyncThrough(p, tmp)) \in [TmpKeys -> Inodes \cup {NoFile}]
<1>1. ASSUME NEW S, NEW d \in [S -> Inodes \cup {NoFile}]
      PROVE  /\ WriteThrough(p, d) \in [S -> Inodes \cup {NoFile}]
             /\ SyncThrough(p, d) \in [S -> Inodes \cup {NoFile}]
             /\ CloseAll(p, d) \in [S -> Inodes \cup {NoFile}]
  BY DEF WriteThrough, SyncThrough, CloseAll, Holds, Inodes
<1> QED
  BY <1>1 DEF TypeOK

\* Every step keeps the declared shape.
LEMMA StepTyped == ASSUME TypeOK, JobKnown, [Next]_fileVars PROVE TypeOK' /\ JobKnown'
<1> USE DEF TypeOK, JobKnown, Working, Places, Goto
<1>1. ASSUME NEW p \in Procs, Spawn(p) \/ Return(p) \/ Exit(p) PROVE TypeOK' /\ JobKnown'
  BY <1>1 DEF Spawn, Return, Exit
<1>2. ASSUME NEW p \in Procs, Invoke(p) PROVE TypeOK' /\ JobKnown'
  BY <1>2, ConstantsOK DEF Invoke, Begin
<1>3. ASSUME NEW p \in Procs, CheckNew(p) \/ CreateFails(p) \/ RenameFails(p)
      PROVE  TypeOK' /\ JobKnown'
  <2>1. /\ UNCHANGED <<file, tmp, pid, job>> /\ pc[p] \in Working
        /\ \E place \in Working \cup {"err"} : pc' = [pc EXCEPT ![p] = place]
    BY <1>3 DEF CheckNew, CreateFails, RenameFails
  <2> QED
    BY <2>1
<1>4. ASSUME NEW p \in Procs, CreateTmp(p) PROVE TypeOK' /\ JobKnown'
  <2>1. tmp' \in [TmpKeys -> Inodes \cup {NoFile}]
    BY <1>4 DEF CreateTmp, Inodes, Jobs
  <2>2. /\ UNCHANGED <<file, pid, job>> /\ pc[p] \in Working
        /\ \E place \in Working : pc' = [pc EXCEPT ![p] = place]
    BY <1>4 DEF CreateTmp
  <2> QED
    BY <2>1, <2>2
<1>5. ASSUME NEW p \in Procs, WriteTmp(p) \/ WriteFails(p) \/ SyncTmp(p)
      PROVE  TypeOK' /\ JobKnown'
  BY <1>5, DirectoriesTyped DEF WriteTmp, WriteFails, SyncTmp
<1>6. ASSUME NEW p \in Procs, RemoveTmp(p) \/ RenameTmp(p) PROVE TypeOK' /\ JobKnown'
  BY <1>6 DEF RemoveTmp, RenameTmp, TmpOf, TmpKeys, Jobs
<1>7. ASSUME NEW p \in Procs, Crash(p) PROVE TypeOK' /\ JobKnown'
  BY <1>7, DirectoriesTyped DEF Crash
<1>8. CASE PowerLoss
  BY <1>8 DEF PowerLoss, AfterPower, Inodes
<1>9. CASE UNCHANGED fileVars
  BY <1>9 DEF fileVars
<1> QED
  BY <1>1, <1>2, <1>3, <1>4, <1>5, <1>6, <1>7, <1>8, <1>9 DEF Next, CallStep

\* The state keeps its declared shape.
THEOREM TypeTheorem == Spec => []TypeOK
<1>1. FileInit => TypeOK /\ JobKnown
  BY InitIInv DEF IInv
<1>2. (TypeOK /\ JobKnown) /\ [Next]_fileVars => (TypeOK /\ JobKnown)'
  BY StepTyped
<1> QED
  BY <1>1, <1>2, PTL DEF Spec

-----------------------------------------------------------------------------
\* Refinement: the rename is the commit, the error returns are the refusals,
\* a return or a death forgets the call, and every other step is invisible.
LEMMA InitRefines == FileInit => Register!Init
BY ConstantsOK DEF FileInit, Register!Init, Shown, Answer, OnDisk, Inodes

\* Every step of the protocol is a step of the register or invisible in it.
LEMMA StepRefines ==
  ASSUME IInv, IInv', Sound, [Next]_fileVars
  PROVE  [Register!Next]_(Register!vars)
<1>1. ASSUME NEW p \in Procs, Invoke(p) PROVE Register!Invoke(p)
  <2>1. PICK j \in Jobs : Begin(p, j)
    BY <1>1 DEF Invoke
  <2>2. /\ pc[p] = "idle" /\ job' = [job EXCEPT ![p] = j] /\ UNCHANGED file
        /\ pc' \in [Procs -> {"check", "open"} \cup {pc[q] : q \in Procs}]
        /\ pc'[p] \in {"check", "open"} /\ \A q \in Procs : q # p => pc'[q] = pc[q]
    BY <2>1 DEF Begin, Goto, IInv, TypeOK, Jobs
  <2>3. job[p] = NoJob
    BY <2>2 DEF IInv, JobKnown, Working
  <2>4. Answer' = Answer
    BY <2>2 DEF Answer
  <2>5. Shown' = Shown
    BY <2>2 DEF Shown
  <2>6. j \in Register!Jobs
    BY <2>1 DEF Register!Jobs, Jobs
  <2> QED
    BY <2>2, <2>3, <2>4, <2>5, <2>6 DEF Register!Invoke
<1>2. ASSUME NEW p \in Procs, RenameTmp(p) PROVE Register!Commit(p)
  <2>1. tmp[TmpOf(p)].data = job[p].data /\ tmp[TmpOf(p)].body = "whole"
    BY <1>2 DEF RenameTmp, IInv, OwnTemp, OwnTempOf
  <2>2. /\ job[p] # NoJob
        /\ Answer[p] = "none"
        /\ Answer' = [Answer EXCEPT ![p] = "ok"]
        /\ UNCHANGED job
    BY <1>2 DEF RenameTmp, Goto, Answer, IInv, TypeOK, JobKnown, Working
  <2>3. Shown' = [Shown EXCEPT ![job[p].path] = job[p].data]
    BY <1>2, <2>1 DEF RenameTmp, Shown, IInv, TypeOK
  <2> QED
    BY <2>2, <2>3 DEF Register!Commit
<1>3. ASSUME NEW p \in Procs,
             RemoveTmp(p) \/ RenameFails(p) \/ (CheckNew(p) /\ pc'[p] = "err")
      PROVE  Register!Refuse(p)
  <2>1. /\ pc[p] \in Working
        /\ pc' = [pc EXCEPT ![p] = "err"]
        /\ UNCHANGED <<file, job>>
    BY <1>3 DEF RemoveTmp, RenameFails, CheckNew, Goto, Working
  <2>2. job[p] # NoJob /\ Answer[p] = "none"
    BY <2>1 DEF Answer, IInv, JobKnown, Working
  <2>3. Answer' = [Answer EXCEPT ![p] = "err"]
    BY <2>1 DEF Answer, IInv, TypeOK
  <2> QED
    BY <2>1, <2>2, <2>3 DEF Register!Refuse, Shown
<1>4. ASSUME NEW p \in Procs,
             \/ Spawn(p) \/ Exit(p) \/ CreateTmp(p) \/ CreateFails(p)
             \/ WriteTmp(p) \/ WriteFails(p) \/ SyncTmp(p)
             \/ CheckNew(p) /\ pc'[p] = "open"
      PROVE  UNCHANGED Register!vars
  <2>1. UNCHANGED <<file, job>>
    BY <1>4, PublishedUntouched DEF Spawn, Exit, CreateTmp, CreateFails, WriteTmp,
       WriteFails, SyncTmp, CheckNew
  <2>2. UNCHANGED Answer
    BY <1>4 DEF Spawn, Exit, CreateTmp, CreateFails, WriteTmp, WriteFails, SyncTmp,
       CheckNew, Goto, Answer, IInv, TypeOK
  <2> QED
    BY <2>1, <2>2 DEF Register!vars, Shown
<1>5. ASSUME NEW p \in Procs, Return(p) \/ Crash(p) PROVE Register!Forget({p})
  <2>1. UNCHANGED Shown
    BY <1>5, PublishedUntouched DEF Return, Crash, Shown
  <2>2. job' = [q \in Procs |-> IF q \in {p} THEN NoJob ELSE job[q]]
    BY <1>5 DEF Return, Crash, IInv, TypeOK
  <2>3. Answer' = [q \in Procs |-> IF q \in {p} THEN "none" ELSE Answer[q]]
    BY <1>5 DEF Return, Crash, Goto, Answer, IInv, TypeOK
  <2> QED
    BY <2>1, <2>2, <2>3 DEF Register!Forget
<1>6. ASSUME PowerLoss PROVE Register!Forget(Procs)
  <2>1. Unsynced(file) = {}
    BY <1>6 DEF PowerLoss, Sound, Durable, IInv, TypeOK, Published, Unsynced
  <2>2. file' = AfterPower(file, {})
    BY <1>6, <2>1 DEF PowerLoss
  <2>3. UNCHANGED Shown
    BY <2>2, ConstantsOK DEF AfterPower, Shown, IInv, TypeOK, Inodes
  <2>4. /\ job' = [q \in Procs |-> IF q \in Procs THEN NoJob ELSE job[q]]
        /\ Answer' = [q \in Procs |-> IF q \in Procs THEN "none" ELSE Answer[q]]
    BY <1>6 DEF PowerLoss, Answer
  <2> QED
    BY <2>3, <2>4 DEF Register!Forget
<1>7. CASE UNCHANGED fileVars
  BY <1>7 DEF fileVars, Register!vars, Shown, Answer
<1>8. ASSUME NEW p \in Procs, CheckNew(p) PROVE pc'[p] \in {"err", "open"}
  BY <1>8 DEF CheckNew, Goto, IInv, TypeOK
<1> QED
  BY <1>1, <1>2, <1>3, <1>4, <1>5, <1>6, <1>7, <1>8
     DEF Next, CallStep, Register!Next

\* The temporary-file protocol is a register: each call publishes all of its
\* own content at its own path, at most once, exactly when it answers "ok".
THEOREM Refinement == Sound => (Spec => ImplementsRegister)
<1> SUFFICES ASSUME Sound PROVE Spec => ImplementsRegister
  OBVIOUS
<1>1. Spec => []IInv
  BY Invariant
<1> QED
  BY <1>1, InitRefines, StepRefines, PTL DEF Spec, ImplementsRegister, Register!Spec

-----------------------------------------------------------------------------
\* For the programs that call AtomicFile.  A call that is over may end the
\* program, and files may be removed or put in place between the calls.
LEMMA LeaveIInv ==
  ASSUME IInv, NEW p \in Procs, pc[p] \in {"ok", "err"},
         job' = [job EXCEPT ![p] = NoJob], Goto(p, "dead"), UNCHANGED <<file, tmp, pid>>
  PROVE  IInv'
BY ConstantsOK DEF Goto, IInv, TypeOK, IdsDistinct, JobKnown, OwnTemp, OwnTempOf,
   OwnDescriptor, Published, Working, Places, Live, Holds, TmpOf

\* Nobody holds a descriptor on a destination, so it may be replaced from outside.
LEMMA ReplaceIInv ==
  ASSUME IInv, NEW path \in Paths, NEW new \in {NoFile} \cup {OnDisk(c) : c \in Contents},
         file' = [file EXCEPT ![path] = new], UNCHANGED <<tmp, pid, pc, job>>
  PROVE  IInv'
<1>1. new \in Inodes \cup {NoFile}
  BY DEF OnDisk, Inodes
<1>2. TypeOK' /\ Published'
  BY <1>1, ConstantsOK DEF IInv, TypeOK, Published, OnDisk
<1> QED
  BY <1>2 DEF IInv, IdsDistinct, JobKnown, OwnTemp, OwnTempOf, OwnDescriptor, Live, Holds, TmpOf

\* What a step of a call shows: the rename publishes the data of the call, and
\* no other step touches a destination.
LEMMA CallStepEffect ==
  ASSUME IInv, NEW p \in Procs, CallStep(p)
  PROVE  /\ IInv' /\ UNCHANGED <<pid, job>>
         /\ pc[p] \in Working /\ pc'[p] \in Working \cup {"ok", "err"}
         /\ \A q \in Procs : q # p => pc'[q] = pc[q]
         /\ job[p] \in Jobs
         /\ pc'[p] \in {"open", "write", "sync", "rename"} =>
              \/ pc[p] \in {"open", "write", "sync"}
              \/ pc[p] = "check" /\ file[job[p].path] = NoFile
         /\ RenameTmp(p) =>
              /\ pc[p] = "rename" /\ pc'[p] = "ok"
              /\ tmp[TmpOf(p)] \in Inodes /\ tmp[TmpOf(p)].data = job[p].data
              /\ file' = [file EXCEPT ![job[p].path] = tmp[TmpOf(p)]]
         /\ ~RenameTmp(p) => file' = file /\ pc'[p] # "ok"
<1>1. IInv'
  BY CheckNewIInv, CreateTmpIInv, CreateFailsIInv, WriteTmpIInv, WriteFailsIInv, SyncTmpIInv,
     RemoveTmpIInv, RenameTmpIInv, RenameFailsIInv DEF CallStep
<1>2. UNCHANGED <<pid, job>> /\ pc[p] \in Working
  BY DEF CallStep, CheckNew, CreateTmp, CreateFails, WriteTmp, WriteFails, SyncTmp, RemoveTmp,
     RenameTmp, RenameFails, Working
<1>3. job[p] \in Jobs
  BY <1>2 DEF IInv, TypeOK, JobKnown
<1>4. PICK place : /\ pc' = [pc EXCEPT ![p] = place]
                   /\ place \in Working \cup {"ok", "err"}
                   /\ place = "ok" <=> RenameTmp(p)
                   /\ place \in {"open", "write", "sync", "rename"} =>
                        \/ pc[p] \in {"open", "write", "sync"}
                        \/ pc[p] = "check" /\ file[job[p].path] = NoFile
  BY DEF CallStep, CheckNew, CreateTmp, CreateFails, WriteTmp, WriteFails, SyncTmp, RemoveTmp,
     RenameTmp, RenameFails, Goto, Working, IInv, TypeOK
<1>5. pc'[p] = place /\ \A q \in Procs : q # p => pc'[q] = pc[q]
  BY <1>4 DEF IInv, TypeOK
<1>6. ~RenameTmp(p) => file' = file
  BY PublishedUntouched DEF CallStep, CheckNew, CreateTmp, CreateFails, WriteTmp, WriteFails,
     SyncTmp, RemoveTmp, RenameFails
<1>7. RenameTmp(p) => /\ pc[p] = "rename"
                      /\ tmp[TmpOf(p)] \in Inodes /\ tmp[TmpOf(p)].data = job[p].data
                      /\ file' = [file EXCEPT ![job[p].path] = tmp[TmpOf(p)]]
  BY <1>3 DEF RenameTmp, IInv, TypeOK, OwnTemp, OwnTempOf, TmpOf, TmpKeys, Jobs
<1> QED
  BY <1>1, <1>2, <1>3, <1>4, <1>5, <1>6, <1>7

\* Deaths leave every destination as it was, to a reader.
LEMMA DeathEffect ==
  ASSUME IInv, Durable, PowerLoss \/ \E p \in Procs : Crash(p)
  PROVE  /\ IInv'
         /\ \A path \in Paths : /\ file'[path] = NoFile <=> file[path] = NoFile
                                /\ file[path] # NoFile => file'[path].data = file[path].data
<1>1. IInv'
  BY CrashIInv, PowerLossIInv
<1>2. CASE \E p \in Procs : Crash(p)
  BY <1>1, <1>2, PublishedUntouched DEF Crash
<1>3. CASE PowerLoss
  <2>1. ASSUME NEW path \in Paths
        PROVE  /\ file'[path] = NoFile <=> file[path] = NoFile
               /\ file[path] # NoFile => file'[path].data = file[path].data
    <3>1. PICK torn \in SUBSET Unsynced(file) : file' = AfterPower(file, torn)
      BY <1>3 DEF PowerLoss
    <3>2. file'[path] # NoFile => file[path] # NoFile
      BY <3>1 DEF AfterPower, IInv, TypeOK
    <3>3. file[path] # NoFile =>
            /\ file'[path] # NoFile
            /\ file'[path].data = file[path].data
      BY <3>1, ConstantsOK DEF AfterPower, IInv, TypeOK, Inodes
    <3> QED
      BY <3>2, <3>3
  <2> QED
    BY <1>1, <2>1
<1> QED
  BY <1>2, <1>3
=============================================================================
