----------------------------- MODULE AtomicFile -----------------------------
(***************************************************************************)
(* write_via_temp_rename (keys.rs) and its two callers, write_new_atomic   *)
(* and write_atomic_overwrite, run by processes that share a directory:    *)
(* create a sibling temporary file named after the process id, write it,   *)
(* sync it, rename it over the destination.  Any system call may fail, any *)
(* process may die between two of them, and the machine may lose power.    *)
(***************************************************************************)
EXTENDS Naturals, FiniteSets

CONSTANTS Procs,         \* the processes
          Pids,          \* the process ids the system hands out
          Paths,         \* the destination paths
          Contents,      \* what may be written
          Kinds,         \* entry points in use: "new" and/or "overwrite"
          Faults,        \* what may go wrong (see FaultKinds)
          OneNamespace,  \* live processes have distinct process ids
          NoFile,        \* no directory entry
          NoJob,         \* no call in progress
          Nobody         \* no open descriptor

\* "open" .. "remove": that call may fail.  "crash": a process may die.
\* "power": the machine may, losing what was written but not synced.
FaultKinds == {"open", "write", "sync", "rename", "remove", "crash", "power"}

Jobs == [path : Paths, data : Contents, kind : Kinds]

\* A file: the content it is meant to hold, whether it holds part or all of
\* it, whether that is on disk, and the process with a descriptor open on it.
Inodes == [data : Contents, body : {"part", "whole"},
           disk : {"cached", "synced"}, fd : Procs \cup {Nobody}]

ASSUME ConstantsOK == /\ Kinds \subseteq {"new", "overwrite"}
                      /\ Faults \subseteq FaultKinds
                      /\ OneNamespace \in BOOLEAN
                      /\ NoFile \notin Inodes
                      /\ NoFile \notin Contents
                      /\ NoJob \notin Jobs
                      /\ Nobody \notin Procs

VARIABLES file,   \* file[path]: what the destination names
          tmp,    \* tmp[<<path, pid>>]: what ".<path>.tmp-<pid>" names
          pid,    \* pid[p]: the process id of p
          pc,     \* pc[p]: where p is
          job     \* job[p]: the arguments of its call

fileVars == <<file, tmp, pid, pc, job>>

Working == {"check", "open", "write", "sync", "rename", "cleanup"}
Places  == Working \cup {"dead", "idle", "ok", "err"}
TmpKeys == Paths \X Pids

TypeOK == /\ file \in [Paths -> Inodes \cup {NoFile}]
          /\ tmp \in [TmpKeys -> Inodes \cup {NoFile}]
          /\ pid \in [Procs -> Pids]
          /\ pc \in [Procs -> Places]
          /\ job \in [Procs -> Jobs \cup {NoJob}]

TmpOf(p) == <<job[p].path, pid[p]>>
Live(p)  == pc[p] # "dead"

Goto(p, place) == pc' = [pc EXCEPT ![p] = place]

\* The directory d after p wrote through its descriptor, or closed it.  A
\* descriptor follows its file wherever that was renamed; a file that is in
\* no directory any more is out of sight.
Holds(p, i) == i # NoFile /\ i.fd = p

WriteThrough(p, d) ==
  [k \in DOMAIN d |-> IF Holds(p, d[k]) THEN [d[k] EXCEPT !.body = "whole"] ELSE d[k]]
CloseAll(p, d) ==
  [k \in DOMAIN d |-> IF Holds(p, d[k]) THEN [d[k] EXCEPT !.fd = Nobody] ELSE d[k]]
SyncThrough(p, d) ==
  [k \in DOMAIN d |-> IF Holds(p, d[k]) THEN [d[k] EXCEPT !.disk = "synced"] ELSE d[k]]

OnDisk(c) == [data |-> c, body |-> "whole", disk |-> "synced", fd |-> Nobody]

\* Destinations hold nothing, or what an earlier call left; no process runs.
FileInit == /\ file \in [Paths -> {NoFile} \cup {OnDisk(c) : c \in Contents}]
            /\ tmp = [k \in TmpKeys |-> NoFile]
            /\ pid \in [Procs -> Pids]
            /\ pc = [p \in Procs |-> "dead"]
            /\ job = [p \in Procs |-> NoJob]

-----------------------------------------------------------------------------
\* A process starts, with an id no live process of its namespace has.
Spawn(p) == /\ pc[p] = "dead"
            /\ \E n \in Pids :
                 /\ OneNamespace => \A q \in Procs : Live(q) => pid[q] # n
                 /\ pid' = [pid EXCEPT ![p] = n]
            /\ Goto(p, "idle")
            /\ UNCHANGED <<file, tmp, job>>

\* Mutant: dispatch on the name of the entry point itself.
Begin_ByKind(p, j) == /\ pc[p] = "idle"
                      /\ job' = [job EXCEPT ![p] = j]
                      /\ Goto(p, j.kind)
                      /\ UNCHANGED <<file, tmp, pid>>

\* A call of write_new_atomic or of write_atomic_overwrite.
Begin(p, j) == /\ pc[p] = "idle"
               /\ job' = [job EXCEPT ![p] = j]
               /\ Goto(p, IF j.kind = "new" THEN "check" ELSE "open")
               /\ UNCHANGED <<file, tmp, pid>>

\* Mutant: no check for an existing file.
CheckNew_Unchecked(p) == /\ pc[p] = "check"
                         /\ Goto(p, "open")
                         /\ UNCHANGED <<file, tmp, pid, job>>

\* path.exists(), in write_new_atomic only.
CheckNew(p) == /\ pc[p] = "check"
               /\ Goto(p, IF file[job[p].path] # NoFile THEN "err" ELSE "open")
               /\ UNCHANGED <<file, tmp, pid, job>>

\* create_new(true): only where the name is free.
CreateTmp(p) ==
  /\ pc[p] = "open"
  /\ tmp[TmpOf(p)] = NoFile
  /\ tmp' = [tmp EXCEPT ![TmpOf(p)] =
       [data |-> job[p].data, body |-> "part", disk |-> "cached", fd |-> p]]
  /\ Goto(p, "write")
  /\ UNCHANGED <<file, pid, job>>

\* Mutant: a leftover file of the same name is taken for the own one.
CreateFails_Reuses(p) == /\ pc[p] = "open"
                         /\ tmp[TmpOf(p)] # NoFile \/ "open" \in Faults
                         /\ Goto(p, "rename")
                         /\ UNCHANGED <<file, tmp, pid, job>>

\* Mutant: the error of open returns at once, without the removal.
CreateFails_Leaves(p) == /\ pc[p] = "open"
                         /\ tmp[TmpOf(p)] # NoFile \/ "open" \in Faults
                         /\ Goto(p, "err")
                         /\ UNCHANGED <<file, tmp, pid, job>>

CreateFails(p) == /\ pc[p] = "open"
                  /\ tmp[TmpOf(p)] # NoFile \/ "open" \in Faults
                  /\ Goto(p, "cleanup")
                  /\ UNCHANGED <<file, tmp, pid, job>>

WriteTmp(p) == /\ pc[p] = "write"
               /\ tmp' = WriteThrough(p, tmp)
               /\ file' = WriteThrough(p, file)
               /\ Goto(p, "sync")
               /\ UNCHANGED <<pid, job>>

\* write_all gave up part of the way; leaving the closure closes the file.
WriteFails(p) == /\ pc[p] = "write"
                 /\ "write" \in Faults
                 /\ tmp' = CloseAll(p, tmp)
                 /\ file' = CloseAll(p, file)
                 /\ Goto(p, "cleanup")
                 /\ UNCHANGED <<pid, job>>

\* Mutant: no sync before the rename.
SyncTmp_NoSync(p) == /\ pc[p] = "sync"
                     /\ tmp' = CloseAll(p, tmp)
                     /\ file' = CloseAll(p, file)
                     /\ Goto(p, "rename")
                     /\ UNCHANGED <<pid, job>>

\* sync_all().ok(): whatever it answers, the call goes on to the rename.
SyncTmp(p) ==
  /\ pc[p] = "sync"
  /\ \/ /\ tmp' = CloseAll(p, SyncThrough(p, tmp))
        /\ file' = CloseAll(p, SyncThrough(p, file))
     \/ /\ "sync" \in Faults
        /\ tmp' = CloseAll(p, tmp)
        /\ file' = CloseAll(p, file)
  /\ Goto(p, "rename")
  /\ UNCHANGED <<pid, job>>

\* The error path: remove_file, its own failure ignored.  It removes the
\* name, whoever created the file behind it.
RemoveTmp(p) ==
  /\ pc[p] = "cleanup"
  /\ \/ tmp' = [tmp EXCEPT ![TmpOf(p)] = NoFile]
     \/ "remove" \in Faults /\ UNCHANGED tmp
  /\ Goto(p, "err")
  /\ UNCHANGED <<file, pid, job>>

RenameTmp(p) == /\ pc[p] = "rename"
                /\ tmp[TmpOf(p)] # NoFile
                /\ file' = [file EXCEPT ![job[p].path] = tmp[TmpOf(p)]]
                /\ tmp' = [tmp EXCEPT ![TmpOf(p)] = NoFile]
                /\ Goto(p, "ok")
                /\ UNCHANGED <<pid, job>>

\* No cleanup on this path: the temporary file stays.
RenameFails(p) == /\ pc[p] = "rename"
                  /\ tmp[TmpOf(p)] = NoFile \/ "rename" \in Faults
                  /\ Goto(p, "err")
                  /\ UNCHANGED <<file, tmp, pid, job>>

Return(p) == /\ pc[p] \in {"ok", "err"}
             /\ job' = [job EXCEPT ![p] = NoJob]
             /\ Goto(p, "idle")
             /\ UNCHANGED <<file, tmp, pid>>

Exit(p) == /\ pc[p] = "idle"
           /\ Goto(p, "dead")
           /\ UNCHANGED <<file, tmp, pid, job>>

\* The process dies: its descriptor closes, its temporary file stays.
Crash(p) == /\ "crash" \in Faults
            /\ Live(p)
            /\ tmp' = CloseAll(p, tmp)
            /\ file' = CloseAll(p, file)
            /\ job' = [job EXCEPT ![p] = NoJob]
            /\ Goto(p, "dead")
            /\ UNCHANGED pid

\* Directory entries survive (metadata is journalled in order); of a file
\* that was not synced any part may be missing afterwards.
Unsynced(d) == {k \in DOMAIN d : d[k] # NoFile /\ d[k].disk = "cached"}
AfterPower(d, torn) ==
  [k \in DOMAIN d |->
     IF d[k] = NoFile THEN NoFile
     ELSE [data |-> d[k].data, body |-> IF k \in torn THEN "part" ELSE d[k].body,
           disk |-> "synced", fd |-> Nobody]]

PowerLoss == /\ "power" \in Faults
             /\ \E torn \in SUBSET Unsynced(file) : file' = AfterPower(file, torn)
             /\ \E torn \in SUBSET Unsynced(tmp) : tmp' = AfterPower(tmp, torn)
             /\ pc' = [p \in Procs |-> "dead"]
             /\ job' = [p \in Procs |-> NoJob]
             /\ UNCHANGED pid

-----------------------------------------------------------------------------
\* The steps of the call p has in progress.
CallStep(p) == \/ CheckNew(p) \/ CreateTmp(p) \/ CreateFails(p)
               \/ WriteTmp(p) \/ WriteFails(p) \/ SyncTmp(p)
               \/ RemoveTmp(p) \/ RenameTmp(p) \/ RenameFails(p)

Invoke(p) == \E j \in Jobs : Begin(p, j)

Next == \/ \E p \in Procs : Spawn(p) \/ Invoke(p) \/ CallStep(p)
                              \/ Return(p) \/ Exit(p) \/ Crash(p)
        \/ PowerLoss

Spec == FileInit /\ [][Next]_fileVars
-----------------------------------------------------------------------------
\* "A reader never observes a partially-written file" (keys.rs, both entry
\* points): every published destination holds all of its content, through
\* failures, crashes with process ids reused, and power loss.
Untorn == \A path \in Paths : file[path] # NoFile => file[path].body = "whole"

\* keys.rs as a register: what a reader of a path finds, and what a call
\* answered.
Torn  == <<"torn", NoFile>>
Shown == [path \in Paths |-> IF file[path] = NoFile THEN NoFile
                             ELSE IF file[path].body = "whole" THEN file[path].data
                             ELSE Torn]
Answer == [p \in Procs |-> IF pc[p] \in {"ok", "err"} THEN pc[p] ELSE "none"]

Register == INSTANCE FileRegister WITH value <- Shown, call <- job, answer <- Answer

\* Each call publishes all of its own content, at its own path, at most once
\* and exactly when it answers "ok", whatever the others do meanwhile.
ImplementsRegister == Register!Spec

-----------------------------------------------------------------------------
\* A system call of p fails on its own, not for what is in the directory.
CallFault(p) == \/ WriteFails(p)
                \/ CreateFails(p) /\ tmp[TmpOf(p)] = NoFile
                \/ RemoveTmp(p) /\ tmp[TmpOf(p)] # NoFile /\ UNCHANGED tmp
                \/ RenameFails(p) /\ tmp[TmpOf(p)] # NoFile
=============================================================================
