---------------------------- MODULE FileRegister ----------------------------
(***************************************************************************)
(* What keys.rs promises of write_new_atomic and write_atomic_overwrite:   *)
(* each path is a register.  A call replaces the whole content of its path *)
(* in one indivisible step and answers "ok", or leaves the path alone and  *)
(* answers "err"; a caller that dies has either published or not.  There   *)
(* is no state in which a reader could see part of a content.              *)
(***************************************************************************)
CONSTANTS Procs,      \* the processes that call
          Paths,      \* the destination paths
          Contents,   \* what may be written
          Kinds,      \* the entry points in use: "new", "overwrite"
          NoFile,     \* the value of a path nothing was published at
          NoJob       \* a process with no call in progress

VARIABLES value,      \* value[path]: the content a reader finds
          call,       \* call[p]: the call p has in progress
          answer      \* answer[p]: what it answered, "none" before

vars == <<value, call, answer>>

Jobs == [path : Paths, data : Contents, kind : Kinds]

Init == /\ value \in [Paths -> Contents \cup {NoFile}]
        /\ call = [p \in Procs |-> NoJob]
        /\ answer = [p \in Procs |-> "none"]

Invoke(p) == /\ call[p] = NoJob
             /\ \E j \in Jobs : call' = [call EXCEPT ![p] = j]
             /\ UNCHANGED <<value, answer>>

Commit(p) == /\ call[p] # NoJob
             /\ answer[p] = "none"
             /\ value' = [value EXCEPT ![call[p].path] = call[p].data]
             /\ answer' = [answer EXCEPT ![p] = "ok"]
             /\ UNCHANGED call

Refuse(p) == /\ call[p] # NoJob
             /\ answer[p] = "none"
             /\ answer' = [answer EXCEPT ![p] = "err"]
             /\ UNCHANGED <<value, call>>

\* The callers in S take their answers, or die.
Forget(S) == /\ call' = [p \in Procs |-> IF p \in S THEN NoJob ELSE call[p]]
             /\ answer' = [p \in Procs |-> IF p \in S THEN "none" ELSE answer[p]]
             /\ UNCHANGED value

Next == \/ \E p \in Procs : Invoke(p) \/ Commit(p) \/ Refuse(p)
        \/ \E S \in SUBSET Procs : Forget(S)

Spec == Init /\ [][Next]_vars
=============================================================================
