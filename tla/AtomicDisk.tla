----------------------------- MODULE AtomicDisk -----------------------------
(* What the log promises to the file system above it (log.c:9-22): the     *)
(* updates of a group of system calls reach the disk together, at a moment *)
(* when no call is active, and a crash leaves exactly the last such state. *)
CONSTANTS Procs, Blocks, Data

VARIABLES active,    \* the processes between begin_op() and end_op()
          current,   \* what a bread() of each block returns
          durable    \* what each block holds once a crash has been recovered

vars == <<active, current, durable>>

Init ==
    /\ active = {}
    /\ durable \in [Blocks -> Data]
    /\ current = durable

Begin(p) ==
    /\ p \notin active
    /\ active' = active \union {p}
    /\ UNCHANGED <<current, durable>>

Write(p, b, v) ==
    /\ p \in active
    /\ current' = [current EXCEPT ![b] = v]
    /\ UNCHANGED <<active, durable>>

End(p) ==
    /\ p \in active
    /\ active' = active \ {p}
    /\ UNCHANGED <<current, durable>>

\* Group commit: everything written so far, by calls that have all ended.
Commit ==
    /\ active = {}
    /\ durable' = current
    /\ UNCHANGED <<active, current>>

Crash ==
    /\ active' = {}
    /\ current' = durable
    /\ UNCHANGED durable

Next ==
    \/ \E p \in Procs : Begin(p) \/ End(p)
    \/ \E p \in Procs, b \in Blocks, v \in Data : Write(p, b, v)
    \/ Commit
    \/ Crash

Spec == Init /\ [][Next]_vars
=============================================================================
