------------------------------- MODULE MCLive -------------------------------
(* Small instances of the processes and of the log, under fairness.  They  *)
(* share no variable: a behaviour is one of one of them, with the other at *)
(* rest.                                                                   *)
EXTENDS Proc

CONSTANTS p1, p2, d1, c1
CONSTANTS Procs, Data, NoBuf, MAXOPBLOCKS, LOGSIZE, LogStart, LogSize, FSSize, OpWrites

VARIABLES disk, head, cache, dirty, lh, outstanding, committing, lpc, held, nw, tail, boot
VARIABLE part

L == INSTANCE Log WITH pc <- lpc
logVars == <<disk, head, cache, dirty, lh, outstanding, committing, lpc, held, nw, tail, boot>>

\* Which component moves, and that the other does not.
Processes == part = "proc" /\ UNCHANGED <<part, logVars>>
Logging == part = "log" /\ UNCHANGED <<part, vars>>

LiveInit == part \in {"proc", "log"} /\ Init /\ L!Init
LiveNext == (Processes /\ Next) \/ (Logging /\ L!Next)
liveVars == <<part, vars, logVars>>

\* A CPU that spins gets the lock if it is free often enough, a process in
\* the kernel goes on, interrupts do not hold up the return to user mode for
\* ever, and a clock interrupt masked when it came is taken later.
FairProcesses ==
    /\ \A c \in CPUs : /\ SF_liveVars(Processes /\ Scheduler(c))
                       /\ SF_liveVars(Processes /\ \E p \in Slots : timer(c, p))
    /\ \A p \in Slots : /\ SF_liveVars(Processes /\ \E c \in CPUs : Thread(c, p))
                        /\ SF_liveVars(Processes /\ \E c \in CPUs : trapret(c, p))

\* The scheduler runs every runnable process and the disk answers every
\* request, so a process inside a call, and recovery, keep going.
FairLog ==
    /\ \A p \in Procs : WF_liveVars(Logging /\ L!Proceed(p))
    /\ WF_liveVars(Logging /\ L!Recover)

BothSpec == LiveInit /\ [][LiveNext]_liveVars /\ FairProcesses /\ FairLog

\* Nobody sleeps in begin_op() for ever: end_op()'s wakeups reach it.
SleeperWakes == L!SleeperWakes
=============================================================================
