----------------------------- MODULE ProcProofs -----------------------------
(***************************************************************************)
(* The scheduler, sleep and wakeup, and the life of a process are safe for *)
(* any number of CPUs and of slots.                                        *)
(*                                                                         *)
(* None of the seven properties is inductive.  What they rest on is who    *)
(* has ptable.lock: a CPU has it just while it is in the scheduler's loop  *)
(* or runs a thread that is between yield(), sleep() or exit() and sched(),*)
(* or between swtch() and the release that follows.  So a process that is  *)
(* about to leave its CPU, whose state says RUNNABLE, SLEEPING or ZOMBIE   *)
(* already, cannot be met by anybody else.                                 *)
(***************************************************************************)
EXTENDS Proc, TLAPS

\* Where a thread goes on after swtch(), and where it runs without
\* ptable.lock.
Resumes == {"forkret", "yield_back", "kyield_back", "sleep_back", "wait_back"}
Goes == {"trapret", "user", "ret", "yield", "kyield", "iret", "kiret",
         "fork", "fork_copy", "fork_publish", "exit", "wait", "kill",
         "lock", "sleep", "locked", "wakeup"}
Forking == {"fork_copy", "fork_publish"}
Plain == Goes \ (Forking \cup {"sleep", "locked", "wakeup"})
Holds == Resumes \cup SchedLocs

States == {"UNUSED", "EMBRYO", "RUNNABLE", "RUNNING", "SLEEPING", "ZOMBIE"}

ProcTypeOK ==
    /\ ptable \in CPUs \cup {None} /\ slk \in CPUs \cup {None} /\ locked \in Slots \cup {None}
    /\ eflags \in [CPUs -> 0 .. 1] /\ ncli \in [CPUs -> Nat] /\ intena \in [CPUs -> 0 .. 1]
    /\ proc \in [CPUs -> Slots \cup {None}]
    /\ at \in [CPUs -> {"top", "scan", "swtch", "hlt"}]
    /\ slot \in [CPUs -> 1 .. NPROC + 1] /\ skipped \in [CPUs -> Nat]
    /\ state \in [Slots -> States]
    /\ chan \in [Slots -> Slots \cup {LK, None}]
    /\ killed \in [Slots -> 0 .. 1] /\ saved \in [Slots -> 0 .. 1]
    /\ parent \in [Slots -> Slots \cup {None}]
    /\ child \in [Slots -> Slots \cup {None}]
    /\ pc \in [Slots -> Goes \cup Holds \cup {"none", "zombie"}]

\* What a CPU that runs a process has, by where the process is.
CpuInv ==
    \A c \in CPUs :
        /\ proc[c] = None => /\ at[c] # "swtch"
                             /\ ptable = c <=> at[c] = "scan"
                             /\ slk # c
        /\ proc[c] # None => /\ at[c] = "swtch"
                             /\ ptable = c <=> pc[proc[c]] \in Holds
                             /\ slk = c <=> pc[proc[c]] \in {"sleep", "wakeup"}
                             /\ state[proc[c]] = "RUNNING" \/ pc[proc[c]] \in SchedLocs
        /\ ncli[c] = IF ptable = c \/ slk = c THEN 1 ELSE 0
        /\ ncli[c] = 1 => eflags[c] = 0

\* No process is on two CPUs.
OneCpu == \A c, d \in CPUs : proc[c] = proc[d] /\ proc[c] # None => c = d

\* A thread that holds a lock is on the CPU that has it.
LockInv ==
    \A p \in Slots :
        /\ pc[p] \in SchedLocs => ptable \in CPUs /\ proc[ptable] = p
        /\ pc[p] \in {"sleep", "wakeup"} => slk \in CPUs /\ proc[slk] = p

\* A round that ends in hlt began with sti.
HaltInv ==
    \A c \in CPUs :
        /\ at[c] = "scan" => intena[c] = 1 \/ skipped[c] < slot[c]
        /\ at[c] = "swtch" => skipped[c] = 0 /\ slot[c] <= NPROC
        /\ at[c] = "hlt" => eflags[c] = 1

\* What the state of a process says about its thread.
ThreadInv ==
    \A p \in Slots :
        /\ state[p] = "UNUSED" => pc[p] = "none"
        /\ state[p] = "EMBRYO" => pc[p] \in {"none", "forkret"}
        /\ state[p] = "RUNNABLE" => pc[p] \in Resumes \cup {"yield_sched", "kyield_sched"}
        /\ state[p] = "RUNNING" => pc[p] \in Goes \cup Resumes
        /\ state[p] = "SLEEPING" => pc[p] \in {"sleep_sched", "sleep_back", "wait_sched", "wait_back"}
        /\ state[p] = "ZOMBIE" => pc[p] \in {"exit_sched", "zombie"}

\* A channel is set from the call of sleep() to its return.
ChanInv ==
    \A p \in Slots :
        chan[p] = IF pc[p] \in {"wait_sched", "wait_back"} THEN p
                  ELSE IF pc[p] \in {"sleep_sched", "sleep_back"} THEN LK ELSE None

\* A child being made belongs to its maker alone.
ForkInv ==
    \A p \in Slots :
        /\ pc[p] \in Forking => /\ child[p] \in Slots
                                /\ state[child[p]] = "EMBRYO"
                                /\ \A q \in Slots : pc[q] \in Forking /\ child[q] = child[p] => p = q
        /\ pc[p] = "fork_copy" => pc[child[p]] = "none" /\ parent[child[p]] = None
        /\ pc[p] = "fork_publish" => pc[child[p]] = "forkret"

\* A free slot has no parent, nobody is his own, and init is never a zombie.
FamilyInv ==
    /\ \A p \in Slots : state[p] = "UNUSED" => parent[p] = None
    /\ \A p \in Slots : parent[p] # p
    /\ state[initproc] \notin {"UNUSED", "EMBRYO", "ZOMBIE"}
    /\ parent[initproc] = None

\* Whoever is about to sleep on the lock has seen it taken, and it still is.
SleepInv == \A p \in Slots : pc[p] = "sleep" => locked # None

ProcInv ==
    /\ ProcTypeOK /\ CpuInv /\ OneCpu /\ LockInv /\ HaltInv /\ ThreadInv /\ ChanInv
    /\ ForkInv /\ FamilyInv /\ SleepInv
    /\ SleepLockExclusive /\ SleepMissesNoWakeup /\ KillMissesNoSleeper /\ WaitMissesNoExit

-----------------------------------------------------------------------------
LEMMA Constants ==
    /\ None \notin Slots /\ None \notin CPUs /\ LK \notin Slots /\ LK # None
    /\ initproc \in Slots
    BY ProcAssumption DEF Slots, LK, initproc

-----------------------------------------------------------------------------
\* A step of a thread that runs without a lock and goes on without one.
Moves(c, p) ==
    /\ at[c] = "swtch" /\ proc[c] = p /\ pc[p] \in Plain
    /\ pc' = [pc EXCEPT ![p] = pc'[p]] /\ pc'[p] \in Plain
    /\ eflags' = [eflags EXCEPT ![c] = eflags'[c]] /\ eflags'[c] \in 0 .. 1
    /\ intena' = [intena EXCEPT ![c] = intena'[c]] /\ intena'[c] \in 0 .. 1
    /\ killed' = [killed EXCEPT ![p] = killed'[p]] /\ killed'[p] \in 0 .. 1
    /\ UNCHANGED <<locks, ncli, sched_v, state, chan, parent, saved, child>>

\* A thread that swtch() came back to releases ptable.lock.
Releases(c, p) ==
    /\ at[c] = "swtch" /\ proc[c] = p /\ pc[p] \in Resumes
    /\ pc' = [pc EXCEPT ![p] = pc'[p]] /\ pc'[p] \in Plain
    /\ ptable' = None
    /\ \E i \in 0 .. 1 : popcli(c, i)
    /\ chan' = [chan EXCEPT ![p] = None]
    /\ UNCHANGED <<slk, locked, sched_v, state, killed, parent, saved, child>>

\* wait() with a zombie: its slot is freed and the lock is released.
Reaps(c, p, q) ==
    /\ at[c] = "swtch" /\ proc[c] = p /\ pc[p] \in {"wait", "wait_back"}
    /\ ptable \in {None, c} /\ ptable' = None
    /\ state[q] = "ZOMBIE" /\ pc[q] = "zombie" /\ parent[q] = p
    /\ state' = [state EXCEPT ![q] = "UNUSED"]
    /\ parent' = [parent EXCEPT ![q] = None]
    /\ killed' = [killed EXCEPT ![q] = 0]
    /\ pc' = [pc EXCEPT ![p] = "ret", ![q] = "none"]
    /\ eflags' = [eflags EXCEPT ![c] = eflags'[c]] /\ eflags'[c] \in 0 .. 1
    /\ intena' = [intena EXCEPT ![c] = intena'[c]] /\ intena'[c] \in 0 .. 1
    /\ ncli' = [ncli EXCEPT ![c] = 0]
    /\ chan' = [chan EXCEPT ![p] = None]
    /\ UNCHANGED <<slk, locked, sched_v, saved, child>>

\* wait() without one: the parent is asleep, and still has the lock.
WaitSleeps(c, p) ==
    /\ at[c] = "swtch" /\ proc[c] = p /\ pc[p] \in {"wait", "wait_back"}
    /\ ptable \in {None, c} /\ ptable' = c
    /\ Zombies(p) = {} /\ Kids(p) # {} /\ killed[p] = 0
    /\ state' = [state EXCEPT ![p] = "SLEEPING"]
    /\ pc' = [pc EXCEPT ![p] = "wait_sched"]
    /\ eflags' = [eflags EXCEPT ![c] = 0]
    /\ intena' = [intena EXCEPT ![c] = intena'[c]] /\ intena'[c] \in 0 .. 1
    /\ ncli' = [ncli EXCEPT ![c] = 1]
    /\ chan' = [chan EXCEPT ![p] = p]
    /\ UNCHANGED <<slk, locked, sched_v, killed, parent, saved, child>>

\* Nobody else can tell that such a step was taken.
LEMMA PlainMove ==
    ASSUME ProcInv, NEW c \in CPUs, NEW p \in Slots, Moves(c, p)
    PROVE  ProcInv'
<1>0. PICK l \in Plain, e \in 0 .. 1, i \in 0 .. 1, k \in 0 .. 1 :
        /\ at[c] = "swtch" /\ proc[c] = p /\ pc[p] \in Plain /\ pc' = [pc EXCEPT ![p] = l]
        /\ eflags' = [eflags EXCEPT ![c] = e] /\ intena' = [intena EXCEPT ![c] = i]
        /\ killed' = [killed EXCEPT ![p] = k]
        /\ UNCHANGED <<locks, ncli, sched_v, state, chan, parent, saved, child>>
    BY DEF Moves
<1>1. ProcTypeOK'
    BY Zenon, <1>0
       DEF ProcInv, ProcTypeOK, locks, sched_v, Plain, States, Goes, Holds, Resumes, SchedLocs
<1>2. CpuInv'
    BY <1>0
       DEF ProcInv, CpuInv, locks, sched_v, Resumes, Goes, Holds, SchedLocs, Plain, ProcTypeOK,
           States
<1>3. OneCpu' /\ LockInv'
    BY <1>0
       DEF ProcInv, OneCpu, LockInv, locks, sched_v, Goes, SchedLocs, Plain, ProcTypeOK,
           States, Holds, Resumes
<1>4. HaltInv'
    BY Zenon, <1>0 DEF ProcInv, HaltInv, sched_v, ProcTypeOK, States, Goes, Holds, Resumes, SchedLocs
<1>5. ThreadInv' /\ ChanInv'
    BY <1>0
       DEF ProcInv, ThreadInv, ChanInv, Resumes, Goes, Plain, ProcTypeOK, States, Holds,
           SchedLocs
<1>6. ForkInv' /\ FamilyInv'
    BY <1>0
       DEF ProcInv, ForkInv, FamilyInv, Goes, Forking, Plain, ProcTypeOK, States, Holds,
           Resumes, SchedLocs
<1>7. SleepInv' /\ SleepLockExclusive' /\ SleepMissesNoWakeup'
    BY <1>0
       DEF ProcInv, SleepInv, SleepLockExclusive, SleepMissesNoWakeup, locks, Plain,
           ProcTypeOK, States, Goes, Holds, Resumes, SchedLocs
<1>8. KillMissesNoSleeper' /\ WaitMissesNoExit'
    BY <1>0
       DEF ProcInv, ThreadInv, KillMissesNoSleeper, WaitMissesNoExit, Kids, Zombies, Goes,
           Plain, ProcTypeOK, States, Holds, Resumes, SchedLocs
<1> QED
    BY Zenon, <1>1, <1>2, <1>3, <1>4, <1>5, <1>6, <1>7, <1>8 DEF ProcInv

LEMMA Released ==
    ASSUME ProcInv, NEW c \in CPUs, NEW p \in Slots, Releases(c, p)
    PROVE  ProcInv'
<1>0. PICK l \in Plain, i \in 0 .. 1 :
        /\ at[c] = "swtch" /\ proc[c] = p /\ pc[p] \in Resumes /\ pc' = [pc EXCEPT ![p] = l]
        /\ ptable' = None /\ popcli(c, i) /\ chan' = [chan EXCEPT ![p] = None]
        /\ UNCHANGED <<slk, locked, sched_v, state, killed, parent, saved, child>>
    BY Zenon DEF Releases
<1>1. ProcTypeOK'
    BY <1>0
       DEF ProcInv, ProcTypeOK, CpuInv, popcli, sched_v, Holds, Plain, States, Goes, Resumes,
           SchedLocs
<1>2. CpuInv'
    BY <1>0, Constants
       DEF ProcInv, ProcTypeOK, CpuInv, popcli, sched_v, Resumes, Goes, Holds, SchedLocs,
           Plain, States
<1>3. OneCpu' /\ LockInv'
    BY <1>0
       DEF ProcInv, CpuInv, OneCpu, LockInv, sched_v, Resumes, Goes, Holds, SchedLocs, Plain,
           ProcTypeOK, States
<1>4. HaltInv'
    BY Zenon, <1>0
       DEF ProcInv, HaltInv, popcli, sched_v, ProcTypeOK, States, Goes, Holds, Resumes,
           SchedLocs
<1>5. ThreadInv' /\ ChanInv'
    BY <1>0
       DEF ProcInv, ProcTypeOK, CpuInv, ThreadInv, ChanInv, Resumes, Goes, SchedLocs, Plain,
           States, Holds
<1>6. ForkInv' /\ FamilyInv'
    BY <1>0
       DEF ProcInv, CpuInv, ForkInv, FamilyInv, Forking, SchedLocs, Plain, ProcTypeOK, States,
           Goes, Holds, Resumes
<1>7. SleepInv' /\ SleepLockExclusive' /\ SleepMissesNoWakeup'
    BY <1>0, Constants
       DEF ProcInv, SleepInv, SleepLockExclusive, SleepMissesNoWakeup, Resumes, Plain,
           ProcTypeOK, States, Goes, Holds, SchedLocs
<1>8. KillMissesNoSleeper' /\ WaitMissesNoExit'
    BY <1>0
       DEF ProcInv, CpuInv, KillMissesNoSleeper, WaitMissesNoExit, Kids, Zombies, Resumes,
           SchedLocs, ProcTypeOK, States, Goes, Holds
<1> QED
    BY Zenon, <1>1, <1>2, <1>3, <1>4, <1>5, <1>6, <1>7, <1>8 DEF ProcInv

LEMMA Reaped ==
    ASSUME ProcInv, NEW c \in CPUs, NEW p \in Slots, NEW q \in Slots, Reaps(c, p, q)
    PROVE  ProcInv'
<1>0. PICK e \in 0 .. 1, i \in 0 .. 1 :
        /\ at[c] = "swtch" /\ proc[c] = p /\ pc[p] \in {"wait", "wait_back"}
        /\ ptable \in {None, c} /\ ptable' = None
        /\ state[q] = "ZOMBIE" /\ pc[q] = "zombie" /\ parent[q] = p
        /\ state' = [state EXCEPT ![q] = "UNUSED"]
        /\ parent' = [parent EXCEPT ![q] = None]
        /\ killed' = [killed EXCEPT ![q] = 0]
        /\ pc' = [pc EXCEPT ![p] = "ret", ![q] = "none"]
        /\ eflags' = [eflags EXCEPT ![c] = e] /\ intena' = [intena EXCEPT ![c] = i]
        /\ ncli' = [ncli EXCEPT ![c] = 0] /\ chan' = [chan EXCEPT ![p] = None]
        /\ UNCHANGED <<slk, locked, sched_v, saved, child>>
    BY Zenon DEF Reaps
<1>1. ProcTypeOK'
    BY <1>0, Constants
       DEF ProcInv, ProcTypeOK, locks, sched_v, Resumes, Goes, Forking, Holds, States,
           SchedLocs
<1>2. CpuInv'
    BY <1>0, Constants
       DEF ProcInv, ProcTypeOK, CpuInv, OneCpu, LockInv, ThreadInv, locks, sched_v, Resumes,
           Goes, Forking, Holds, States, SchedLocs
<1>3. OneCpu' /\ LockInv'
    BY <1>0, Constants
       DEF ProcInv, ProcTypeOK, CpuInv, OneCpu, LockInv, locks, sched_v, Resumes, Goes,
           Forking, Holds, States, SchedLocs
<1>4. HaltInv'
    BY Zenon, <1>0
       DEF ProcInv, ProcTypeOK, HaltInv, locks, sched_v, Resumes, Goes, Forking, Holds, States,
           SchedLocs
<1>5. ThreadInv' /\ ChanInv'
    BY <1>0, Constants
       DEF ProcInv, ProcTypeOK, CpuInv, LockInv, ThreadInv, ChanInv, locks, sched_v, Resumes,
           Goes, Forking, Holds, States, SchedLocs
<1>6. ForkInv' /\ FamilyInv'
    BY <1>0, Constants
       DEF ProcInv, ProcTypeOK, CpuInv, ThreadInv, ForkInv, FamilyInv, locks, sched_v, Resumes,
           Goes, Forking, Holds, States, SchedLocs
<1>7. SleepInv' /\ SleepLockExclusive' /\ SleepMissesNoWakeup'
    BY <1>0, Constants
       DEF ProcInv, ProcTypeOK, ThreadInv, SleepInv, SleepLockExclusive, ChanInv,
           SleepMissesNoWakeup, locks, sched_v, Resumes, Goes, Forking, Holds, States,
           SchedLocs
<1>8. KillMissesNoSleeper' /\ WaitMissesNoExit'
    BY <1>0, Constants
       DEF ProcInv, ProcTypeOK, ThreadInv, ChanInv, KillMissesNoSleeper, FamilyInv,
           WaitMissesNoExit, Kids, Zombies, ForkInv, locks, sched_v, Resumes, Goes, Forking,
           Holds, States, SchedLocs
<1> QED
    BY Zenon, <1>1, <1>2, <1>3, <1>4, <1>5, <1>6, <1>7, <1>8 DEF ProcInv

LEMMA WaitSlept ==
    ASSUME ProcInv, NEW c \in CPUs, NEW p \in Slots, WaitSleeps(c, p)
    PROVE  ProcInv'
<1>0. PICK i \in 0 .. 1 :
        /\ at[c] = "swtch" /\ proc[c] = p /\ pc[p] \in {"wait", "wait_back"}
        /\ ptable \in {None, c} /\ ptable' = c
        /\ Zombies(p) = {} /\ Kids(p) # {} /\ killed[p] = 0
        /\ state' = [state EXCEPT ![p] = "SLEEPING"]
        /\ pc' = [pc EXCEPT ![p] = "wait_sched"]
        /\ eflags' = [eflags EXCEPT ![c] = 0] /\ intena' = [intena EXCEPT ![c] = i]
        /\ ncli' = [ncli EXCEPT ![c] = 1] /\ chan' = [chan EXCEPT ![p] = p]
        /\ UNCHANGED <<slk, locked, sched_v, killed, parent, saved, child>>
    BY Zenon DEF WaitSleeps
<1>1. ProcTypeOK'
    BY Zenon, <1>0, Constants
       DEF ProcInv, ProcTypeOK, locks, sched_v, Resumes, Goes, Forking, Holds, States,
           SchedLocs
<1>2. CpuInv'
    BY <1>0, Constants
       DEF ProcInv, ProcTypeOK, CpuInv, OneCpu, LockInv, ThreadInv, locks, sched_v, Resumes,
           Goes, Forking, Holds, States, SchedLocs
<1>3. OneCpu' /\ LockInv'
    BY <1>0, Constants
       DEF ProcInv, ProcTypeOK, CpuInv, OneCpu, LockInv, locks, sched_v, Resumes, Goes,
           Forking, Holds, States, SchedLocs
<1>4. HaltInv'
    BY Zenon, <1>0
       DEF ProcInv, ProcTypeOK, HaltInv, locks, sched_v, Resumes, Goes, Forking, Holds, States,
           SchedLocs
<1>5. ThreadInv' /\ ChanInv'
    BY <1>0, Constants
       DEF ProcInv, ProcTypeOK, CpuInv, LockInv, ThreadInv, ChanInv, locks, sched_v, Resumes,
           Goes, Forking, Holds, States, SchedLocs
<1>6. ForkInv' /\ FamilyInv'
    BY <1>0, Constants
       DEF ProcInv, ProcTypeOK, CpuInv, ThreadInv, ForkInv, FamilyInv, locks, sched_v, Resumes,
           Goes, Forking, Holds, States, SchedLocs
<1>7. SleepInv' /\ SleepLockExclusive' /\ SleepMissesNoWakeup'
    BY <1>0, Constants
       DEF ProcInv, ProcTypeOK, ThreadInv, SleepInv, SleepLockExclusive, ChanInv,
           SleepMissesNoWakeup, locks, sched_v, Resumes, Goes, Forking, Holds, States,
           SchedLocs
<1>8. KillMissesNoSleeper' /\ WaitMissesNoExit'
    BY <1>0, Constants
       DEF ProcInv, ProcTypeOK, ThreadInv, ChanInv, KillMissesNoSleeper, FamilyInv,
           WaitMissesNoExit, Kids, Zombies, ForkInv, locks, sched_v, Resumes, Goes, Forking,
           Holds, States, SchedLocs
<1> QED
    BY Zenon, <1>1, <1>2, <1>3, <1>4, <1>5, <1>6, <1>7, <1>8 DEF ProcInv

-----------------------------------------------------------------------------
\* The steps outside every lock.
LEMMA Keeps_outside ==
    ASSUME ProcInv, NEW c \in CPUs, NEW p \in Slots,
           \/ trapret(c, p) \/ sysret(c, p) \/ timer(c, p) \/ fault(c, p) \/ iret(c, p)
           \/ kill_none(c, p) \/ (wait(c, p) /\ wait_none(p))
           \/ \E call \in Calls : syscall(c, p, call)
    PROVE  ProcInv'
<1> SUFFICES Moves(c, p)
    BY Zenon, PlainMove
<1>1. /\ eflags \in [CPUs -> 0 .. 1] /\ intena \in [CPUs -> 0 .. 1] /\ killed \in [Slots -> 0 .. 1]
      /\ pc \in [Slots -> Goes \cup Holds \cup {"none", "zombie"}]
    BY Zenon DEF ProcInv, ProcTypeOK
<1>2. CASE trapret(c, p) \/ iret(c, p)
    BY <1>1, <1>2 DEF Moves, trapret, iret, Runs, Goto, Plain, Goes, Forking, table
<1>3. CASE sysret(c, p)
    BY <1>1, <1>3 DEF Moves, sysret, Runs, Goto, Plain, Goes, Forking, table, cpuv
<1>4. CASE timer(c, p)
    BY <1>1, <1>4 DEF Moves, timer, Runs, Goto, Plain, Goes, Forking, table
<1>5. CASE fault(c, p)
    BY <1>1, <1>5 DEF Moves, fault, Runs, Goto, Plain, Goes, Forking
<1>6. CASE kill_none(c, p)
    BY Zenon, <1>1, <1>6 DEF Moves, kill_none, Section, Runs, Goto, Plain, Goes, Forking, table
<1>7. CASE wait(c, p) /\ wait_none(p)
    BY Zenon, <1>1, <1>7
       DEF Moves, wait, wait_none, wait_reap, wait_sleep, Section, Runs, Goto, Plain, Goes,
           Forking, locks
<1>8. ASSUME NEW call \in Calls, syscall(c, p, call)
      PROVE  Moves(c, p)
  <2>1. syscalls(call) \in {"fork", "exit", "wait", "kill", "lock", "ret"}
    BY Zenon, ProcAssumption DEF syscalls
  <2> QED
    BY <1>1, <1>8, <2>1 DEF Moves, syscall, Runs, Goto, Plain, Goes, Forking, table
<1> QED
    BY Zenon, <1>2, <1>3, <1>4, <1>5, <1>6, <1>7, <1>8

\* Back from swtch().
LEMMA Keeps_back ==
    ASSUME ProcInv, NEW c \in CPUs, NEW p \in Slots,
           \/ forkret(c, p) \/ yield_back(c, p) \/ sleep_back(c, p)
           \/ wait_back(c, p) /\ wait_none(p)
    PROVE  ProcInv'
<1> SUFFICES Releases(c, p)
    BY Zenon, Released
<1>1. /\ intena[c] \in 0 .. 1 /\ saved[p] \in 0 .. 1
      /\ pc \in [Slots -> Goes \cup Holds \cup {"none", "zombie"}]
      /\ chan \in [Slots -> Slots \cup {LK, None}]
    BY Zenon DEF ProcInv, ProcTypeOK
<1>2. CASE forkret(c, p)
  <2>1. chan[p] = None
    BY Zenon, <1>2 DEF ProcInv, ChanInv, forkret, Runs
  <2> QED
    BY Zenon, <1>1, <1>2, <2>1 DEF Releases, forkret, Runs, Goto, Resumes, Plain, Goes, Forking, table
<1>3. CASE yield_back(c, p)
  <2>1. chan[p] = None
    BY Zenon, <1>3 DEF ProcInv, ChanInv, yield_back, Runs
  <2> QED
    BY <1>1, <1>3, <2>1
       DEF Releases, yield_back, SchedReturn, Runs, Goto, Resumes, Plain, Goes, Forking, table
<1>4. CASE sleep_back(c, p)
    BY Zenon, <1>1, <1>4
       DEF Releases, sleep_back, SchedReturn, Runs, Goto, Resumes, Plain, Goes, Forking
<1>5. CASE wait_back(c, p) /\ wait_none(p)
    BY Zenon, <1>1, <1>5
       DEF Releases, wait_back, wait_none, wait_reap, wait_sleep, SchedReturn, Runs, Goto,
           Resumes, Plain, Goes, Forking
<1> QED
    BY Zenon, <1>2, <1>3, <1>4, <1>5

\* What wait() finds in its scan: a zombie that it may free, or none.
LEMMA Keeps_wait ==
    ASSUME ProcInv, NEW c \in CPUs, NEW p \in Slots, wait(c, p) \/ wait_back(c, p)
    PROVE  ProcInv'
<1>1. /\ eflags \in [CPUs -> 0 .. 1] /\ intena \in [CPUs -> 0 .. 1] /\ ncli \in [CPUs -> Nat]
      /\ saved[p] \in 0 .. 1 /\ chan \in [Slots -> Slots \cup {LK, None}]
      /\ at[c] = "swtch" /\ proc[c] = p /\ pc[p] \in {"wait", "wait_back"}
    BY Zenon DEF ProcInv, ProcTypeOK, wait, wait_back, Runs
<1>2. /\ ptable \in {None, c} /\ ncli[c] = (IF ptable = c THEN 1 ELSE 0)
      /\ ptable = c => eflags[c] = 0
      /\ pc[p] = "wait" => ptable = None /\ chan[p] = None
      /\ pc[p] = "wait_back" => ptable = c
  <2>1. pc[p] = "wait" => ptable # c /\ chan[p] = None
    BY Zenon, <1>1, Constants DEF ProcInv, CpuInv, ChanInv, Holds, Resumes, SchedLocs
  <2>2. pc[p] = "wait_back" => ptable = c
    BY Zenon, <1>1, Constants DEF ProcInv, CpuInv, Holds, Resumes
  <2>3. slk # c
    BY Zenon, <1>1, Constants DEF ProcInv, CpuInv
  <2>4. ncli[c] = (IF ptable = c THEN 1 ELSE 0) /\ (ptable = c => eflags[c] = 0)
    BY Zenon, <2>3 DEF ProcInv, CpuInv
  <2>5. pc[p] = "wait" => ptable = None
    BY Zenon, <1>1 DEF wait, wait_back, Runs, Section
  <2> QED
    BY Zenon, <1>1, <2>1, <2>2, <2>4, <2>5
<1>3. CASE wait_reap(p)
  <2>1. PICK q \in Zombies(p) :
          /\ state' = [state EXCEPT ![q] = "UNUSED"]
          /\ parent' = [parent EXCEPT ![q] = None]
          /\ killed' = [killed EXCEPT ![q] = 0]
          /\ pc' = [pc EXCEPT ![p] = "ret", ![q] = "none"]
    BY Zenon, <1>3 DEF wait_reap, Lowest
  <2>2. q \in Slots /\ parent[q] = p /\ state[q] = "ZOMBIE"
    BY Zenon DEF Zombies, Kids
  <2>3. pc[q] = "zombie"
    BY <1>1, <1>2, <2>2, Constants DEF ProcInv, ThreadInv, LockInv, SchedLocs
  <2>4. /\ ptable' = None /\ UNCHANGED <<slk, locked, sched_v, saved, child>>
        /\ chan' = [chan EXCEPT ![p] = None] /\ ncli' = [ncli EXCEPT ![c] = 0]
        /\ eflags' = [eflags EXCEPT ![c] = eflags'[c]] /\ eflags'[c] \in 0 .. 1
        /\ intena' = [intena EXCEPT ![c] = intena'[c]] /\ intena'[c] \in 0 .. 1
    <3>1. ~wait_sleep(p)
      BY Zenon, <2>2 DEF wait_sleep, Zombies, Kids
    <3>2. CASE wait(c, p)
      <4>1. /\ Section(c, ptable) /\ ncli[c] = 0 /\ chan[p] = None
            /\ UNCHANGED <<ptable, chan, slk, locked, sched_v, saved, child>>
        BY Zenon, <1>2, <3>1, <3>2, Constants DEF wait, Runs, Section
      <4> QED
        BY Zenon, <1>1, <4>1 DEF Section
    <3>3. CASE wait_back(c, p)
      <4>1. /\ SchedReturn(c, p) /\ ncli[c] = 1 /\ chan' = [chan EXCEPT ![p] = None]
            /\ UNCHANGED <<slk, locked, sched_v, saved, child>>
        BY Zenon, <1>2, <3>1, <3>3, Constants DEF wait_back, Runs
      <4> QED
        BY <1>1, <4>1 DEF SchedReturn, popcli
    <3> QED
      BY Zenon, <3>2, <3>3
  <2>5. Reaps(c, p, q)
    BY Zenon, <1>1, <1>2, <2>1, <2>2, <2>3, <2>4 DEF Reaps
  <2> QED
    BY Zenon, <2>2, <2>5, Reaped
<1>4. CASE wait_sleep(p)
  <2>1. ~wait_reap(p) /\ ~wait_none(p)
    BY <1>4 DEF wait_reap, Lowest, wait_sleep, wait_none
  <2>2. /\ ptable' = c /\ UNCHANGED <<slk, locked, sched_v, saved, child>>
        /\ chan' = [chan EXCEPT ![p] = p] /\ ncli' = [ncli EXCEPT ![c] = 1]
        /\ eflags' = [eflags EXCEPT ![c] = 0]
        /\ intena' = [intena EXCEPT ![c] = intena'[c]] /\ intena'[c] \in 0 .. 1
    <3>1. CASE wait(c, p)
      <4>1. /\ pushcli(c) /\ ncli[c] = 0 /\ ptable' = c /\ chan' = [chan EXCEPT ![p] = p]
            /\ UNCHANGED <<slk, locked, sched_v, saved, child>>
        BY Zenon, <1>2, <2>1, <3>1, Constants DEF wait, Runs
      <4> QED
        BY <1>1, <4>1 DEF pushcli
    <3>2. CASE wait_back(c, p)
      <4>1. /\ intena' = [intena EXCEPT ![c] = saved[p]] /\ chan' = [chan EXCEPT ![p] = p]
            /\ UNCHANGED <<ptable, eflags, ncli, slk, locked, sched_v, saved, child>>
            /\ ptable = c /\ ncli[c] = 1 /\ eflags[c] = 0
        BY Zenon, <1>2, <2>1, <3>2, Constants DEF wait_back, Runs
      <4> QED
        BY Zenon, <1>1, <4>1
    <3> QED
      BY Zenon, <3>1, <3>2
  <2>3. WaitSleeps(c, p)
    BY Zenon, <1>1, <1>2, <1>4, <2>2 DEF WaitSleeps, wait_sleep, Goto
  <2> QED
    BY Zenon, <2>3, WaitSlept
<1>5. CASE wait_none(p)
    BY Zenon, <1>5, Keeps_outside, Keeps_back
<1> QED
    BY Zenon, <1>3, <1>4, <1>5 DEF wait, wait_back

\* The scheduler's loop.
LEMMA Keeps_sched_acquire ==
    ASSUME ProcInv, NEW c \in CPUs, sched_acquire(c)
    PROVE  ProcInv'
<1>1. ProcTypeOK'
    BY ProcAssumption
       DEF ProcInv, ProcTypeOK, sched_acquire, table, threads, States, Goes, Holds, Resumes,
           SchedLocs
<1>2. CpuInv' /\ OneCpu' /\ LockInv'
    BY Constants
       DEF ProcInv, ProcTypeOK, CpuInv, OneCpu, LockInv, sched_acquire, table, threads, States,
           Goes, Holds, Resumes, SchedLocs
<1>3. HaltInv'
    BY DEF ProcInv, ProcTypeOK, CpuInv, HaltInv, sched_acquire, States, Goes, Holds, Resumes,
           SchedLocs
<1>4. ThreadInv' /\ ChanInv' /\ ForkInv' /\ FamilyInv'
    BY DEF ProcInv, ThreadInv, ForkInv, ChanInv, FamilyInv, sched_acquire, table, threads,
           ProcTypeOK, States, Goes, Holds, Resumes, SchedLocs
<1>5. /\ SleepInv' /\ SleepLockExclusive' /\ SleepMissesNoWakeup' /\ KillMissesNoSleeper'
      /\ WaitMissesNoExit'
    BY DEF ProcInv, SleepInv, SleepLockExclusive, SleepMissesNoWakeup, KillMissesNoSleeper,
           WaitMissesNoExit, Kids, Zombies, sched_acquire, table, threads, ProcTypeOK, States,
           Goes, Holds, Resumes, SchedLocs
<1> QED
    BY Zenon, <1>1, <1>2, <1>3, <1>4, <1>5 DEF ProcInv

LEMMA Keeps_sched_skip ==
    ASSUME ProcInv, NEW c \in CPUs, sched_skip(c)
    PROVE  ProcInv'
<1>1. ProcTypeOK'
    BY ProcAssumption
       DEF ProcInv, ProcTypeOK, sched_skip, locks, cpuv, table, threads, States, Goes, Holds,
           Resumes, SchedLocs
<1>2. CpuInv' /\ OneCpu' /\ LockInv'
    BY DEF ProcInv, CpuInv, OneCpu, LockInv, sched_skip, locks, cpuv, table, threads,
           ProcTypeOK, States, Goes, Holds, Resumes, SchedLocs
<1>3. HaltInv'
    BY DEF ProcInv, ProcTypeOK, HaltInv, sched_skip, cpuv, States, Goes, Holds, Resumes,
           SchedLocs
<1>4. ThreadInv' /\ ChanInv' /\ ForkInv' /\ FamilyInv'
    BY DEF ProcInv, ThreadInv, ForkInv, ChanInv, FamilyInv, sched_skip, table, threads,
           ProcTypeOK, States, Goes, Holds, Resumes, SchedLocs
<1>5. /\ SleepInv' /\ SleepLockExclusive' /\ SleepMissesNoWakeup' /\ KillMissesNoSleeper'
      /\ WaitMissesNoExit'
    BY DEF ProcInv, SleepInv, SleepLockExclusive, SleepMissesNoWakeup, KillMissesNoSleeper,
           WaitMissesNoExit, Kids, Zombies, sched_skip, locks, table, threads, ProcTypeOK,
           States, Goes, Holds, Resumes, SchedLocs
<1> QED
    BY Zenon, <1>1, <1>2, <1>3, <1>4, <1>5 DEF ProcInv

LEMMA Keeps_sched_run ==
    ASSUME ProcInv, NEW c \in CPUs, sched_run(c)
    PROVE  ProcInv'
<1>0. slot[c] \in Slots
    BY DEF ProcInv, ProcTypeOK, sched_run, Slots, States, Goes, Holds, Resumes, SchedLocs
<1>1. ProcTypeOK'
    BY Zenon, <1>0
       DEF ProcInv, ProcTypeOK, sched_run, locks, cpuv, threads, States, Goes, Holds, Resumes,
           SchedLocs
<1>2. CpuInv'
    BY Constants, <1>0
       DEF ProcInv, ProcTypeOK, CpuInv, ThreadInv, sched_run, locks, cpuv, threads, Resumes,
           Holds, SchedLocs, States, Goes
<1>3. OneCpu' /\ LockInv'
    BY Constants
       DEF ProcInv, ProcTypeOK, CpuInv, OneCpu, LockInv, sched_run, locks, threads, States,
           Goes, Holds, Resumes, SchedLocs
<1>4. HaltInv'
    BY Zenon DEF ProcInv, ProcTypeOK, HaltInv, sched_run, cpuv, States, Goes, Holds, Resumes,
           SchedLocs
<1>5. ThreadInv' /\ ChanInv'
    BY Constants
       DEF ProcInv, CpuInv, LockInv, ThreadInv, ChanInv, sched_run, threads, SchedLocs,
           ProcTypeOK, States, Goes, Holds, Resumes
<1>6. ForkInv' /\ FamilyInv'
    BY DEF ProcInv, ForkInv, FamilyInv, sched_run, threads, ProcTypeOK, States, Goes, Holds,
           Resumes, SchedLocs
<1>7. SleepInv' /\ SleepLockExclusive' /\ SleepMissesNoWakeup'
    BY Zenon DEF ProcInv, SleepInv, SleepLockExclusive, SleepMissesNoWakeup, sched_run, locks,
           threads, ProcTypeOK, States, Goes, Holds, Resumes, SchedLocs
<1>8. KillMissesNoSleeper' /\ WaitMissesNoExit'
    BY DEF ProcInv, KillMissesNoSleeper, WaitMissesNoExit, Kids, Zombies, sched_run,
           ProcTypeOK, States, Goes, Holds, Resumes, SchedLocs
<1> QED
    BY Zenon, <1>1, <1>2, <1>3, <1>4, <1>5, <1>6, <1>7, <1>8 DEF ProcInv

LEMMA Keeps_sched_release ==
    ASSUME ProcInv, NEW c \in CPUs, sched_release(c)
    PROVE  ProcInv'
<1>1. ProcTypeOK'
    BY DEF ProcInv, ProcTypeOK, CpuInv, sched_release, popcli, table, threads, States, Goes,
           Holds, Resumes, SchedLocs
<1>2. CpuInv' /\ OneCpu' /\ LockInv'
    BY Constants
       DEF ProcInv, ProcTypeOK, CpuInv, OneCpu, LockInv, sched_release, popcli, table, threads,
           States, Goes, Holds, Resumes, SchedLocs
<1>3. HaltInv'
    BY ProcAssumption
       DEF ProcInv, ProcTypeOK, CpuInv, HaltInv, sched_release, popcli, States, Goes, Holds,
           Resumes, SchedLocs
<1>4. ThreadInv' /\ ChanInv' /\ ForkInv' /\ FamilyInv'
    BY DEF ProcInv, ThreadInv, ForkInv, ChanInv, FamilyInv, sched_release, table, threads,
           ProcTypeOK, States, Goes, Holds, Resumes, SchedLocs
<1>5. /\ SleepInv' /\ SleepLockExclusive' /\ SleepMissesNoWakeup' /\ KillMissesNoSleeper'
      /\ WaitMissesNoExit'
    BY DEF ProcInv, SleepInv, SleepLockExclusive, SleepMissesNoWakeup, KillMissesNoSleeper,
           WaitMissesNoExit, Kids, Zombies, sched_release, table, threads, ProcTypeOK, States,
           Goes, Holds, Resumes, SchedLocs
<1> QED
    BY Zenon, <1>1, <1>2, <1>3, <1>4, <1>5 DEF ProcInv

LEMMA Keeps_sched_resume ==
    ASSUME ProcInv, NEW c \in CPUs, sched_resume(c)
    PROVE  ProcInv'
<1>1. ProcTypeOK'
    BY Zenon DEF ProcInv, ProcTypeOK, sched_resume, locks, cpuv, table, threads, States, Goes, Holds,
           Resumes, SchedLocs
<1>2. CpuInv' /\ OneCpu' /\ LockInv'
    BY DEF ProcInv, CpuInv, OneCpu, LockInv, sched_resume, locks, cpuv, table, threads,
           ProcTypeOK, States, Goes, Holds, Resumes, SchedLocs
<1>3. HaltInv'
    BY Zenon DEF ProcInv, HaltInv, sched_resume, cpuv, ProcTypeOK, States, Goes, Holds, Resumes,
           SchedLocs
<1>4. ThreadInv' /\ ChanInv' /\ ForkInv' /\ FamilyInv'
    BY DEF ProcInv, ThreadInv, ForkInv, ChanInv, FamilyInv, sched_resume, table, threads,
           ProcTypeOK, States, Goes, Holds, Resumes, SchedLocs
<1>5. /\ SleepInv' /\ SleepLockExclusive' /\ SleepMissesNoWakeup' /\ KillMissesNoSleeper'
      /\ WaitMissesNoExit'
    BY DEF ProcInv, SleepInv, SleepLockExclusive, SleepMissesNoWakeup, KillMissesNoSleeper,
           WaitMissesNoExit, Kids, Zombies, sched_resume, locks, table, threads, ProcTypeOK,
           States, Goes, Holds, Resumes, SchedLocs
<1> QED
    BY Zenon, <1>1, <1>2, <1>3, <1>4, <1>5 DEF ProcInv

\* Leaving the CPU.
LEMMA Keeps_sched ==
    ASSUME ProcInv, NEW c \in CPUs, NEW p \in Slots, sched(c, p)
    PROVE  ProcInv'
<1>1. ProcTypeOK'
    BY ProcAssumption
       DEF ProcInv, ProcTypeOK, HaltInv, sched, Runs, Goto, Resume, locks, cpuv, table,
           Resumes, Holds, SchedLocs, States, Goes
<1>2. CpuInv'
    BY DEF ProcInv, ProcTypeOK, CpuInv, sched, Runs, Goto, SchedPanics, locks, cpuv, table,
           SchedLocs, States, Goes, Holds, Resumes
<1>3. OneCpu' /\ LockInv'
    BY DEF ProcInv, ProcTypeOK, OneCpu, LockInv, sched, Runs, Goto, Resume, locks, SchedLocs,
           States, Goes, Holds, Resumes
<1>4. HaltInv'
    BY DEF ProcInv, ProcTypeOK, HaltInv, sched, Runs, cpuv, States, Goes, Holds, Resumes,
           SchedLocs
<1>5. ThreadInv' /\ ChanInv'
    BY DEF ProcInv, ThreadInv, ChanInv, sched, Runs, Goto, Resume, table, Resumes, Goes,
           SchedLocs, ProcTypeOK, States, Holds
<1>6. ForkInv' /\ FamilyInv'
    BY DEF ProcInv, ForkInv, FamilyInv, sched, Runs, Goto, Resume, table, Forking, SchedLocs,
           ProcTypeOK, States, Goes, Holds, Resumes
<1>7. SleepInv' /\ SleepLockExclusive' /\ SleepMissesNoWakeup'
    BY DEF ProcInv, SleepInv, SleepLockExclusive, SleepMissesNoWakeup, sched, Runs, Goto,
           Resume, locks, table, SchedLocs, ProcTypeOK, States, Goes, Holds, Resumes
<1>8. KillMissesNoSleeper' /\ WaitMissesNoExit'
    BY DEF ProcInv, KillMissesNoSleeper, WaitMissesNoExit, Kids, Zombies, sched, table,
           ProcTypeOK, States, Goes, Holds, Resumes, SchedLocs
<1> QED
    BY Zenon, <1>1, <1>2, <1>3, <1>4, <1>5, <1>6, <1>7, <1>8 DEF ProcInv

-----------------------------------------------------------------------------
LEMMA Starts == Init => ProcInv
<1> SUFFICES ASSUME Init PROVE ProcInv
    BY Zenon
<1>1. ProcTypeOK /\ CpuInv /\ OneCpu /\ LockInv /\ HaltInv
    BY Constants, ProcAssumption
       DEF Init, ProcTypeOK, CpuInv, OneCpu, LockInv, HaltInv, Goes, Holds, Resumes, Forking,
           States, SchedLocs
<1>2. ThreadInv /\ ChanInv /\ ForkInv /\ FamilyInv /\ SleepInv
    BY Zenon, Constants
       DEF Init, ThreadInv, ChanInv, ForkInv, FamilyInv, SleepInv, Goes, Holds, Resumes,
           Forking, States, SchedLocs
<1>3. SleepLockExclusive /\ SleepMissesNoWakeup /\ KillMissesNoSleeper /\ WaitMissesNoExit
    BY Zenon, Constants
       DEF Init, SleepLockExclusive, SleepMissesNoWakeup, KillMissesNoSleeper, WaitMissesNoExit
<1> QED
    BY Zenon, <1>1, <1>2, <1>3 DEF ProcInv

LEMMA Keeps_yield ==
    ASSUME ProcInv, NEW c \in CPUs, NEW p \in Slots, yield(c, p)
    PROVE  ProcInv'
<1>1. ProcTypeOK'
    BY Constants
       DEF ProcInv, ProcTypeOK, CpuInv, HaltInv, ForkInv, yield, Runs, Goto, pushcli, locks,
           cpuv, sched_v, table, threads, Resumes, Goes, Forking, Holds, States, SchedLocs,
           Plain
<1>2. CpuInv'
    BY Constants
       DEF ProcInv, ProcTypeOK, CpuInv, OneCpu, yield, Runs, Goto, pushcli, sched_v, Holds,
           SchedLocs, States, Goes, Resumes
<1>3. OneCpu' /\ LockInv'
    BY Constants
       DEF ProcInv, ProcTypeOK, OneCpu, LockInv, yield, Runs, Goto, sched_v, States, Goes,
           Holds, Resumes, SchedLocs
<1>4. HaltInv'
    BY Zenon DEF ProcInv, HaltInv, yield, Runs, pushcli, sched_v, ProcTypeOK, States, Goes, Holds,
           Resumes, SchedLocs
<1>5. ThreadInv' /\ ChanInv'
    BY DEF ProcInv, ProcTypeOK, CpuInv, ThreadInv, ForkInv, ChanInv, yield, Runs, Goto, States,
           Goes, Holds, Resumes, SchedLocs
<1>6. ForkInv' /\ FamilyInv'
    BY Constants
       DEF ProcInv, ProcTypeOK, ForkInv, FamilyInv, yield, Runs, Goto, Forking, States, Goes,
           Holds, Resumes, SchedLocs
<1>7. SleepInv' /\ SleepLockExclusive' /\ SleepMissesNoWakeup'
    BY DEF ProcInv, ProcTypeOK, SleepInv, SleepLockExclusive, SleepMissesNoWakeup, yield, Runs,
           Goto, States, Goes, Holds, Resumes, SchedLocs
<1>8. KillMissesNoSleeper' /\ WaitMissesNoExit'
    BY DEF ProcInv, KillMissesNoSleeper, WaitMissesNoExit, Kids, Zombies, yield, ProcTypeOK,
           States, Goes, Holds, Resumes, SchedLocs
<1> QED
    BY Zenon, <1>1, <1>2, <1>3, <1>4, <1>5, <1>6, <1>7, <1>8 DEF ProcInv

\* fork(), exit() and kill().
LEMMA Keeps_allocproc ==
    ASSUME ProcInv, NEW c \in CPUs, NEW p \in Slots, allocproc(c, p)
    PROVE  ProcInv'
<1>1. ProcTypeOK'
    BY Constants
       DEF ProcInv, ProcTypeOK, CpuInv, HaltInv, ForkInv, allocproc, Runs, Goto, Section,
           Lowest, Unused, locks, cpuv, sched_v, table, threads, Resumes, Goes, Forking, Holds,
           States, SchedLocs, Plain
<1>2. CpuInv'
    BY DEF ProcInv, ProcTypeOK, CpuInv, allocproc, Runs, Goto, Section, Lowest, Unused, locks,
           sched_v, Resumes, Holds, SchedLocs, States, Goes
<1>3. OneCpu' /\ LockInv'
    BY DEF ProcInv, ProcTypeOK, OneCpu, LockInv, allocproc, Goto, locks, sched_v, SchedLocs,
           States, Goes, Holds, Resumes
<1>4. HaltInv'
    BY Zenon DEF ProcInv, HaltInv, allocproc, Runs, Section, sched_v, ProcTypeOK, States, Goes,
           Holds, Resumes, SchedLocs
<1>5. ThreadInv' /\ ChanInv'
    BY DEF ProcInv, ProcTypeOK, ThreadInv, ChanInv, allocproc, Runs, Goto, Lowest, Unused,
           Resumes, Goes, States, Holds, SchedLocs
<1>6. ForkInv' /\ FamilyInv'
    BY Constants
       DEF ProcInv, ProcTypeOK, ThreadInv, ForkInv, FamilyInv, allocproc, Runs, Goto, Section,
           Lowest, Unused, Forking, States, Goes, Holds, Resumes, SchedLocs
<1>7. SleepInv' /\ SleepLockExclusive' /\ SleepMissesNoWakeup'
    BY DEF ProcInv, ProcTypeOK, SleepInv, SleepLockExclusive, SleepMissesNoWakeup, allocproc,
           Runs, Goto, Lowest, locks, States, Goes, Holds, Resumes, SchedLocs
<1>8. KillMissesNoSleeper' /\ WaitMissesNoExit'
    BY DEF ProcInv, ProcTypeOK, KillMissesNoSleeper, WaitMissesNoExit, Kids, Zombies,
           allocproc, States, Goes, Holds, Resumes, SchedLocs
<1> QED
    BY Zenon, <1>1, <1>2, <1>3, <1>4, <1>5, <1>6, <1>7, <1>8 DEF ProcInv

LEMMA Keeps_fork_copy ==
    ASSUME ProcInv, NEW c \in CPUs, NEW p \in Slots, fork_copy(c, p)
    PROVE  ProcInv'
<1>1. ProcTypeOK'
    BY Zenon DEF ProcInv, ProcTypeOK, ForkInv, fork_copy, Runs, locks, cpuv, sched_v, Resumes, Goes,
           Forking, Holds, States, SchedLocs
<1>2. CpuInv'
    BY DEF ProcInv, ProcTypeOK, CpuInv, ForkInv, fork_copy, Runs, locks, cpuv, sched_v,
           Resumes, Forking, Holds, SchedLocs, States, Goes
<1>3. OneCpu' /\ LockInv'
    BY DEF ProcInv, ProcTypeOK, OneCpu, LockInv, fork_copy, locks, sched_v, SchedLocs, States,
           Goes, Holds, Resumes
<1>4. HaltInv'
    BY Zenon DEF ProcInv, HaltInv, fork_copy, cpuv, sched_v, ProcTypeOK, States, Goes, Holds,
           Resumes, SchedLocs
<1>5. ThreadInv' /\ ChanInv'
    BY DEF ProcInv, ProcTypeOK, ThreadInv, ForkInv, ChanInv, fork_copy, Runs, Resumes, Goes,
           Forking, States, Holds, SchedLocs
<1>6. ForkInv' /\ FamilyInv'
    BY Constants
       DEF ProcInv, ProcTypeOK, ForkInv, FamilyInv, fork_copy, Runs, Forking, States, Goes,
           Holds, Resumes, SchedLocs
<1>7. SleepInv' /\ SleepLockExclusive' /\ SleepMissesNoWakeup'
    BY DEF ProcInv, ProcTypeOK, ForkInv, SleepInv, SleepLockExclusive, SleepMissesNoWakeup,
           fork_copy, Runs, locks, States, Goes, Holds, Resumes, SchedLocs
<1>8. KillMissesNoSleeper' /\ WaitMissesNoExit'
    BY Constants
       DEF ProcInv, ChanInv, KillMissesNoSleeper, ForkInv, WaitMissesNoExit, Kids, Zombies,
           fork_copy, Runs, ProcTypeOK, States, Goes, Holds, Resumes, SchedLocs
<1> QED
    BY Zenon, <1>1, <1>2, <1>3, <1>4, <1>5, <1>6, <1>7, <1>8 DEF ProcInv

LEMMA Keeps_fork_publish ==
    ASSUME ProcInv, NEW c \in CPUs, NEW p \in Slots, fork_publish(c, p)
    PROVE  ProcInv'
<1>1. ProcTypeOK'
    BY Zenon DEF ProcInv, ProcTypeOK, ForkInv, fork_publish, Runs, Goto, locks, cpuv, sched_v, Goes,
           Forking, States, Holds, Resumes, SchedLocs
<1>2. CpuInv'
    BY DEF ProcInv, CpuInv, ForkInv, fork_publish, Runs, Goto, locks, cpuv, sched_v, Resumes,
           Forking, Holds, SchedLocs, ProcTypeOK, States, Goes
<1>3. OneCpu' /\ LockInv'
    BY DEF ProcInv, OneCpu, LockInv, fork_publish, Goto, locks, sched_v, SchedLocs, ProcTypeOK,
           States, Goes, Holds, Resumes
<1>4. HaltInv'
    BY Zenon DEF ProcInv, HaltInv, fork_publish, cpuv, sched_v, ProcTypeOK, States, Goes, Holds,
           Resumes, SchedLocs
<1>5. ThreadInv' /\ ChanInv'
    BY DEF ProcInv, ThreadInv, ForkInv, ChanInv, fork_publish, Runs, Goto, Resumes, Goes,
           ProcTypeOK, States, Holds, SchedLocs
<1>6. ForkInv' /\ FamilyInv'
    BY DEF ProcInv, ProcTypeOK, ForkInv, FamilyInv, fork_publish, Runs, Goto, Forking, States,
           Goes, Holds, Resumes, SchedLocs
<1>7. SleepInv' /\ SleepLockExclusive' /\ SleepMissesNoWakeup'
    BY DEF ProcInv, SleepInv, SleepLockExclusive, SleepMissesNoWakeup, fork_publish, Runs,
           Goto, locks, ProcTypeOK, States, Goes, Holds, Resumes, SchedLocs
<1>8. KillMissesNoSleeper' /\ WaitMissesNoExit'
    BY DEF ProcInv, KillMissesNoSleeper, WaitMissesNoExit, Kids, Zombies, fork_publish,
           ProcTypeOK, States, Goes, Holds, Resumes, SchedLocs
<1> QED
    BY Zenon, <1>1, <1>2, <1>3, <1>4, <1>5, <1>6, <1>7, <1>8 DEF ProcInv

LEMMA Keeps_exit ==
    ASSUME ProcInv, NEW c \in CPUs, NEW p \in Slots, exit(c, p)
    PROVE  ProcInv'
<1>1. ProcTypeOK'
    BY Constants
       DEF ProcInv, ProcTypeOK, CpuInv, HaltInv, ForkInv, exit, Runs, Goto, pushcli, wakeup1,
           Zombies, Kids, locks, cpuv, sched_v, table, threads, Resumes, Goes, Forking, Holds,
           States, SchedLocs, Plain
<1>2. CpuInv'
    BY Constants
       DEF ProcInv, ProcTypeOK, CpuInv, OneCpu, exit, Runs, Goto, pushcli, wakeup1, sched_v,
           Holds, SchedLocs, States, Goes, Resumes
<1>3. OneCpu' /\ LockInv'
    BY Constants
       DEF ProcInv, OneCpu, LockInv, exit, Runs, Goto, sched_v, ProcTypeOK, States, Goes,
           Holds, Resumes, SchedLocs
<1>4. HaltInv'
    BY Zenon DEF ProcInv, HaltInv, exit, Runs, pushcli, sched_v, ProcTypeOK, States, Goes, Holds,
           Resumes, SchedLocs
<1>5. ThreadInv' /\ ChanInv'
    BY Constants
       DEF ProcInv, ProcTypeOK, LockInv, ThreadInv, ChanInv, exit, Runs, Goto, wakeup1, Goes,
           Holds, States, Resumes, SchedLocs
<1>6. ForkInv' /\ FamilyInv'
    BY Constants
       DEF ProcInv, CpuInv, ThreadInv, ForkInv, FamilyInv, exit, Runs, Goto, wakeup1, Forking,
           ProcTypeOK, States, Goes, Holds, Resumes, SchedLocs
<1>7. SleepInv' /\ SleepLockExclusive' /\ SleepMissesNoWakeup'
    BY DEF ProcInv, SleepInv, SleepLockExclusive, SleepMissesNoWakeup, exit, Runs, Goto,
           wakeup1, ProcTypeOK, States, Goes, Holds, Resumes, SchedLocs
<1>8. KillMissesNoSleeper' /\ WaitMissesNoExit'
    BY DEF ProcInv, ProcTypeOK, KillMissesNoSleeper, FamilyInv, WaitMissesNoExit, Kids,
           Zombies, exit, wakeup1, States, Goes, Holds, Resumes, SchedLocs
<1> QED
    BY Zenon, <1>1, <1>2, <1>3, <1>4, <1>5, <1>6, <1>7, <1>8 DEF ProcInv

LEMMA Keeps_kill ==
    ASSUME ProcInv, NEW c \in CPUs, NEW p \in Slots, NEW q \in KillTargets, kill(c, p, q)
    PROVE  ProcInv'
<1>0. q \in Slots
    BY Zenon DEF KillTargets, Lowest, Unused
<1>1. ProcTypeOK'
    BY <1>0
       DEF ProcInv, ProcTypeOK, kill, Goto, Section, locks, sched_v, Goes, States, Holds,
           Resumes, SchedLocs
<1>2. CpuInv'
    BY DEF ProcInv, CpuInv, kill, Runs, Goto, Section, locks, sched_v, Resumes, Holds,
           SchedLocs, ProcTypeOK, States, Goes
<1>3. OneCpu' /\ LockInv'
    BY DEF ProcInv, OneCpu, LockInv, kill, Goto, locks, sched_v, SchedLocs, ProcTypeOK, States,
           Goes, Holds, Resumes
<1>4. HaltInv'
    BY Zenon DEF ProcInv, HaltInv, kill, Runs, Section, sched_v, ProcTypeOK, States, Goes, Holds,
           Resumes, SchedLocs
<1>5. ThreadInv' /\ ChanInv'
    BY Constants
       DEF ProcInv, LockInv, ThreadInv, ChanInv, kill, Runs, Goto, Section, Resumes, Goes,
           SchedLocs, ProcTypeOK, States, Holds
<1>6. ForkInv' /\ FamilyInv'
    BY <1>0
       DEF ProcInv, ForkInv, FamilyInv, kill, Runs, Goto, Forking, ProcTypeOK, States, Goes,
           Holds, Resumes, SchedLocs
<1>7. SleepInv' /\ SleepLockExclusive' /\ SleepMissesNoWakeup'
    BY DEF ProcInv, SleepInv, SleepLockExclusive, SleepMissesNoWakeup, kill, Runs, Goto, locks,
           ProcTypeOK, States, Goes, Holds, Resumes, SchedLocs
<1>8. KillMissesNoSleeper' /\ WaitMissesNoExit'
    BY DEF ProcInv, ProcTypeOK, KillMissesNoSleeper, WaitMissesNoExit, Kids, Zombies, kill,
           States, Goes, Holds, Resumes, SchedLocs
<1> QED
    BY Zenon, <1>1, <1>2, <1>3, <1>4, <1>5, <1>6, <1>7, <1>8 DEF ProcInv

\* The sleep lock, sleep() and wakeup().
LEMMA Keeps_acquiresleep ==
    ASSUME ProcInv, NEW c \in CPUs, NEW p \in Slots, acquiresleep(c, p)
    PROVE  ProcInv'
<1>1. ProcTypeOK'
  <2>1. /\ locked' \in Slots \cup {None} /\ slk' \in CPUs \cup {None}
        /\ eflags' \in [CPUs -> 0 .. 1] /\ ncli' \in [CPUs -> Nat] /\ intena' \in [CPUs -> 0 .. 1]
    BY DEF ProcInv, ProcTypeOK, acquiresleep, Section, pushcli
  <2>2. pc' \in [Slots -> Goes \cup Holds \cup {"none", "zombie"}]
    BY Zenon DEF ProcInv, ProcTypeOK, acquiresleep, Goto, Goes
  <2> QED
    BY Zenon, <2>1, <2>2 DEF ProcInv, ProcTypeOK, acquiresleep, sched_v, table
<1>2. CpuInv'
    BY Constants
       DEF ProcInv, ProcTypeOK, CpuInv, OneCpu, acquiresleep, Runs, Goto, Section, pushcli,
           sched_v, table, Resumes, Holds, SchedLocs, States, Goes
<1>3. OneCpu' /\ LockInv'
    BY Constants
       DEF ProcInv, ProcTypeOK, OneCpu, LockInv, acquiresleep, Runs, Goto, sched_v, SchedLocs,
           States, Goes, Holds, Resumes
<1>4. HaltInv'
    BY DEF ProcInv, ProcTypeOK, HaltInv, acquiresleep, Runs, Section, pushcli, sched_v, States,
           Goes, Holds, Resumes, SchedLocs
<1>5. ThreadInv' /\ ChanInv'
    BY Constants
       DEF ProcInv, ProcTypeOK, ThreadInv, ChanInv, acquiresleep, Runs, Goto, Section, table,
           Resumes, Goes, States, Holds, SchedLocs
<1>6. ForkInv' /\ FamilyInv'
    BY Constants
       DEF ProcInv, ProcTypeOK, ForkInv, FamilyInv, acquiresleep, Runs, Goto, table, Forking,
           States, Goes, Holds, Resumes, SchedLocs
<1>7. SleepInv' /\ SleepLockExclusive' /\ SleepMissesNoWakeup'
  <2>1. SleepInv'
    BY Constants DEF ProcInv, ProcTypeOK, SleepInv, acquiresleep, Runs, Goto
  <2>2. SleepLockExclusive'
    BY Constants DEF ProcInv, ProcTypeOK, SleepLockExclusive, acquiresleep, Runs, Goto
  <2>3. SleepMissesNoWakeup'
    BY Constants DEF ProcInv, ProcTypeOK, SleepMissesNoWakeup, acquiresleep, Runs, Goto
  <2> QED
    BY Zenon, <2>1, <2>2, <2>3
<1>8. KillMissesNoSleeper' /\ WaitMissesNoExit'
    BY DEF ProcInv, KillMissesNoSleeper, WaitMissesNoExit, Kids, Zombies, acquiresleep, table,
           ProcTypeOK, States, Goes, Holds, Resumes, SchedLocs
<1> QED
    BY Zenon, <1>1, <1>2, <1>3, <1>4, <1>5, <1>6, <1>7, <1>8 DEF ProcInv

LEMMA Keeps_sleep ==
    ASSUME ProcInv, NEW c \in CPUs, NEW p \in Slots, sleep(c, p)
    PROVE  ProcInv'
<1>1. ProcTypeOK'
    BY Zenon DEF ProcInv, ProcTypeOK, sleep, Goto, cpuv, sched_v, Holds, States, SchedLocs, Goes,
           Resumes
<1>2. CpuInv'
    BY Constants
       DEF ProcInv, ProcTypeOK, CpuInv, sleep, Runs, Goto, cpuv, sched_v, Holds, SchedLocs,
           States, Goes, Resumes
<1>3. OneCpu' /\ LockInv'
    BY Constants
       DEF ProcInv, ProcTypeOK, OneCpu, LockInv, sleep, Runs, Goto, sched_v, States, Goes,
           Holds, Resumes, SchedLocs
<1>4. HaltInv'
    BY Zenon DEF ProcInv, HaltInv, sleep, cpuv, sched_v, ProcTypeOK, States, Goes, Holds, Resumes,
           SchedLocs
<1>5. ThreadInv' /\ ChanInv'
    BY DEF ProcInv, ProcTypeOK, ThreadInv, ChanInv, sleep, Goto, States, Goes, Holds, Resumes,
           SchedLocs
<1>6. ForkInv' /\ FamilyInv'
    BY DEF ProcInv, ForkInv, FamilyInv, sleep, Runs, Goto, Forking, ProcTypeOK, States, Goes,
           Holds, Resumes, SchedLocs
<1>7. SleepInv' /\ SleepLockExclusive' /\ SleepMissesNoWakeup'
    BY Zenon DEF ProcInv, SleepInv, SleepLockExclusive, SleepMissesNoWakeup, sleep, Runs, Goto,
           ProcTypeOK, States, Goes, Holds, Resumes, SchedLocs
<1>8. KillMissesNoSleeper' /\ WaitMissesNoExit'
    BY Constants
       DEF ProcInv, ProcTypeOK, KillMissesNoSleeper, WaitMissesNoExit, Kids, Zombies, sleep,
           States, Goes, Holds, Resumes, SchedLocs
<1> QED
    BY Zenon, <1>1, <1>2, <1>3, <1>4, <1>5, <1>6, <1>7, <1>8 DEF ProcInv

LEMMA Keeps_releasesleep ==
    ASSUME ProcInv, NEW c \in CPUs, NEW p \in Slots, releasesleep(c, p)
    PROVE  ProcInv'
<1>1. ProcTypeOK'
    BY DEF ProcInv, ProcTypeOK, releasesleep, Goto, pushcli, sched_v, table, Goes, States,
           Holds, Resumes, SchedLocs
<1>2. CpuInv'
    BY Constants
       DEF ProcInv, ProcTypeOK, CpuInv, OneCpu, releasesleep, Runs, Goto, pushcli, sched_v,
           table, Resumes, Holds, SchedLocs, States, Goes
<1>3. OneCpu' /\ LockInv'
    BY Constants
       DEF ProcInv, OneCpu, LockInv, releasesleep, Runs, Goto, sched_v, SchedLocs, ProcTypeOK,
           States, Goes, Holds, Resumes
<1>4. HaltInv'
    BY Zenon DEF ProcInv, HaltInv, releasesleep, Runs, pushcli, sched_v, ProcTypeOK, States, Goes,
           Holds, Resumes, SchedLocs
<1>5. ThreadInv' /\ ChanInv'
    BY DEF ProcInv, ThreadInv, ChanInv, releasesleep, Runs, Goto, table, Resumes, Goes,
           ProcTypeOK, States, Holds, SchedLocs
<1>6. ForkInv' /\ FamilyInv'
    BY DEF ProcInv, ForkInv, FamilyInv, releasesleep, Runs, Goto, table, Forking, ProcTypeOK,
           States, Goes, Holds, Resumes, SchedLocs
<1>7. SleepInv' /\ SleepLockExclusive' /\ SleepMissesNoWakeup'
    BY Constants
       DEF ProcInv, ProcTypeOK, LockInv, SleepInv, SleepLockExclusive, SleepMissesNoWakeup,
           releasesleep, Runs, Goto, States, Goes, Holds, Resumes, SchedLocs
<1>8. KillMissesNoSleeper' /\ WaitMissesNoExit'
    BY DEF ProcInv, KillMissesNoSleeper, WaitMissesNoExit, Kids, Zombies, releasesleep, table,
           ProcTypeOK, States, Goes, Holds, Resumes, SchedLocs
<1> QED
    BY Zenon, <1>1, <1>2, <1>3, <1>4, <1>5, <1>6, <1>7, <1>8 DEF ProcInv

LEMMA Keeps_wakeup ==
    ASSUME ProcInv, NEW c \in CPUs, NEW p \in Slots, wakeup(c, p)
    PROVE  ProcInv'
<1>1. ProcTypeOK'
    BY DEF ProcInv, ProcTypeOK, CpuInv, wakeup, Runs, Goto, popcli, wakeup1, sched_v, Goes,
           States, Holds, Resumes, SchedLocs
<1>2. CpuInv'
    BY Constants
       DEF ProcInv, ProcTypeOK, CpuInv, wakeup, Runs, Goto, popcli, wakeup1, sched_v, Resumes,
           Holds, SchedLocs, States, Goes
<1>3. OneCpu' /\ LockInv'
    BY DEF ProcInv, ProcTypeOK, OneCpu, LockInv, wakeup, Runs, Goto, sched_v, SchedLocs,
           States, Goes, Holds, Resumes
<1>4. HaltInv'
    BY Zenon DEF ProcInv, HaltInv, wakeup, popcli, sched_v, ProcTypeOK, States, Goes, Holds, Resumes,
           SchedLocs
<1>5. ThreadInv' /\ ChanInv'
    BY Constants
       DEF ProcInv, LockInv, ThreadInv, ChanInv, wakeup, Runs, Goto, wakeup1, Resumes, Goes,
           SchedLocs, ProcTypeOK, States, Holds
<1>6. ForkInv' /\ FamilyInv'
    BY Constants
       DEF ProcInv, ForkInv, FamilyInv, wakeup, Runs, Goto, wakeup1, Forking, ProcTypeOK,
           States, Goes, Holds, Resumes, SchedLocs
<1>7. SleepInv' /\ SleepLockExclusive' /\ SleepMissesNoWakeup'
    BY Zenon DEF ProcInv, SleepInv, SleepLockExclusive, SleepMissesNoWakeup, wakeup, Runs, Goto,
           wakeup1, ProcTypeOK, States, Goes, Holds, Resumes, SchedLocs
<1>8. KillMissesNoSleeper' /\ WaitMissesNoExit'
    BY DEF ProcInv, KillMissesNoSleeper, WaitMissesNoExit, Kids, Zombies, wakeup, wakeup1,
           ProcTypeOK, States, Goes, Holds, Resumes, SchedLocs
<1> QED
    BY Zenon, <1>1, <1>2, <1>3, <1>4, <1>5, <1>6, <1>7, <1>8 DEF ProcInv

LEMMA Steps == ProcInv /\ [Next]_vars => ProcInv'
<1> SUFFICES ASSUME ProcInv, [Next]_vars PROVE ProcInv'
    BY Zenon
<1>1. CASE UNCHANGED vars
  <2>1. ProcTypeOK' /\ CpuInv' /\ OneCpu' /\ LockInv' /\ HaltInv'
    BY <1>1
       DEF ProcInv, ProcTypeOK, CpuInv, OneCpu, LockInv, HaltInv, vars, locks, cpuv, sched_v,
           table, threads, States, Goes, Holds, Resumes, SchedLocs
  <2>2. ThreadInv' /\ ChanInv' /\ ForkInv' /\ FamilyInv' /\ SleepInv'
    BY <1>1
       DEF ProcInv, ThreadInv, ChanInv, ForkInv, FamilyInv, SleepInv, vars, locks, cpuv,
           sched_v, table, threads, ProcTypeOK, States, Goes, Holds, Resumes, SchedLocs
  <2>3. SleepLockExclusive' /\ SleepMissesNoWakeup' /\ KillMissesNoSleeper' /\ WaitMissesNoExit'
    BY <1>1
       DEF ProcInv, SleepLockExclusive, SleepMissesNoWakeup, KillMissesNoSleeper,
           WaitMissesNoExit, Zombies, Kids, vars, locks, cpuv, sched_v, table, threads,
           ProcTypeOK, States, Goes, Holds, Resumes, SchedLocs
  <2> QED
    BY Zenon, <2>1, <2>2, <2>3 DEF ProcInv
<1>2. ASSUME NEW c \in CPUs, Scheduler(c) PROVE ProcInv'
    BY Zenon, <1>2, Keeps_sched_acquire, Keeps_sched_skip, Keeps_sched_run, Keeps_sched_release,
       Keeps_sched_resume
       DEF Scheduler
<1>3. ASSUME NEW c \in CPUs, NEW p \in Slots, Thread(c, p) \/ timer(c, p) \/ fault(c, p) PROVE ProcInv'
  <2>1. CASE Thread(c, p) /\ ~sys_kill(c, p)
    BY Zenon, <2>1, Keeps_sched, Keeps_back, Keeps_outside, Keeps_yield, Keeps_allocproc,
       Keeps_fork_copy, Keeps_fork_publish, Keeps_exit, Keeps_wait, Keeps_acquiresleep,
       Keeps_sleep, Keeps_releasesleep, Keeps_wakeup
       DEF Thread, sys_fork, sys_exit, sys_wait
  <2>2. CASE sys_kill(c, p)
    <3>1. ASSUME NEW q \in KillTargets, kill(c, p, q) PROVE ProcInv'
      BY Zenon, <3>1, Keeps_kill
    <3>2. CASE kill_none(c, p)
      BY Zenon, <3>2, Keeps_outside
    <3> QED
      BY Zenon, <2>2, <3>1, <3>2 DEF sys_kill
  <2>3. CASE timer(c, p) \/ fault(c, p)
    BY Zenon, <2>3, Keeps_outside
  <2> QED
    BY Zenon, <1>3, <2>1, <2>2, <2>3
<1>4. ASSUME NEW c \in CPUs, NEW p \in Slots, NEW call \in Calls, syscall(c, p, call) PROVE ProcInv'
    BY Zenon, <1>4, Keeps_outside
<1>5. ASSUME NEW c \in CPUs, panic(c) PROVE ProcInv'
    BY Zenon, <1>1, <1>5 DEF panic
<1> QED
    BY Zenon, <1>1, <1>2, <1>3, <1>4, <1>5 DEF Next

\* Every reachable state of every machine satisfies the inductive invariant.
THEOREM ProcInvariant == Spec => []ProcInv
    BY Starts, Steps, PTL DEF Spec

\* For any number of CPUs and slots: acquire() and sched() meet none of their
\* panics and no process runs again after its exit(), whoever is killed or
\* exits, init included.
THEOREM LocksNeverPanic == Spec => []NoLockPanic
<1>1. ProcInv => NoLockPanic
    BY Constants
       DEF ProcInv, CpuInv, ThreadInv, ProcTypeOK, NoLockPanic, Panics, SchedPanics,
           holding, Goes, Holds, Resumes, Forking, States, SchedLocs
<1> QED
    BY <1>1, ProcInvariant, PTL

\* For any number of CPUs and slots: wait() never frees a stack some CPU still runs on (proc.c:237).
THEOREM StacksStayInUse == Spec => []StackInUse
<1>1. ProcInv => StackInUse
    BY Constants
       DEF ProcInv, CpuInv, ThreadInv, ProcTypeOK, StackInUse, Goes, Holds, Resumes, Forking,
           States, SchedLocs
<1> QED
    BY <1>1, ProcInvariant, PTL

\* For any number of CPUs and slots: a CPU halts only with interrupts on (proc.c:302-303).
THEOREM HaltsUnmasked == Spec => []NoMaskedHalt
<1>1. ProcInv => NoMaskedHalt
    BY Zenon DEF ProcInv, HaltInv, NoMaskedHalt
<1> QED
    BY <1>1, ProcInvariant, PTL

\* For any number of CPUs and slots: nobody sleeps in wait() with a child to collect or with none
\* at all (proc.c:200, 207).
THEOREM ExitsReachWaiters == Spec => []WaitMissesNoExit
<1>1. ProcInv => WaitMissesNoExit
    BY Zenon DEF ProcInv
<1> QED
    BY <1>1, ProcInvariant, PTL

\* For any number of CPUs and slots: a process sleeps on a sleep lock only while it is taken, or its
\* last holder is about to call wakeup() (proc.c:378-387).
THEOREM WakeupsReachSleepers == Spec => []SleepMissesNoWakeup
<1>1. ProcInv => SleepMissesNoWakeup
    BY Zenon DEF ProcInv
<1> QED
    BY <1>1, ProcInvariant, PTL

\* For any number of CPUs and slots: one process at a time has the sleep lock (sleeplock.c:26-29).
THEOREM SleepLockExcludes == Spec => []SleepLockExclusive
<1>1. ProcInv => SleepLockExclusive
    BY Zenon DEF ProcInv
<1> QED
    BY <1>1, ProcInvariant, PTL

\* For any number of CPUs and slots: a kill is not lost on a process about to sleep in wait()
\* (proc.c:438-440, 251).
THEOREM KillsReachSleepers == Spec => []KillMissesNoSleeper
<1>1. ProcInv => KillMissesNoSleeper
    BY Zenon DEF ProcInv
<1> QED
    BY <1>1, ProcInvariant, PTL
=============================================================================
