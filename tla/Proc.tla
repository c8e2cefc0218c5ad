-------------------------------- MODULE Proc --------------------------------
(* proc.c on several CPUs: the scheduler, context switches under           *)
(* ptable.lock, sleep and wakeup, and the life of a process (fork, exit,   *)
(* wait, kill), with spinlock.c's interrupt nesting, sleeplock.c as a user *)
(* of sleep(), and the timer interrupt of trap.c.                          *)
(* A critical section that ends where it began is one step; one that goes  *)
(* through sched() is split where the CPU changes stacks.                  *)
EXTENDS Integers, FiniteSets

CONSTANTS CPUs,     \* the processors
          NPROC,    \* slots of ptable.proc
          None,     \* a null pointer
          Calls     \* the system calls processes make, of the set below

ASSUME ProcAssumption ==
    /\ NPROC \in Nat \ {0}
    /\ None \notin Nat /\ None \notin CPUs
    /\ Calls \subseteq {"fork", "exit", "wait", "kill", "kill0", "lock", "getpid"}

Slots == 1 .. NPROC
initproc == 1
\* Sleep channels: a process (wait) or the sleep lock.
LK == 0

VARIABLES ptable, slk,              \* the CPU that holds ptable.lock, lk->lk
          locked,                   \* lk->locked: the process that has it
          eflags, ncli, intena,     \* per CPU: FL_IF, cpu->ncli, cpu->intena
          proc, at,                 \* per CPU: proc, and where scheduler() is
          slot, skipped,            \* per CPU: scheduler()'s p and skipped
          state, chan, killed, parent,  \* struct proc; the pid is 0 when UNUSED
          pc,                       \* per process: where its kernel thread is
          saved,                    \* per process: sched()'s local intena
          child                     \* per process: fork()'s np

locks == <<ptable, slk, locked>>
cpuv == <<eflags, ncli, intena>>
sched_v == <<proc, at, slot, skipped>>
table == <<state, chan, killed, parent>>
threads == <<pc, saved, child>>
vars == <<locks, cpuv, sched_v, table, threads>>

Init ==
    /\ ptable = None /\ slk = None /\ locked = None
    /\ eflags = [c \in CPUs |-> 0]
    /\ ncli = [c \in CPUs |-> 0]
    /\ intena = [c \in CPUs |-> 0]
    /\ proc = [c \in CPUs |-> None]
    /\ at = [c \in CPUs |-> "top"]
    /\ slot = [c \in CPUs |-> 1]
    /\ skipped = [c \in CPUs |-> 0]
    /\ state = [p \in Slots |-> IF p = initproc THEN "RUNNABLE" ELSE "UNUSED"]
    /\ chan = [p \in Slots |-> None]
    /\ killed = [p \in Slots |-> 0]
    /\ parent = [p \in Slots |-> None]
    /\ pc = [p \in Slots |-> IF p = initproc THEN "forkret" ELSE "none"]
    /\ saved = [p \in Slots |-> 0]
    /\ child = [p \in Slots |-> None]

-----------------------------------------------------------------------------
(* spinlock.c.  Interrupts taken while spinning change nothing here, so a  *)
(* spinning acquire() is a step that waits for the lock to be free.        *)

\* pushcli(): the intena to come back to is noted at depth 0.
pushcli(c) ==
    /\ eflags' = [eflags EXCEPT ![c] = 0]
    /\ intena' = IF ncli[c] = 0 THEN [intena EXCEPT ![c] = eflags[c]] ELSE intena
    /\ ncli' = [ncli EXCEPT ![c] = @ + 1]

\* popcli() of a CPU whose intena is e.
popcli(c, e) ==
    /\ ncli' = [ncli EXCEPT ![c] = @ - 1]
    /\ intena' = [intena EXCEPT ![c] = e]
    /\ eflags' = [eflags EXCEPT ![c] = IF ncli[c] = 1 /\ e = 1 THEN 1 ELSE @]

\* holding() of a lock that CPU l has.
holding(c, l) == l = c

\* Mutant: a section that does not wait for the lock.
Section_unlocked(c, lock) ==
    /\ intena' = IF ncli[c] = 0 THEN [intena EXCEPT ![c] = eflags[c]] ELSE intena
    /\ UNCHANGED <<eflags, ncli>>

\* acquire() ... release() of a free lock inside one step.
Section(c, lock) ==
    /\ lock = None
    /\ intena' = IF ncli[c] = 0 THEN [intena EXCEPT ![c] = eflags[c]] ELSE intena
    /\ UNCHANGED <<eflags, ncli>>

-----------------------------------------------------------------------------
(* scheduler() of CPU c.                                                   *)

\* sti(); acquire(&ptable.lock)
sched_acquire(c) ==
    /\ at[c] = "top"
    /\ ptable = None
    /\ ptable' = c
    /\ eflags' = [eflags EXCEPT ![c] = 0]
    /\ intena' = [intena EXCEPT ![c] = IF ncli[c] = 0 THEN 1 ELSE @]
    /\ ncli' = [ncli EXCEPT ![c] = @ + 1]
    /\ slot' = [slot EXCEPT ![c] = 1]
    /\ at' = [at EXCEPT ![c] = "scan"]
    /\ UNCHANGED <<slk, locked, proc, skipped, table, threads>>

sched_skip(c) ==
    /\ at[c] = "scan"
    /\ slot[c] <= NPROC
    /\ state[slot[c]] # "RUNNABLE"
    /\ skipped' = [skipped EXCEPT ![c] = @ + 1]
    /\ slot' = [slot EXCEPT ![c] = @ + 1]
    /\ UNCHANGED <<locks, cpuv, proc, at, table, threads>>

\* swtch() to the process, which goes on holding ptable.lock.
sched_run(c) ==
    /\ at[c] = "scan"
    /\ slot[c] <= NPROC
    /\ state[slot[c]] = "RUNNABLE"
    /\ skipped' = [skipped EXCEPT ![c] = 0]
    /\ proc' = [proc EXCEPT ![c] = slot[c]]
    /\ state' = [state EXCEPT ![slot[c]] = "RUNNING"]
    /\ at' = [at EXCEPT ![c] = "swtch"]
    /\ UNCHANGED <<locks, cpuv, slot, chan, killed, parent, threads>>

\* Mutant: hlt as soon as the end of the table was skipped.
sched_release_eager(c) ==
    /\ at[c] = "scan"
    /\ slot[c] > NPROC
    /\ ptable' = None
    /\ popcli(c, intena[c])
    /\ at' = [at EXCEPT ![c] = IF skipped[c] > 0 THEN "hlt" ELSE "top"]
    /\ UNCHANGED <<slk, locked, proc, slot, skipped, table, threads>>

\* The end of the table: release, and hlt after a round in vain.
sched_release(c) ==
    /\ at[c] = "scan"
    /\ slot[c] > NPROC
    /\ ptable' = None
    /\ popcli(c, intena[c])
    /\ at' = [at EXCEPT ![c] = IF skipped[c] > NPROC THEN "hlt" ELSE "top"]
    /\ UNCHANGED <<slk, locked, proc, slot, skipped, table, threads>>

\* An interrupt ends hlt, if interrupts are on.
sched_resume(c) ==
    /\ at[c] = "hlt"
    /\ eflags[c] = 1
    /\ skipped' = [skipped EXCEPT ![c] = 0]
    /\ at' = [at EXCEPT ![c] = "top"]
    /\ UNCHANGED <<locks, cpuv, proc, slot, table, threads>>

-----------------------------------------------------------------------------
(* The kernel thread of the process p that CPU c runs.                     *)

Runs(c, p, loc) == at[c] = "swtch" /\ proc[c] = p /\ pc[p] = loc

Goto(p, loc) == pc' = [pc EXCEPT ![p] = loc]

wakeup1(s, ch) ==
    [q \in Slots |-> IF s[q] = "SLEEPING" /\ chan[q] = ch THEN "RUNNABLE" ELSE s[q]]

\* sched() after its checks: swtch() back into the scheduler's loop.
SchedPanics(c, p) ==
    \/ ~holding(c, ptable) \/ ncli[c] # 1 \/ state[p] = "RUNNING" \/ eflags[c] = 1

SchedLocs == {"yield_sched", "kyield_sched", "sleep_sched", "wait_sched", "exit_sched"}

Resume(loc) == CASE loc = "yield_sched" -> "yield_back"
                 [] loc = "sleep_sched" -> "sleep_back"
                 [] loc = "wait_sched"  -> "wait_back"
                 [] loc = "kyield_sched" -> "kyield_back"
                 [] loc = "exit_sched"  -> "zombie"

sched(c, p) ==
    \E loc \in SchedLocs :
        /\ Runs(c, p, loc)
        /\ ~SchedPanics(c, p)
        /\ saved' = [saved EXCEPT ![p] = intena[c]]
        /\ Goto(p, Resume(loc))
        /\ proc' = [proc EXCEPT ![c] = None]
        /\ at' = [at EXCEPT ![c] = "scan"]
        /\ slot' = [slot EXCEPT ![c] = @ + 1]
        /\ UNCHANGED <<locks, cpuv, skipped, table, child>>

\* What a thread does first when it runs again: cpu->intena = intena, then
\* release(&ptable.lock).
SchedReturn(c, p) ==
    /\ ptable' = None
    /\ popcli(c, saved[p])

\* Mutant: forkret() without its release.
forkret_locked(c, p) ==
    /\ Runs(c, p, "forkret")
    /\ Goto(p, "trapret")
    /\ UNCHANGED <<locks, cpuv, sched_v, table, saved, child>>

\* A new process starts in forkret(), with whatever intena the CPU has.
forkret(c, p) ==
    /\ Runs(c, p, "forkret")
    /\ ptable' = None
    /\ popcli(c, intena[c])
    /\ Goto(p, "trapret")
    /\ UNCHANGED <<slk, locked, sched_v, table, saved, child>>

\* syscall_trapret: cli, then sysretq turns interrupts on in user mode.
trapret(c, p) ==
    /\ Runs(c, p, "trapret")
    /\ eflags' = [eflags EXCEPT ![c] = 1]
    /\ Goto(p, "user")
    /\ UNCHANGED <<locks, ncli, intena, sched_v, table, saved, child>>

\* The end of syscall(): exit if killed, else back to user mode.
sysret(c, p) ==
    /\ Runs(c, p, "ret")
    /\ Goto(p, IF killed[p] = 1 THEN "exit" ELSE "trapret")
    /\ UNCHANGED <<locks, cpuv, sched_v, table, saved, child>>

\* trap() on a clock tick: through an interrupt gate, so with FL_IF off.
timer(c, p) ==
    /\ eflags[c] = 1
    /\ \/ /\ Runs(c, p, "user")
          /\ Goto(p, IF killed[p] = 1 THEN "exit" ELSE "yield")
       \/ /\ Runs(c, p, "trapret")
          /\ Goto(p, "kyield")
    /\ eflags' = [eflags EXCEPT ![c] = 0]
    /\ UNCHANGED <<locks, ncli, intena, sched_v, table, saved, child>>

\* trap() on a fault in user mode.
fault(c, p) ==
    /\ Runs(c, p, "user")
    /\ killed' = [killed EXCEPT ![p] = 1]
    /\ eflags' = [eflags EXCEPT ![c] = 0]
    /\ Goto(p, "exit")
    /\ UNCHANGED <<locks, ncli, intena, sched_v, state, chan, parent, saved, child>>

yield(c, p) ==
    /\ \/ Runs(c, p, "yield") /\ Goto(p, "yield_sched")
       \/ Runs(c, p, "kyield") /\ Goto(p, "kyield_sched")
    /\ ptable = None
    /\ ptable' = c
    /\ pushcli(c)
    /\ state' = [state EXCEPT ![p] = "RUNNABLE"]
    /\ UNCHANGED <<slk, locked, sched_v, chan, killed, parent, saved, child>>

\* Back from yield(), and from the trap: iretq restores the old FL_IF.
yield_back(c, p) ==
    /\ \/ Runs(c, p, "yield_back") /\ Goto(p, IF killed[p] = 1 THEN "exit" ELSE "iret")
       \/ Runs(c, p, "kyield_back") /\ Goto(p, "kiret")
    /\ SchedReturn(c, p)
    /\ UNCHANGED <<slk, locked, sched_v, table, saved, child>>

iret(c, p) ==
    /\ \/ Runs(c, p, "iret") /\ Goto(p, "user")
       \/ Runs(c, p, "kiret") /\ Goto(p, "trapret")
    /\ eflags' = [eflags EXCEPT ![c] = 1]
    /\ UNCHANGED <<locks, ncli, intena, sched_v, table, saved, child>>

\* syscalls[]: where a call goes on; getpid() is done at once, and so is a
\* number without an entry.
syscalls(call) == CASE call = "kill0"  -> "kill"
                    [] call = "getpid" -> "ret"
                    [] OTHER           -> call

\* The syscall instruction masks FL_IF (MSR_SFMASK, vm.c:30).
syscall(c, p, call) ==
    /\ Runs(c, p, "user")
    /\ eflags' = [eflags EXCEPT ![c] = 0]
    /\ Goto(p, syscalls(call))
    /\ UNCHANGED <<locks, ncli, intena, sched_v, table, saved, child>>

-----------------------------------------------------------------------------
(* fork(), exit(), wait(), kill().                                         *)

\* What a scan of the table from its start comes to first.
Lowest(S) == {p \in S : \A q \in S : p <= q}

Unused == {q \in Slots : state[q] = "UNUSED"}

\* allocproc(); kalloc() panics rather than return 0.  killed is not reset.
allocproc(c, p) ==
    /\ Runs(c, p, "fork")
    /\ Section(c, ptable)
    /\ \/ /\ Unused = {}
          /\ Goto(p, "ret")
          /\ UNCHANGED <<state, child>>
       \/ /\ \E q \in Lowest(Unused) : /\ child' = [child EXCEPT ![p] = q]
                                       /\ state' = [state EXCEPT ![q] = "EMBRYO"]
          /\ Goto(p, "fork_copy")
    /\ UNCHANGED <<locks, sched_v, chan, killed, parent, saved>>

\* The rest of fork() works on the child without ptable.lock.
fork_copy(c, p) ==
    /\ Runs(c, p, "fork_copy")
    /\ parent' = [parent EXCEPT ![child[p]] = p]
    /\ pc' = [pc EXCEPT ![p] = "fork_publish", ![child[p]] = "forkret"]
    /\ UNCHANGED <<locks, cpuv, sched_v, state, chan, killed, saved, child>>

fork_publish(c, p) ==
    /\ Runs(c, p, "fork_publish")
    /\ state' = [state EXCEPT ![child[p]] = "RUNNABLE"]
    /\ child' = [child EXCEPT ![p] = None]
    /\ Goto(p, "ret")
    /\ UNCHANGED <<locks, cpuv, sched_v, chan, killed, parent, saved>>

Kids(p) == {q \in Slots : parent[q] = p}
Zombies(p) == {q \in Kids(p) : state[q] = "ZOMBIE"}

\* Mutants: the parent is not woken; init is not told of a zombie it is given.
exit_silent(c, p) ==
    /\ Runs(c, p, "exit")
    /\ p # initproc
    /\ ptable = None
    /\ ptable' = c
    /\ pushcli(c)
    /\ parent' = [q \in Slots |-> IF parent[q] = p THEN initproc ELSE parent[q]]
    /\ state' = [state EXCEPT ![p] = "ZOMBIE"]
    /\ Goto(p, "exit_sched")
    /\ UNCHANGED <<slk, locked, sched_v, chan, killed, saved, child>>

exit_init_not_told(c, p) ==
    /\ Runs(c, p, "exit")
    /\ p # initproc
    /\ ptable = None
    /\ ptable' = c
    /\ pushcli(c)
    /\ parent' = [q \in Slots |-> IF parent[q] = p THEN initproc ELSE parent[q]]
    /\ state' = [wakeup1(state, parent[p]) EXCEPT ![p] = "ZOMBIE"]
    /\ Goto(p, "exit_sched")
    /\ UNCHANGED <<slk, locked, sched_v, chan, killed, saved, child>>

\* exit() from acquire on: wake the parent, hand the children to init.
exit(c, p) ==
    /\ Runs(c, p, "exit")
    /\ p # initproc
    /\ ptable = None
    /\ ptable' = c
    /\ pushcli(c)
    /\ parent' = [q \in Slots |-> IF parent[q] = p THEN initproc ELSE parent[q]]
    /\ LET woken == wakeup1(state, parent[p])
           all == IF Zombies(p) = {} THEN woken ELSE wakeup1(woken, initproc)
       IN  state' = [all EXCEPT ![p] = "ZOMBIE"]
    /\ Goto(p, "exit_sched")
    /\ UNCHANGED <<slk, locked, sched_v, chan, killed, saved, child>>

\* wait()'s scan, which ends in a reaped child, in -1, or in sleep().
wait_reap(p) ==
    \E q \in Lowest(Zombies(p)) :
        /\ state' = [state EXCEPT ![q] = "UNUSED"]
        /\ parent' = [parent EXCEPT ![q] = None]
        /\ killed' = [killed EXCEPT ![q] = 0]
        /\ pc' = [pc EXCEPT ![p] = "ret", ![q] = "none"]

wait_none(p) ==
    /\ Zombies(p) = {}
    /\ Kids(p) = {} \/ killed[p] = 1
    /\ Goto(p, "ret")
    /\ UNCHANGED <<state, killed, parent>>

wait_sleep(p) ==
    /\ Zombies(p) = {}
    /\ Kids(p) # {} /\ killed[p] = 0
    /\ state' = [state EXCEPT ![p] = "SLEEPING"]
    /\ Goto(p, "wait_sched")
    /\ UNCHANGED <<killed, parent>>

wait(c, p) ==
    /\ Runs(c, p, "wait")
    /\ \/ /\ wait_reap(p) \/ wait_none(p)
          /\ Section(c, ptable)
          /\ UNCHANGED <<ptable, chan>>
       \/ /\ wait_sleep(p)
          /\ ptable = None
          /\ ptable' = c
          /\ pushcli(c)
          /\ chan' = [chan EXCEPT ![p] = p]
    /\ UNCHANGED <<slk, locked, sched_v, saved, child>>

\* Woken in wait(): ptable.lock is held, the scan starts again.
wait_back(c, p) ==
    /\ Runs(c, p, "wait_back")
    /\ \/ /\ wait_reap(p) \/ wait_none(p)
          /\ SchedReturn(c, p)
          /\ chan' = [chan EXCEPT ![p] = None]
       \/ /\ wait_sleep(p)
          /\ intena' = [intena EXCEPT ![c] = saved[p]]
          /\ chan' = [chan EXCEPT ![p] = p]
          /\ UNCHANGED <<ptable, eflags, ncli>>
    /\ UNCHANGED <<slk, locked, sched_v, saved, child>>

\* kill() of the process q, or, with pid 0, of the first slot whose pid is 0.
KillTargets == (IF "kill" \in Calls THEN Slots \ Unused ELSE {})
               \union (IF "kill0" \in Calls THEN Lowest(Unused) ELSE {})

\* Mutant: a sleeping victim is not woken.
kill_asleep(c, p, q) ==
    /\ Runs(c, p, "kill")
    /\ Section(c, ptable)
    /\ killed' = [killed EXCEPT ![q] = 1]
    /\ Goto(p, "ret")
    /\ UNCHANGED <<locks, sched_v, state, chan, parent, saved, child>>

kill(c, p, q) ==
    /\ Runs(c, p, "kill")
    /\ Section(c, ptable)
    /\ killed' = [killed EXCEPT ![q] = 1]
    /\ state' = [state EXCEPT ![q] = IF @ = "SLEEPING" THEN "RUNNABLE" ELSE @]
    /\ Goto(p, "ret")
    /\ UNCHANGED <<locks, sched_v, chan, parent, saved, child>>

\* kill() of a pid that no slot has.
kill_none(c, p) ==
    /\ Runs(c, p, "kill")
    /\ Section(c, ptable)
    /\ Goto(p, "ret")
    /\ UNCHANGED <<locks, sched_v, table, saved, child>>

-----------------------------------------------------------------------------
(* A system call that holds a sleep lock: acquiresleep(), releasesleep().  *)

\* acquire(&lk->lk) and the test of lk->locked.
acquiresleep(c, p) ==
    /\ Runs(c, p, "lock")
    /\ \/ /\ locked = None
          /\ Section(c, slk)
          /\ locked' = p
          /\ Goto(p, "locked")
          /\ UNCHANGED slk
       \/ /\ locked # None
          /\ slk = None
          /\ slk' = c
          /\ pushcli(c)
          /\ Goto(p, "sleep")
          /\ UNCHANGED locked
    /\ UNCHANGED <<ptable, sched_v, table, saved, child>>

\* sleep(lk, &lk->lk): ptable.lock is taken before lk->lk is released.
sleep(c, p) ==
    /\ Runs(c, p, "sleep")
    /\ ptable = None
    /\ ptable' = c
    /\ slk' = None
    /\ chan' = [chan EXCEPT ![p] = LK]
    /\ state' = [state EXCEPT ![p] = "SLEEPING"]
    /\ Goto(p, "sleep_sched")
    /\ UNCHANGED <<locked, cpuv, sched_v, killed, parent, saved, child>>

\* Mutant: "if (lk->locked)" instead of "while".
sleep_back_if(c, p) ==
    /\ Runs(c, p, "sleep_back")
    /\ SchedReturn(c, p)
    /\ chan' = [chan EXCEPT ![p] = None]
    /\ locked' = p
    /\ Goto(p, "locked")
    /\ UNCHANGED <<slk, sched_v, state, killed, parent, saved, child>>

\* Woken: chan = 0, release ptable.lock, and back to acquire(lk).
sleep_back(c, p) ==
    /\ Runs(c, p, "sleep_back")
    /\ SchedReturn(c, p)
    /\ chan' = [chan EXCEPT ![p] = None]
    /\ Goto(p, "lock")
    /\ UNCHANGED <<slk, locked, sched_v, state, killed, parent, saved, child>>

\* releasesleep() up to wakeup(lk), which needs ptable.lock as well.
releasesleep(c, p) ==
    /\ Runs(c, p, "locked")
    /\ slk = None
    /\ slk' = c
    /\ pushcli(c)
    /\ locked' = None
    /\ Goto(p, "wakeup")
    /\ UNCHANGED <<ptable, sched_v, table, saved, child>>

\* Mutant: releasesleep() wakes nobody.
wakeup_none(c, p) ==
    /\ Runs(c, p, "wakeup")
    /\ ptable = None
    /\ slk' = None
    /\ popcli(c, intena[c])
    /\ Goto(p, "ret")
    /\ UNCHANGED <<ptable, locked, sched_v, table, saved, child>>

wakeup(c, p) ==
    /\ Runs(c, p, "wakeup")
    /\ ptable = None
    /\ slk' = None
    /\ popcli(c, intena[c])
    /\ state' = wakeup1(state, LK)
    /\ Goto(p, "ret")
    /\ UNCHANGED <<ptable, locked, sched_v, chan, killed, parent, saved, child>>

\* exit()'s panic("init exiting"): init was killed, had a fault or called exit().
InitExits(c) == proc[c] = initproc /\ pc[initproc] = "exit"

\* A CPU about to meet a panic of acquire() or sched(), or to return to the
\* thread of a process that has exited.
Panics(c) ==
    proc[c] # None /\
    LET p == proc[c] IN
        \/ holding(c, ptable) /\ pc[p] \in {"yield", "kyield", "fork", "exit", "wait", "kill", "sleep", "wakeup"}
        \/ holding(c, slk) /\ pc[p] \in {"lock", "locked"}
        \/ SchedPanics(c, p) /\ pc[p] \in SchedLocs
        \/ pc[p] = "zombie"

\* panic() ends in for(;;), with interrupts off: this CPU goes no further.
panic(c) == (InitExits(c) \/ Panics(c)) /\ UNCHANGED vars

-----------------------------------------------------------------------------
Scheduler(c) ==
    \/ sched_acquire(c) \/ sched_skip(c) \/ sched_run(c)
    \/ sched_release(c) \/ sched_resume(c)

\* The calls of sysproc.c.
sys_fork(c, p) == allocproc(c, p) \/ fork_copy(c, p) \/ fork_publish(c, p)
sys_exit(c, p) == exit(c, p)
sys_wait(c, p) == wait(c, p) \/ wait_back(c, p)
sys_kill(c, p) == (\E q \in KillTargets : kill(c, p, q)) \/ kill_none(c, p)

Thread(c, p) ==
    \/ sched(c, p)
    \/ forkret(c, p) \/ trapret(c, p) \/ sysret(c, p)
    \/ yield(c, p) \/ yield_back(c, p) \/ iret(c, p)
    \/ sys_fork(c, p) \/ sys_exit(c, p) \/ sys_wait(c, p) \/ sys_kill(c, p)
    \/ acquiresleep(c, p) \/ sleep(c, p) \/ sleep_back(c, p)
    \/ releasesleep(c, p) \/ wakeup(c, p)

Next ==
    \E c \in CPUs :
        \/ Scheduler(c) \/ panic(c)
        \/ \E p \in Slots :
              \/ Thread(c, p) \/ timer(c, p) \/ fault(c, p)
              \/ \E call \in Calls : syscall(c, p, call)

Spec == Init /\ [][Next]_vars

-----------------------------------------------------------------------------
\* acquire() and sched() meet none of their panics: no lock is taken twice,
\* sched() is entered with exactly ptable.lock and interrupts off, and no
\* process runs again after its exit().  The panic this leaves out is exit()'s
\* own, InitExits, which kill(1), a fault of init or its exit() does bring up.
NoLockPanic == \A c \in CPUs : ~Panics(c)

\* proc.c:237: wait() never frees the stack some CPU still runs on, although
\* exit() publishes ZOMBIE from that very stack.
StackInUse ==
    \A c \in CPUs : proc[c] # None => state[proc[c]] \notin {"UNUSED", "EMBRYO"}

\* proc.c:302-303: a CPU halts only with interrupts on, although the intena it
\* restores after a round is that of the last process it ran.
NoMaskedHalt == \A c \in CPUs : at[c] = "hlt" => eflags[c] = 1

\* proc.c:200, 207: nobody sleeps in wait() with a child to collect, or with
\* no child at all, whoever exits, hands over children or is woken meanwhile.
WaitMissesNoExit ==
    \A p \in Slots : state[p] = "SLEEPING" /\ chan[p] = p => Zombies(p) = {} /\ Kids(p) # {}

\* proc.c:378-387: a process sleeps on a sleep lock only while the lock is
\* taken or its last holder is about to call wakeup().
SleepMissesNoWakeup ==
    \A p \in Slots : state[p] = "SLEEPING" /\ chan[p] = LK
        => locked # None \/ \E q \in Slots : pc[q] = "wakeup"

\* sleeplock.c:26-29: between acquiresleep() and releasesleep() a process has
\* the sleep lock to itself.
SleepLockExclusive == \A p \in Slots : pc[p] = "locked" <=> locked = p

\* proc.c:438-440, 251: a kill is not lost on a process about to sleep in wait().
KillMissesNoSleeper ==
    \A p \in Slots : state[p] = "SLEEPING" /\ killed[p] = 1 => chan[p] = LK

\* proc.c:426, "Kill the process with the given pid": kill() marks a process.
KillHitsProcess ==
    [][\A p \in Slots : killed'[p] = 1 /\ killed[p] = 0 => state[p] # "UNUSED"]_vars

\* proc.c:426-428: a killed process comes to its exit(), whether the kill
\* found it in user mode, in a call or asleep in wait(), unless init has
\* brought the kernel to a stop.
KilledExits ==
    \A p \in Slots : killed[p] = 1 /\ state[p] # "UNUSED"
        ~> state[p] = "ZOMBIE" \/ killed[p] = 0 \/ pc[initproc] = "exit"

\* A parent that waits collects a child that has exited, with the same proviso.
ZombieCollected ==
    \A p \in Slots : pc[p] \in {"wait", "wait_sched", "wait_back"} /\ Zombies(p) # {}
        ~> pc[p] = "ret" \/ pc[initproc] = "exit"
=============================================================================
