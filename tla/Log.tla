-------------------------------- MODULE Log --------------------------------
(* The redo log of log.c, on top of the buffer cache (bio.c) and a disk    *)
(* whose single-sector writes are atomic, with a crash possible at every   *)
(* step and recovery itself interruptible.                                 *)
EXTENDS Integers, Sequences, FiniteSets

CONSTANTS Procs,        \* processes that make file-system calls
          Data,         \* contents of a block
          NoBuf,        \* "no buffer": not cached, nothing held
          MAXOPBLOCKS,  \* blocks begin_op() reserves for a call (param.h:10)
          LOGSIZE,      \* entries of struct logheader (param.h:11)
          LogStart,     \* sb.logstart: the header block
          LogSize,      \* sb.nlog: header and data blocks of the log region
          FSSize,       \* sb.size: blocks of the file system
          OpWrites      \* bound: log_write() calls made by one system call

ASSUME LogAssumption ==
    /\ IsFiniteSet(Procs)
    /\ NoBuf \notin Data
    /\ MAXOPBLOCKS \in Nat \ {0} /\ LOGSIZE \in Nat /\ MAXOPBLOCKS <= LOGSIZE
    /\ LogStart \in Nat /\ LogSize \in Nat \ {0} /\ FSSize \in Nat
    /\ LogStart + LogSize <= FSSize
    /\ NoBuf \notin Nat
    /\ OpWrites \in Nat

\* Blocks above the header: the log's data blocks, then the rest of the disk.
Addr == LogStart + 1 .. FSSize - 1
Home == LogStart + LogSize .. FSSize - 1
\* Block number of log slot t = 0, 1, ...; slot LogSize-1 would be Home's first.
Slot(t) == LogStart + t + 1

VARIABLES disk,         \* blocks on disk, the log header apart
          head,         \* the on-disk header block: its block[0..n-1]
          cache,        \* buffers of home blocks, NoBuf where not cached; a
                        \* buffer of a log block is always a copy of the disk
          dirty,        \* blocks whose buffer has B_DIRTY
          lh,           \* log.lh.block[0..n-1] in memory
          outstanding, committing,  \* log.outstanding, log.committing
          pc,           \* where each process is
          held,         \* the buffer a process holds locked
          nw,           \* log_write() calls made by the current system call
          tail,         \* the loop variable of write_log()/install_trans()
          boot          \* where recovery is; "done" once initlog() returned

memory == <<cache, dirty, lh, outstanding, committing, pc, held, nw, tail, boot>>
vars == <<disk, head, memory>>

InOp == {"op", "logging"}
InCommit == {"write_log", "write_head", "install_trans", "clear_head", "end_commit"}
PCs == {"idle", "sleeping", "woken", "panic"} \union InOp \union InCommit

Logged(s) == {s[i] : i \in DOMAIN s}

\* bread(): the cached contents, else the disk's.
Bread(a) == IF a \in Home /\ cache[a] # NoBuf THEN cache[a] ELSE disk[a]

\* wakeup(&log): every process sleeping on the log runs again.
Wakeup(f) == [q \in Procs |-> IF f[q] = "sleeping" THEN "woken" ELSE f[q]]

\* Memory as it is when the kernel starts, before initlog().
Booting ==
    /\ cache' = [b \in Home |-> NoBuf]
    /\ dirty' = {}
    /\ lh' = <<>>
    /\ outstanding' = 0
    /\ committing' = 0
    /\ pc' = [p \in Procs |-> "idle"]
    /\ held' = [p \in Procs |-> NoBuf]
    /\ nw' = [p \in Procs |-> 0]
    /\ tail' = 0
    /\ boot' = "read_head"

Init ==
    /\ disk \in [Addr -> Data]
    /\ head = <<>>
    /\ cache = [b \in Home |-> NoBuf]
    /\ dirty = {}
    /\ lh = <<>>
    /\ outstanding = 0
    /\ committing = 0
    /\ pc = [p \in Procs |-> "idle"]
    /\ held = [p \in Procs |-> NoBuf]
    /\ nw = [p \in Procs |-> 0]
    /\ tail = 0
    /\ boot = "read_head"

-----------------------------------------------------------------------------
(* begin_op(): admitted, or asleep until a wakeup lets it look again.      *)

MustWait == committing = 1 \/ Len(lh) + (outstanding + 1) * MAXOPBLOCKS > LOGSIZE

begin_op(p) ==
    /\ boot = "done"
    /\ pc[p] \in {"idle", "woken"}
    /\ \/ /\ MustWait
          /\ pc' = [pc EXCEPT ![p] = "sleeping"]
          /\ UNCHANGED <<outstanding, nw>>
       \/ /\ ~MustWait
          /\ outstanding' = outstanding + 1
          /\ pc' = [pc EXCEPT ![p] = "op"]
          /\ nw' = [nw EXCEPT ![p] = 0]
    /\ UNCHANGED <<disk, head, cache, dirty, lh, committing, held, tail, boot>>

(* A caller locks and changes a buffer and enters log_write(), which tests *)
(* the log's limits before it takes log.lock.                              *)

TooBig == Len(lh) >= LOGSIZE \/ Len(lh) >= LogSize - 1

modify(p, b, v) ==
    /\ boot = "done"
    /\ pc[p] = "op"
    /\ nw[p] < OpWrites
    /\ \A q \in Procs : held[q] # b
    /\ held' = [held EXCEPT ![p] = b]
    /\ cache' = [cache EXCEPT ![b] = v]
    /\ nw' = [nw EXCEPT ![p] = @ + 1]
    /\ pc' = [pc EXCEPT ![p] = IF TooBig \/ outstanding < 1 THEN "panic" ELSE "logging"]
    /\ UNCHANGED <<disk, head, dirty, lh, outstanding, committing, tail, boot>>

\* Mutant: b->flags |= B_DIRTY is forgotten.
log_write_unpinned(p) ==
    /\ boot = "done"
    /\ pc[p] = "logging"
    /\ lh' = IF held[p] \in Logged(lh) THEN lh ELSE Append(lh, held[p])
    /\ held' = [held EXCEPT ![p] = NoBuf]
    /\ pc' = [pc EXCEPT ![p] = "op"]
    /\ UNCHANGED <<disk, head, cache, dirty, outstanding, committing, nw, tail, boot>>

\* The part of log_write() under log.lock, then the caller's brelse().
log_write(p) ==
    /\ boot = "done"
    /\ pc[p] = "logging"
    /\ lh' = IF held[p] \in Logged(lh) THEN lh ELSE Append(lh, held[p])
    /\ dirty' = dirty \union {held[p]}
    /\ held' = [held EXCEPT ![p] = NoBuf]
    /\ pc' = [pc EXCEPT ![p] = "op"]
    /\ UNCHANGED <<disk, head, cache, outstanding, committing, nw, tail, boot>>

\* end_op() up to the release of log.lock, and commit()'s test of lh.n.
end_op(p) ==
    /\ boot = "done"
    /\ pc[p] = "op"
    /\ outstanding' = outstanding - 1
    /\ \/ /\ committing = 1
          /\ pc' = [pc EXCEPT ![p] = "panic"]
          /\ UNCHANGED <<committing, tail>>
       \/ /\ committing = 0
          /\ outstanding' = 0
          /\ committing' = 1
          /\ tail' = 0
          /\ pc' = [pc EXCEPT ![p] = IF lh = <<>> THEN "end_commit" ELSE "write_log"]
       \/ /\ committing = 0
          /\ outstanding' # 0
          /\ pc' = Wakeup([pc EXCEPT ![p] = "idle"])
          /\ UNCHANGED <<committing, tail>>
    /\ UNCHANGED <<disk, head, cache, dirty, lh, held, nw, boot>>

-----------------------------------------------------------------------------
(* commit(), one disk write per step.                                      *)

\* bwrite() of a buffer filled with d: on disk, cached, and no longer dirty.
Bwrite(a, d) ==
    /\ disk' = [disk EXCEPT ![a] = d]
    /\ cache' = [b \in Home |-> IF b = a THEN d ELSE cache[b]]
    /\ dirty' = dirty \ {a}

write_log(p) ==
    /\ boot = "done"
    /\ pc[p] = "write_log"
    /\ Bwrite(Slot(tail), Bread(lh[tail + 1]))
    /\ \/ /\ tail + 1 < Len(lh)
          /\ tail' = tail + 1
          /\ UNCHANGED pc
       \/ /\ tail + 1 = Len(lh)
          /\ tail' = 0
          /\ pc' = [pc EXCEPT ![p] = "write_head"]
    /\ UNCHANGED <<head, lh, outstanding, committing, held, nw, boot>>

\* Mutant: the header does not reach the disk before install_trans().
write_head_lost(p) ==
    /\ boot = "done"
    /\ pc[p] = "write_head"
    /\ pc' = [pc EXCEPT ![p] = "install_trans"]
    /\ UNCHANGED <<disk, head, cache, dirty, lh, outstanding, committing, held, nw, tail, boot>>

\* "the true point at which the current transaction commits"
write_head(p) ==
    /\ boot = "done"
    /\ pc[p] = "write_head"
    /\ head' = lh
    /\ pc' = [pc EXCEPT ![p] = "install_trans"]
    /\ UNCHANGED <<disk, cache, dirty, lh, outstanding, committing, held, nw, tail, boot>>

\* One round of install_trans(), for commit() and for recovery.
InstallBlock == Bwrite(lh[tail + 1], Bread(Slot(tail)))

install_trans(p) ==
    /\ boot = "done"
    /\ pc[p] = "install_trans"
    /\ InstallBlock
    /\ tail' = tail + 1
    /\ pc' = IF tail + 1 < Len(lh) THEN pc ELSE [pc EXCEPT ![p] = "clear_head"]
    /\ UNCHANGED <<head, lh, outstanding, committing, held, nw, boot>>

\* log.lh.n = 0; write_head()
clear_head(p) ==
    /\ boot = "done"
    /\ pc[p] = "clear_head"
    /\ lh' = <<>>
    /\ head' = <<>>
    /\ pc' = [pc EXCEPT ![p] = "end_commit"]
    /\ UNCHANGED <<disk, cache, dirty, outstanding, committing, held, nw, tail, boot>>

\* Mutant of the end of end_op(): no wakeup.
end_commit_silent(p) ==
    /\ boot = "done"
    /\ pc[p] = "end_commit"
    /\ committing' = 0
    /\ pc' = [pc EXCEPT ![p] = "idle"]
    /\ UNCHANGED <<disk, head, cache, dirty, lh, outstanding, held, nw, tail, boot>>

\* The end of end_op(), after commit().
end_commit(p) ==
    /\ boot = "done"
    /\ pc[p] = "end_commit"
    /\ committing' = 0
    /\ pc' = Wakeup([pc EXCEPT ![p] = "idle"])
    /\ UNCHANGED <<disk, head, cache, dirty, lh, outstanding, held, nw, tail, boot>>

-----------------------------------------------------------------------------
(* recover_from_log(), run by initlog() before any process makes a call.   *)

\* Mutant of recovery: a committed transaction is dropped.
recover_read_head_drop ==
    /\ boot = "read_head"
    /\ lh' = head
    /\ tail' = 0
    /\ boot' = "clear_head"
    /\ UNCHANGED <<disk, head, cache, dirty, outstanding, committing, pc, held, nw>>

recover_read_head ==
    /\ boot = "read_head"
    /\ lh' = head
    /\ tail' = 0
    /\ boot' = IF head = <<>> THEN "clear_head" ELSE "install_trans"
    /\ UNCHANGED <<disk, head, cache, dirty, outstanding, committing, pc, held, nw>>

recover_install ==
    /\ boot = "install_trans"
    /\ InstallBlock
    /\ tail' = tail + 1
    /\ boot' = IF tail + 1 < Len(lh) THEN boot ELSE "clear_head"
    /\ UNCHANGED <<head, lh, outstanding, committing, pc, held, nw>>

recover_clear ==
    /\ boot = "clear_head"
    /\ lh' = <<>>
    /\ head' = <<>>
    /\ boot' = "done"
    /\ UNCHANGED <<disk, cache, dirty, outstanding, committing, pc, held, nw, tail>>

\* bget() recycles a buffer nobody holds and that is not dirty.
evict(b) ==
    /\ cache[b] # NoBuf
    /\ b \notin dirty
    /\ \A p \in Procs : held[p] # b
    /\ cache' = [cache EXCEPT ![b] = NoBuf]
    /\ UNCHANGED <<disk, head, dirty, lh, outstanding, committing, pc, held, nw, tail, boot>>

\* Power failure: the disk survives, memory does not.
crash ==
    /\ Booting
    /\ UNCHANGED <<disk, head>>

Step(p) ==
    \/ begin_op(p) \/ log_write(p) \/ end_op(p)
    \/ \E b \in Home, v \in Data : modify(p, b, v)
    \/ write_log(p) \/ write_head(p) \/ install_trans(p)
    \/ clear_head(p) \/ end_commit(p)

Recover == recover_read_head \/ recover_install \/ recover_clear

Next ==
    \/ \E p \in Procs : Step(p)
    \/ Recover
    \/ \E b \in Home : evict(b)
    \/ crash

Spec == Init /\ [][Next]_vars

\* A process inside a call goes on.
Proceed(p) == pc[p] # "idle" /\ Step(p)

-----------------------------------------------------------------------------
TypeOK ==
    /\ disk \in [Addr -> Data]
    /\ head \in Seq(Home)
    /\ cache \in [Home -> Data \union {NoBuf}]
    /\ dirty \subseteq Home
    /\ lh \in Seq(Home)
    /\ outstanding \in Nat
    /\ committing \in {0, 1}
    /\ pc \in [Procs -> PCs]
    /\ held \in [Procs -> Home \union {NoBuf}]
    /\ nw \in [Procs -> Nat]
    /\ tail \in Nat
    /\ boot \in {"read_head", "install_trans", "clear_head", "done"}

\* The blocks of the file system as recovery from the present disk makes them.
Durable ==
    [b \in Home |-> IF b \in Logged(head)
                    THEN disk[Slot((CHOOSE i \in DOMAIN head : head[i] = b) - 1)]
                    ELSE disk[b]]

\* The blocks as bread() returns them; until recovery is over nobody asks.
Current == IF boot = "done" THEN [b \in Home |-> Bread(b)] ELSE Durable

Active == {p \in Procs : pc[p] \in InOp \union {"panic"}}

\* log.c:9-22, 98-100: whatever the interleaving of calls, commits, crashes
\* and interrupted recoveries, the disk only ever moves from one state with
\* all calls complete to another, and a crash keeps exactly the last one.
AD == INSTANCE AtomicDisk WITH Blocks <- Home, active <- Active,
                               current <- Current, durable <- Durable
CrashAtomic == AD!Spec

\* Write-ahead: install_trans() may overwrite a home block only while the
\* on-disk header lists it, so a crash half way is always redone.
WriteAhead == [][\A b \in Home : disk'[b] # disk[b] => b \in Logged(head)]_vars

\* log.c:229: a change the disk does not have yet sits in a buffer that
\* bget() will not recycle, because it is dirty or still locked.
UncommittedPinned ==
    boot = "done" =>
        \A b \in Home : Bread(b) # disk[b] => b \in dirty \/ \E p \in Procs : held[p] = b

\* log.c:152-156: a committing process has the log to itself, so nothing is
\* added to a transaction whose blocks are being copied.
CommitAlone ==
    \A p \in Procs : pc[p] \in InCommit =>
        /\ committing = 1
        /\ outstanding = 0
        /\ \A q \in Procs \ {p} : pc[q] \notin InOp \union InCommit

\* When every end_op() has returned, all that was written is on disk.
DurableWhenIdle ==
    boot = "done" /\ (\A p \in Procs : pc[p] \in {"idle", "sleeping", "woken"})
        => Current = Durable /\ dirty = {} /\ head = <<>>

\* A process asleep in begin_op() has somebody left to wake it.
SleeperHasWaker ==
    \A p \in Procs : pc[p] = "sleeping" => committing = 1 \/ outstanding > 0

\* log.c:216: the log's data blocks stay inside the log region; one more
\* entry and write_log() would copy over the first inode block.
LogFits == Len(lh) <= LogSize - 1 /\ Len(lh) <= LOGSIZE

\* No call under way has logged as many blocks as begin_op() reserved for it.
InBudget == \A p \in Procs : nw[p] < MAXOPBLOCKS

\* begin_op()'s reservation is enough: no call ever meets a log.c panic.
NoPanic == \A p \in Procs : pc[p] # "panic"

\* Nobody sleeps on the log for ever (begin_op's two sleeps, end_op's wakeups).
SleeperWakes == \A p \in Procs : pc[p] = "sleeping" ~> pc[p] # "sleeping"
=============================================================================
