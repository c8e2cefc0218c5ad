-------------------------------- MODULE Inode --------------------------------
(* The inode cache of fs.c and the calls of sysfile.c that make, link,     *)
(* open and remove files of one directory.  Steps are the sections under   *)
(* icache.lock, the taking of an inode's sleep lock, and each visit to the *)
(* inode on disk (through the buffer cache and the log).                   *)
EXTENDS Integers, FiniteSets

CONSTANTS Procs, Names,
          NInodes,   \* inodes on disk, 1 .. NInodes
          NINODE,    \* entries of the cache
          None,      \* no process, no entry
          Calls      \* the system calls processes make, of the set below

ASSUME InodeAssumption ==
    /\ NInodes \in Nat \ {0} /\ NINODE \in Nat \ {0} /\ IsFiniteSet(Procs)
    /\ None \notin Procs /\ None \notin Nat
    /\ Calls \subseteq {"open", "create", "link", "unlink", "close"}

Inums == 1 .. NInodes
Slots == 1 .. NINODE

VARIABLES dinode,    \* on disk: type (0 is free) and nlink
          dir,       \* directory entries: an inum, 0 if none
          dirlock,   \* the process that has the directory locked
          icache,    \* struct inode: inum, ref, valid (I_VALID), type, nlink, lock
          pc,        \* what each process does: call and place in it
          ip,        \* the cache entry its call works on
          args,      \* the names its call was given
          fd         \* the cache entry of its open file

inodeVars == <<dinode, dir, dirlock, icache, pc, ip, args, fd>>

\* Names refer to inodes of their own; the rest is free.
InodeInit ==
    /\ dir \in {d \in [Names -> 0 .. NInodes] :
                  \A m, n \in Names : d[m] = d[n] /\ d[m] # 0 => m = n}
    /\ dinode = [i \in Inums |-> IF \E n \in Names : dir[n] = i
                                 THEN [type |-> 1, nlink |-> 1] ELSE [type |-> 0, nlink |-> 0]]
    /\ dirlock = None
    /\ icache = [s \in Slots |-> [inum |-> 0, ref |-> 0, valid |-> 0, type |-> 0,
                                  nlink |-> 0, lock |-> None]]
    /\ pc = [p \in Procs |-> <<"idle", "">>]
    /\ ip = [p \in Procs |-> None]
    /\ args = [p \in Procs |-> <<None, None>>]
    /\ fd = [p \in Procs |-> None]

\* What a scan from the start comes to first.
First(S) == {x \in S : \A y \in S : x <= y}
At(p, call, place) == pc[p] = <<call, place>>
\* Its arguments are of no use to a call once it puts its inode or is over.
Goto(p, call, place) ==
    /\ pc' = [pc EXCEPT ![p] = <<call, place>>]
    /\ args' = [args EXCEPT ![p] = IF call \in {"idle", "iput"} THEN <<None, None>> ELSE @]
Old(p) == args[p][1]
New(p) == args[p][2]

-----------------------------------------------------------------------------
(* The functions of fs.c.                                                  *)

\* iget(): the entry of inode i, or a free entry made its own.
Cached(i) == {s \in Slots : icache[s].ref > 0 /\ icache[s].inum = i}
Free == {s \in Slots : icache[s].ref = 0}

\* Mutant: a recycled entry keeps its I_VALID.
iget_stale(p, i, call) ==
    \/ /\ \E s \in First(Cached(i)) : /\ ip' = [ip EXCEPT ![p] = s]
                                      /\ icache' = [icache EXCEPT ![s].ref = @ + 1]
       /\ Goto(p, call, "ilock")
    \/ /\ Cached(i) = {}
       /\ \E s \in First(Free) : /\ ip' = [ip EXCEPT ![p] = s]
                                 /\ icache' = [icache EXCEPT ![s].inum = i, ![s].ref = 1]
       /\ Goto(p, call, "ilock")
    \/ /\ Cached(i) = {} /\ Free = {}
       /\ Goto(p, "iget", "panic")
       /\ UNCHANGED <<icache, ip>>

iget(p, i, call) ==
    \/ /\ \E s \in First(Cached(i)) : /\ ip' = [ip EXCEPT ![p] = s]
                                      /\ icache' = [icache EXCEPT ![s].ref = @ + 1]
       /\ Goto(p, call, "ilock")
    \/ /\ Cached(i) = {}
       /\ \E s \in First(Free) :
             /\ ip' = [ip EXCEPT ![p] = s]
             /\ icache' = [icache EXCEPT ![s].inum = i, ![s].ref = 1, ![s].valid = 0]
       /\ Goto(p, call, "ilock")
    \/ /\ Cached(i) = {} /\ Free = {}
       /\ Goto(p, "iget", "panic")
       /\ UNCHANGED <<icache, ip>>

\* iupdate() of entry s, holding what e says.
iupdate(s, e) == dinode' = [dinode EXCEPT ![icache[s].inum] = [type |-> e.type, nlink |-> e.nlink]]

\* ilock(): the sleep lock, then the inode from disk if it is not valid.
ilock(p, call) ==
    /\ At(p, call, "ilock")
    /\ icache[ip[p]].lock = None
    /\ icache' = [icache EXCEPT ![ip[p]].lock = p]
    /\ Goto(p, call, IF icache[ip[p]].valid = 1 THEN "locked" ELSE "read")
    /\ UNCHANGED <<dinode, dir, dirlock, ip, fd>>

ilock_read(p, call) ==
    /\ At(p, call, "read")
    /\ LET d == dinode[icache[ip[p]].inum]
       IN  /\ icache' = [icache EXCEPT ![ip[p]].type = d.type, ![ip[p]].nlink = d.nlink,
                                       ![ip[p]].valid = 1]
           /\ Goto(p, call, IF d.type = 0 THEN "panic" ELSE "locked")
    /\ UNCHANGED <<dinode, dir, dirlock, ip, fd>>

\* Mutant: tests ref after its decrement.
iput_keep(p) ==
    /\ At(p, "iput", "")
    /\ LET e == icache[ip[p]]
       IN  \/ /\ e.ref = 0 /\ e.valid = 1 /\ e.nlink = 0
              /\ Goto(p, "iput", "free")
              /\ UNCHANGED <<icache, ip>>
           \/ /\ ~(e.ref = 0 /\ e.valid = 1 /\ e.nlink = 0)
              /\ icache' = [icache EXCEPT ![ip[p]].ref = @ - 1]
              /\ ip' = [ip EXCEPT ![p] = None]
              /\ Goto(p, "idle", "")
    /\ UNCHANGED <<dinode, dir, dirlock, fd>>

\* Mutant: frees an inode that others still use.
iput_early(p) ==
    /\ At(p, "iput", "")
    /\ LET e == icache[ip[p]]
       IN  \/ /\ e.valid = 1 /\ e.nlink = 0
              /\ Goto(p, "iput", "free")
              /\ UNCHANGED <<icache, ip>>
           \/ /\ ~(e.valid = 1 /\ e.nlink = 0)
              /\ icache' = [icache EXCEPT ![ip[p]].ref = @ - 1]
              /\ ip' = [ip EXCEPT ![p] = None]
              /\ Goto(p, "idle", "")
    /\ UNCHANGED <<dinode, dir, dirlock, fd>>

\* iput(), up to where it lets go of icache.lock.
iput(p) ==
    /\ At(p, "iput", "")
    /\ LET e == icache[ip[p]]
       IN  \/ /\ e.ref = 1 /\ e.valid = 1 /\ e.nlink = 0
              /\ Goto(p, "iput", "free")
              /\ UNCHANGED <<icache, ip>>
           \/ /\ ~(e.ref = 1 /\ e.valid = 1 /\ e.nlink = 0)
              /\ icache' = [icache EXCEPT ![ip[p]].ref = @ - 1]
              /\ ip' = [ip EXCEPT ![p] = None]
              /\ Goto(p, "idle", "")
    /\ UNCHANGED <<dinode, dir, dirlock, fd>>

\* itrunc(), type = 0, iupdate(): without the inode's lock.
iput_free(p) ==
    /\ At(p, "iput", "free")
    /\ icache' = [icache EXCEPT ![ip[p]].type = 0]
    /\ iupdate(ip[p], icache'[ip[p]])
    /\ Goto(p, "iput", "end")
    /\ UNCHANGED <<dir, dirlock, ip, fd>>

iput_end(p) ==
    /\ At(p, "iput", "end")
    /\ icache' = [icache EXCEPT ![ip[p]].valid = 0, ![ip[p]].ref = @ - 1]
    /\ ip' = [ip EXCEPT ![p] = None]
    /\ Goto(p, "idle", "")
    /\ UNCHANGED <<dinode, dir, dirlock, fd>>

-----------------------------------------------------------------------------
(* The system calls.                                                       *)

syscall(p, call, old, new) ==
    /\ At(p, "idle", "")
    /\ call \in {"open", "create"} => fd[p] = None
    /\ args' = [args EXCEPT ![p] = <<old, new>>]
    /\ pc' = [pc EXCEPT ![p] = <<call, "start">>]
    /\ UNCHANGED <<dinode, dir, dirlock, icache, ip, fd>>

\* namei(): look the name up in the locked directory.
namei(p, call) ==
    /\ At(p, call, "start")
    /\ dirlock = None
    /\ \/ /\ dir[Old(p)] = 0
          /\ Goto(p, "idle", "")
          /\ UNCHANGED <<icache, ip>>
       \/ /\ dir[Old(p)] # 0
          /\ iget(p, dir[Old(p)], call)
    /\ UNCHANGED <<dinode, dir, dirlock, fd>>

\* The end of sys_open(): iunlock(), and the file keeps the reference.  A
\* name that create() found must be a file's.
opened(p) ==
    /\ \/ At(p, "open", "locked")
       \/ At(p, "reopen", "locked") /\ icache[ip[p]].type = 1
    /\ icache' = [icache EXCEPT ![ip[p]].lock = None]
    /\ fd' = [fd EXCEPT ![p] = ip[p]]
    /\ ip' = [ip EXCEPT ![p] = None]
    /\ Goto(p, "idle", "")
    /\ UNCHANGED <<dinode, dir, dirlock>>

\* Mutant: iunlock() without the put.
open_fails_leak(p) ==
    /\ At(p, "open", "locked") \/ At(p, "reopen", "locked")
    /\ icache' = [icache EXCEPT ![ip[p]].lock = None]
    /\ ip' = [ip EXCEPT ![p] = None]
    /\ Goto(p, "idle", "")
    /\ UNCHANGED <<dinode, dir, dirlock, fd>>

\* Its error paths (no file structure or descriptor left, the wrong type):
\* iunlockput().
open_fails(p) ==
    /\ At(p, "open", "locked") \/ At(p, "reopen", "locked")
    /\ icache' = [icache EXCEPT ![ip[p]].lock = None]
    /\ Goto(p, "iput", "")
    /\ UNCHANGED <<dinode, dir, dirlock, ip, fd>>

\* sys_close() of the last descriptor: fileclose() puts the inode.
close(p) ==
    /\ At(p, "idle", "")
    /\ "close" \in Calls /\ fd[p] # None
    /\ ip' = [ip EXCEPT ![p] = fd[p]]
    /\ fd' = [fd EXCEPT ![p] = None]
    /\ Goto(p, "iput", "")
    /\ UNCHANGED <<dinode, dir, dirlock, icache>>

\* create(): an existing file is opened, else an inode is allocated with the
\* directory locked.
create(p) ==
    /\ At(p, "create", "start")
    /\ dirlock = None
    /\ \/ /\ dir[Old(p)] # 0
          /\ iget(p, dir[Old(p)], "reopen")
          /\ UNCHANGED dirlock
       \/ /\ dir[Old(p)] = 0
          /\ dirlock' = p
          /\ pc' = [pc EXCEPT ![p] = <<"create", "ialloc">>]
          /\ args' = [args EXCEPT ![p][2] = 1]
          /\ UNCHANGED <<icache, ip>>
    /\ UNCHANGED <<dinode, dir, fd>>

\* ialloc() reads inode by inode, up to one that is free: it marks that one
\* on disk, then iget()s it.
ialloc(p) ==
    /\ At(p, "create", "ialloc")
    /\ \/ /\ New(p) > NInodes
          /\ Goto(p, "ialloc", "panic")
          /\ UNCHANGED dinode
       \/ /\ New(p) <= NInodes /\ dinode[New(p)].type # 0
          /\ args' = [args EXCEPT ![p][2] = @ + 1]
          /\ UNCHANGED <<dinode, pc>>
       \/ /\ New(p) <= NInodes /\ dinode[New(p)].type = 0
          /\ dinode' = [dinode EXCEPT ![New(p)] = [type |-> 1, nlink |-> 0]]
          /\ Goto(p, "create", "iget")
    /\ UNCHANGED <<dir, dirlock, icache, ip, fd>>

ialloc_iget(p) ==
    /\ At(p, "create", "iget")
    /\ iget(p, New(p), "create")
    /\ UNCHANGED <<dinode, dir, dirlock, fd>>

\* nlink = 1, iupdate(), dirlink(), iunlockput(dp); then sys_open() goes on.
created(p) ==
    /\ At(p, "create", "locked")
    /\ icache' = [icache EXCEPT ![ip[p]].nlink = 1]
    /\ iupdate(ip[p], icache'[ip[p]])
    /\ dir' = [dir EXCEPT ![Old(p)] = icache[ip[p]].inum]
    /\ dirlock' = None
    /\ Goto(p, "open", "locked")
    /\ UNCHANGED <<ip, fd>>

\* sys_link(): nlink++ first, then the entry; undone if the name is taken.
link_inc(p) ==
    /\ At(p, "link", "locked")
    /\ icache' = [icache EXCEPT ![ip[p]].nlink = @ + 1, ![ip[p]].lock = None]
    /\ iupdate(ip[p], icache'[ip[p]])
    /\ Goto(p, "link", "dirlink")
    /\ UNCHANGED <<dir, dirlock, ip, fd>>

\* Mutant: a name that is taken does not undo the nlink++.
dirlink_bad(p) ==
    /\ At(p, "link", "dirlink")
    /\ dirlock = None
    /\ \/ /\ dir[New(p)] # 0
          /\ Goto(p, "iput", "")
          /\ UNCHANGED dir
       \/ /\ dir[New(p)] = 0
          /\ dir' = [dir EXCEPT ![New(p)] = icache[ip[p]].inum]
          /\ Goto(p, "iput", "")
    /\ UNCHANGED <<dinode, dirlock, icache, ip, fd>>

\* dirlookup() of a name that is taken iget()s its inode, and the iput() that
\* follows frees nothing: the locked directory keeps the inode's link.  What
\* is left of the two is the panic of an iget() that finds no entry.
dirlink(p) ==
    /\ At(p, "link", "dirlink")
    /\ dirlock = None
    /\ \/ /\ dir[New(p)] # 0 /\ Cached(dir[New(p)]) \cup Free # {}
          /\ Goto(p, "badlink", "ilock")
          /\ UNCHANGED dir
       \/ /\ dir[New(p)] # 0 /\ Cached(dir[New(p)]) \cup Free = {}
          /\ Goto(p, "iget", "panic")
          /\ UNCHANGED dir
       \/ /\ dir[New(p)] = 0
          /\ dir' = [dir EXCEPT ![New(p)] = icache[ip[p]].inum]
          /\ Goto(p, "iput", "")
    /\ UNCHANGED <<dinode, dirlock, icache, ip, fd>>

\* nlink-- and iunlockput(), in sys_unlink() and in sys_link()'s failure.
nlink_dec(p) ==
    /\ At(p, "badlink", "locked") \/ At(p, "unlink", "dec")
    /\ icache' = [icache EXCEPT ![ip[p]].nlink = @ - 1, ![ip[p]].lock = None]
    /\ iupdate(ip[p], icache'[ip[p]])
    /\ Goto(p, "iput", "")
    /\ UNCHANGED <<dir, dirlock, ip, fd>>

\* sys_unlink(): the directory stays locked until its entry is cleared.
unlink(p) ==
    /\ At(p, "unlink", "start")
    /\ dirlock = None
    /\ \/ /\ dir[Old(p)] = 0
          /\ Goto(p, "idle", "")
          /\ UNCHANGED <<icache, ip, dirlock>>
       \/ /\ dir[Old(p)] # 0
          /\ dirlock' = p
          /\ iget(p, dir[Old(p)], "unlink")
    /\ UNCHANGED <<dinode, dir, fd>>

unlink_entry(p) ==
    /\ At(p, "unlink", "locked")
    /\ \/ /\ icache[ip[p]].nlink < 1
          /\ Goto(p, "unlink", "panic")
          /\ UNCHANGED <<dir, dirlock>>
       \/ /\ icache[ip[p]].nlink >= 1
          /\ dir' = [dir EXCEPT ![Old(p)] = 0]
          /\ dirlock' = None
          /\ Goto(p, "unlink", "dec")
    /\ UNCHANGED <<dinode, icache, ip, fd>>

Step(p) ==
    \/ iput(p) \/ iput_free(p) \/ iput_end(p)
    \/ \E call \in {"open", "link"} : namei(p, call)
    \/ \E call \in {"open", "reopen", "create", "link", "badlink", "unlink"} :
          ilock(p, call) \/ ilock_read(p, call)
    \/ opened(p) \/ open_fails(p) \/ create(p) \/ ialloc(p) \/ ialloc_iget(p) \/ created(p)
    \/ link_inc(p) \/ dirlink(p) \/ nlink_dec(p) \/ unlink(p) \/ unlink_entry(p)

Call(p) ==
    \/ close(p)
    \/ \E call \in Calls \ {"link", "close"}, n \in Names : syscall(p, call, n, None)
    \/ "link" \in Calls /\ \E m, n \in Names : syscall(p, "link", m, n)

InodeNext == \E p \in Procs : Step(p) \/ Call(p)

InodeSpec == InodeInit /\ [][InodeNext]_inodeVars

-----------------------------------------------------------------------------

\* fs.c:117-122: ref counts the pointers to an entry, so an entry in use is
\* never taken for another inode.
RefsCounted ==
    \A s \in Slots : icache[s].ref = Cardinality({p \in Procs : ip[p] = s})
                                   + Cardinality({p \in Procs : fd[p] = s})

\* fs.c:113-115: an inode that a name refers to is allocated on disk, and a
\* file somebody has open too.
NamedIsAllocated ==
    /\ \A n \in Names : dir[n] # 0 => dinode[dir[n]].type # 0
    /\ \A p \in Procs : fd[p] # None => dinode[icache[fd[p]].inum].type # 0

\* fs.c:124-132: what a valid entry says is what the disk says, except while
\* its last reference is being dropped.
ValidIsCurrent ==
    \A s \in Slots : icache[s].ref > 0 /\ icache[s].valid = 1
        => [type |-> icache[s].type, nlink |-> icache[s].nlink] = dinode[icache[s].inum]

\* fs.c:113-115, 306-310: between calls the link count on disk is the number of
\* names, and an inode is allocated exactly while it has a name or is open.
Quiet == \A p \in Procs : pc[p] = <<"idle", "">>
LinksCounted ==
    Quiet => \A i \in Inums :
        /\ dinode[i].nlink = Cardinality({n \in Names : dir[n] = i})
        /\ dinode[i].type # 0 <=> \/ \E n \in Names : dir[n] = i
                                 \/ \E p \in Procs : fd[p] # None /\ icache[fd[p]].inum = i
=============================================================================
