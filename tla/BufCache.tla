------------------------------ MODULE BufCache -------------------------------
(***************************************************************************)
(* The buffer cache (bio.c) on the interrupt-driven disk (ide.c).          *)
(*                                                                         *)
(* A step is what runs under bcache.lock or idelock, or what the holder of *)
(* a buffer's sleep-lock does by itself.  bget() takes the sleep-lock only *)
(* after it gave bcache.lock back, and brelse() drops its reference only   *)
(* after it gave the sleep-lock back, so others run between.  A block's    *)
(* contents are one value.  A process that has two buffers at once, as in  *)
(* bmap() with the block that balloc() reads, is two of BProcs.            *)
(***************************************************************************)
EXTENDS Integers, Sequences, FiniteSets

CONSTANTS BProcs, Blocks, Values,
          NBUF,
          MaxPinned,    \* dirty buffers that the log lets stand, lh.n at most
          MaxErrors     \* bound: reads that fail

ASSUME BufCacheAssumption ==
    /\ NBUF \in Nat \ {0} /\ MaxPinned \in Nat /\ MaxErrors \in Nat
    /\ IsFiniteSet(BProcs) /\ "none" \notin BProcs /\ "none" \notin Blocks

VARIABLES buf,          \* struct buf: [blockno, refcnt, valid, dirty, owner, data]
          lru,          \* bcache's list, most recently used first
          idequeue,
          active,       \* the buffer idestart() last gave the drive, 0 if none
          disk,
          caller,       \* where a process is: [pc, b, blockno]
          bad,          \* history: buffers whose last read failed
          errors,       \* reads that have failed so far
          newest,       \* history: what was last written to each block
          bgetpanic     \* bget() found no buffer

bcVars == <<buf, lru, idequeue, active, disk, caller, bad, errors, newest, bgetpanic>>

Bufs == 1 .. NBUF
NoBlock == "none"
Away == [pc |-> "away", b |-> 0, blockno |-> NoBlock]
Fresh(n, v) == [blockno |-> n, refcnt |-> 1, valid |-> FALSE, dirty |-> FALSE, owner |-> "none", data |-> v]

BcInit == /\ \E v \in Values :
                /\ buf = [b \in Bufs |-> [Fresh(NoBlock, v) EXCEPT !.refcnt = 0]]
                /\ disk = [n \in Blocks |-> v]
          /\ newest = disk
          /\ lru = [k \in 1 .. NBUF |-> k]
          /\ idequeue = <<>> /\ active = 0
          /\ caller = [p \in BProcs |-> Away]
          /\ bad = {} /\ errors = 0 /\ bgetpanic = FALSE

(* "Is the block already cached?"                                          *)
Cached(n) == {b \in Bufs : buf[b].blockno = n}

(* "Not cached; recycle some unused buffer and clean buffer"               *)
Recyclable_dirty(b) == buf[b].refcnt = 0
Recyclable_held(b) == ~buf[b].dirty
Recyclable(b) == buf[b].refcnt = 0 /\ ~buf[b].dirty
RecyclablePlaces == {k \in 1 .. NBUF : Recyclable(lru[k])}

bget_cached(p, n) ==
    /\ caller[p] = Away
    /\ \E b \in Cached(n) :
          /\ buf' = [buf EXCEPT ![b].refcnt = @ + 1]
          /\ caller' = [caller EXCEPT ![p] = [pc |-> "lock", b |-> b, blockno |-> n]]
    /\ UNCHANGED <<lru, idequeue, active, disk, bad, errors, newest, bgetpanic>>

(* The least recently used one, and the panic when there is none.          *)
bget(p, n) ==
    /\ caller[p] = Away /\ Cached(n) = {}
    /\ IF RecyclablePlaces = {}
       THEN bgetpanic' = TRUE /\ UNCHANGED <<buf, caller, bad>>
       ELSE \E k \in RecyclablePlaces :
            /\ \A j \in RecyclablePlaces : j <= k
            /\ buf' = [buf EXCEPT ![lru[k]] = Fresh(n, @.data)]
            /\ caller' = [caller EXCEPT ![p] = [pc |-> "lock", b |-> lru[k], blockno |-> n]]
            /\ bad' = bad \ {lru[k]}
            /\ UNCHANGED bgetpanic
    /\ UNCHANGED <<lru, idequeue, active, disk, errors, newest>>

(* iderw() appends its request to idequeue, starts the drive if it is the  *)
(* only one, and sleeps.                                                   *)
Enqueue_idle(q, b) == IF q = <<>> THEN <<b>> ELSE q
Enqueue(q, b) == Append(q, b)
Request(b) == /\ idequeue' = Enqueue(idequeue, b)
              /\ active' = IF Head(idequeue') = b THEN b ELSE active

(* bread(): acquiresleep() at the end of bget(), then iderw() if the buffer*)
(* has not been read.                                                      *)
NeedsRead_never(b) == FALSE
NeedsRead(b) == ~buf[b].valid

bread(p) ==
    LET b == caller[p].b IN
    /\ caller[p].pc = "lock" /\ buf[b].owner = "none"
    /\ buf' = [buf EXCEPT ![b].owner = p]
    /\ caller' = [caller EXCEPT ![p].pc = IF NeedsRead(b) THEN "io" ELSE "held"]
    /\ IF NeedsRead(b) THEN Request(b) ELSE UNCHANGED <<idequeue, active>>
    /\ UNCHANGED <<lru, disk, bad, errors, newest, bgetpanic>>

Modify(p, v) == /\ newest' = [newest EXCEPT ![caller[p].blockno] = v]
                /\ bad' = bad \ {caller[p].b}
                /\ buf' = [buf EXCEPT ![caller[p].b].data = v, ![caller[p].b].dirty = TRUE]

(* The holder changes the block and calls bwrite().                        *)
bwrite(p, v) ==
    /\ caller[p].pc = "held"
    /\ Modify(p, v)
    /\ Request(caller[p].b)
    /\ caller' = [caller EXCEPT ![p].pc = "io"]
    /\ UNCHANGED <<lru, disk, errors, bgetpanic>>

(* The holder changes the block and calls log_write(), which only marks the*)
(* buffer dirty; the log bounds how many stand so.                         *)
Pinned == {b \in Bufs : buf[b].dirty /\ \A k \in 1 .. Len(idequeue) : idequeue[k] # b}
log_write(p, v) ==
    /\ caller[p].pc = "held" /\ Cardinality(Pinned \cup {caller[p].b}) <= MaxPinned
    /\ Modify(p, v)
    /\ UNCHANGED <<lru, idequeue, active, disk, caller, errors, bgetpanic>>

(* wakeup(b): whoever sleeps in iderw() for b.                              *)
Woken(b) == [p \in BProcs |-> IF caller[p].pc = "io" /\ caller[p].b = b
                              THEN [caller[p] EXCEPT !.pc = "woken"] ELSE caller[p]]

(* "Start disk on next buf in queue."                                      *)
StartNext_never(q) == 0
StartNext(q) == IF q = <<>> THEN 0 ELSE Head(q)

(* ideintr(): the drive is done with its request, which the code takes to  *)
(* be the first of the queue.  A read that idewait() reports as failed     *)
(* transfers nothing, and the buffer becomes valid all the same.           *)
ideintr(fails) ==
    /\ idequeue # <<>> /\ active # 0
    /\ LET b == Head(idequeue)
           n == buf[active].blockno
       IN  /\ fails => errors < MaxErrors /\ ~buf[b].dirty
           /\ disk' = IF buf[active].dirty THEN [disk EXCEPT ![n] = buf[active].data] ELSE disk
           /\ buf' = [buf EXCEPT ![b].data = IF buf[b].dirty \/ fails THEN @ ELSE disk[n],
                                 ![b].valid = TRUE, ![b].dirty = FALSE]
           /\ bad' = IF fails THEN bad \cup {b} ELSE bad
           /\ errors' = IF fails THEN errors + 1 ELSE errors
           /\ caller' = Woken(b)
    /\ idequeue' = Tail(idequeue)
    /\ active' = StartNext(idequeue')
    /\ UNCHANGED <<lru, newest, bgetpanic>>

(* iderw() runs again: it returns, or sleeps once more.                    *)
iderw(p) ==
    /\ caller[p].pc = "woken"
    /\ LET r == buf[caller[p].b]
       IN  caller' = [caller EXCEPT ![p].pc = IF r.valid /\ ~r.dirty THEN "held" ELSE "io"]
    /\ UNCHANGED <<buf, lru, idequeue, active, disk, bad, errors, newest, bgetpanic>>

(* brelse(): releasesleep(), and then the reference and the list.          *)
brelse(p) ==
    /\ caller[p].pc = "held"
    /\ buf' = [buf EXCEPT ![caller[p].b].owner = "none"]
    /\ caller' = [caller EXCEPT ![p].pc = "release"]
    /\ UNCHANGED <<lru, idequeue, active, disk, bad, errors, newest, bgetpanic>>

Released_kept(n) == n
Released(n) == n - 1

(* b moves to the head of the list.                                        *)
PlaceOf(b) == CHOOSE k \in 1 .. NBUF : lru[k] = b
MovedToHead(b) == [k \in 1 .. NBUF |-> CASE k = 1 -> b
                                         [] k > 1 /\ k <= PlaceOf(b) -> lru[k - 1]
                                         [] OTHER -> lru[k]]

brelse_ref(p) ==
    LET b == caller[p].b IN
    /\ caller[p].pc = "release"
    /\ buf' = [buf EXCEPT ![b].refcnt = Released(@)]
    /\ lru' = IF Released(buf[b].refcnt) = 0 THEN MovedToHead(b) ELSE lru
    /\ caller' = [caller EXCEPT ![p] = Away]
    /\ UNCHANGED <<idequeue, active, disk, bad, errors, newest, bgetpanic>>

BcNext == /\ ~bgetpanic
          /\ \/ \E p \in BProcs :
                  \/ \E n \in Blocks : bget_cached(p, n) \/ bget(p, n)
                  \/ \E v \in Values : bwrite(p, v) \/ log_write(p, v)
                  \/ bread(p) \/ iderw(p) \/ brelse(p) \/ brelse_ref(p)
             \/ \E fails \in BOOLEAN : ideintr(fails)

BcSpec == BcInit /\ [][BcNext]_bcVars

-----------------------------------------------------------------------------
(* bget(): no block is ever in two buffers, and a buffer that a process    *)
(* asked for stays with its block until that process lets go, however long *)
(* it waits for the sleep-lock or the disk.                                *)
OneBufferPerBlock ==
    /\ \A b, c \in Bufs : b # c /\ buf[b].blockno = buf[c].blockno => buf[b].blockno = NoBlock
    /\ \A p \in BProcs : caller[p] # Away => buf[caller[p].b].blockno = caller[p].blockno

(* What a process finds in a buffer it holds is what was last written to   *)
(* the block by any process, through the cache or to the disk; the only    *)
(* exception is a read error, which ideintr() does not report.             *)
HolderSeesNewest ==
    \A p \in BProcs : caller[p].pc = "held" /\ caller[p].b \notin bad
                         => buf[caller[p].b].data = newest[caller[p].blockno]

(* No write is lost: it is on the disk or in a dirty buffer of its block,  *)
(* which bget() must not recycle.                                          *)
WritesSurvive ==
    \A n \in Blocks : \/ disk[n] = newest[n]
                      \/ \E b \in Cached(n) : buf[b].dirty /\ buf[b].data = newest[n]

(* bio.c:92: bget() panics only when every buffer is one that some process *)
(* asked for and has not let go of, or carries a block that the log keeps  *)
(* from recycling: no path leaves a reference or a dirty mark behind.      *)
BgetFindsBuffer ==
    bgetpanic => \A b \in Bufs : b \in Pinned \/ \E p \in BProcs : caller[p].b = b

(* A process asleep in iderw() has its request in the queue, and the drive *)
(* works on the first one: an interrupt that wakes it is still to come.    *)
SleeperHasRequest ==
    /\ \A p \in BProcs : caller[p].pc = "io" =>
          \E k \in 1 .. Len(idequeue) : idequeue[k] = caller[p].b
    /\ idequeue # <<>> => active = Head(idequeue)
=============================================================================
