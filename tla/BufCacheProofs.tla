--------------------------- MODULE BufCacheProofs ---------------------------
(***************************************************************************)
(* The buffer cache keeps its promises for any number of buffers, blocks   *)
(* and processes, any failed reads included.                               *)
(*                                                                         *)
(* The promises are not inductive: that bget() takes no buffer from under  *)
(* a process needs refcnt to count the processes that have the buffer;     *)
(* that a holder sees the newest contents needs the sleep-lock to exclude  *)
(* a second holder and WritesSurvive to make a read from disk current; and *)
(* that bget() panics in a full cache only needs the list to have every    *)
(* buffer and idequeue only ones that a process waits for, each once.      *)
(***************************************************************************)
EXTENDS BufCache, FiniteSetTheorems, TLAPS

BufRec == [blockno : Blocks \cup {NoBlock}, refcnt : Nat, valid : BOOLEAN, dirty : BOOLEAN,
           owner : BProcs \cup {"none"}, data : Values]
CallerRec == [pc : {"away", "lock", "io", "woken", "held", "release"}, b : 0 .. NBUF, blockno : Blocks \cup {NoBlock}]

Users(b) == {p \in BProcs : caller[p].b = b}

BcTypeOK ==
    /\ buf \in [Bufs -> BufRec]
    /\ lru \in [1 .. NBUF -> Bufs]
    /\ idequeue \in Seq(Bufs)
    /\ disk \in [Blocks -> Values] /\ newest \in [Blocks -> Values]
    /\ caller \in [BProcs -> CallerRec]
    /\ bad \in SUBSET Bufs

\* What a process in bread() ... brelse() has.
CallersInv ==
    \A p \in BProcs :
       /\ caller[p].pc = "away" => caller[p] = Away
       /\ caller[p].pc # "away" => /\ caller[p].b \in Bufs /\ caller[p].blockno \in Blocks
                                   /\ buf[caller[p].b].blockno = caller[p].blockno
       /\ caller[p].pc \in {"io", "woken", "held"} => buf[caller[p].b].owner = p
       /\ caller[p].pc \in {"woken", "held"} => buf[caller[p].b].valid
       /\ caller[p].pc = "woken" => ~buf[caller[p].b].dirty

CountInv == \A b \in Bufs : buf[b].refcnt = Cardinality(Users(b))

UniqueInv == \A b, c \in Bufs : b # c /\ buf[b].blockno = buf[c].blockno => buf[b].blockno = NoBlock

\* What a buffer holds, given its flags.
ContentsInv ==
    \A b \in Bufs :
       /\ buf[b].dirty => buf[b].valid /\ buf[b].data = newest[buf[b].blockno]
       /\ buf[b].valid => buf[b].blockno \in Blocks
       /\ buf[b].valid /\ b \notin bad => buf[b].data = newest[buf[b].blockno]

QueueInv ==
    /\ \A j, k \in 1 .. Len(idequeue) : idequeue[j] = idequeue[k] => j = k
    /\ \A k \in 1 .. Len(idequeue) :
          /\ buf[idequeue[k]].dirty \/ ~buf[idequeue[k]].valid
          /\ \E p \in BProcs : caller[p].pc = "io" /\ caller[p].b = idequeue[k]

ListInv == \A b \in Bufs : \E k \in 1 .. NBUF : lru[k] = b

BcInv ==
    /\ BcTypeOK /\ CallersInv /\ CountInv /\ UniqueInv /\ ContentsInv /\ QueueInv
    /\ WritesSurvive /\ SleeperHasRequest /\ ListInv

-----------------------------------------------------------------------------
LEMMA UsersFinite ==
    ASSUME NEW b
    PROVE  /\ IsFiniteSet(Users(b)) /\ Cardinality(Users(b)) \in Nat
           /\ Cardinality(Users(b)) = 0 <=> Users(b) = {}
<1>1. IsFiniteSet(Users(b))
    BY Zenon, FS_Subset, BufCacheAssumption DEF Users
<1> QED
    BY Zenon, <1>1, FS_CardinalityType, FS_EmptySet

\* A process that comes to b is one more of its users.
LEMMA UsersGrow ==
    ASSUME BcTypeOK, NEW p \in BProcs, NEW b \in Bufs, NEW r \in CallerRec,
           caller[p].b = 0, r.b = b, caller' = [caller EXCEPT ![p] = r]
    PROVE  /\ Cardinality(Users(b)') = Cardinality(Users(b)) + 1
           /\ \A c \in Bufs : c # b => Users(c)' = Users(c)
<1>1. Users(b)' = Users(b) \cup {p} /\ p \notin Users(b)
    BY DEF Users, BcTypeOK, Bufs
<1>2. Cardinality(Users(b) \cup {p}) = Cardinality(Users(b)) + 1
    BY Zenon, <1>1, UsersFinite, FS_AddElement
<1>3. \A c \in Bufs : c # b => Users(c)' = Users(c)
    BY DEF Users, BcTypeOK, Bufs
<1> QED
    BY Zenon, <1>1, <1>2, <1>3

LEMMA UsersShrink ==
    ASSUME BcTypeOK, NEW p \in BProcs, NEW b \in Bufs, caller[p].b = b,
           caller' = [caller EXCEPT ![p] = Away]
    PROVE  /\ Cardinality(Users(b)') = Cardinality(Users(b)) - 1
           /\ \A c \in Bufs : c # b => Users(c)' = Users(c)
<1>1. Users(b)' = Users(b) \ {p} /\ p \in Users(b)
    BY DEF Users, BcTypeOK, Bufs, Away
<1>2. Cardinality(Users(b) \ {p}) = Cardinality(Users(b)) - 1
    BY Zenon, <1>1, UsersFinite, FS_RemoveElement
<1>3. \A c \in Bufs : c # b => Users(c)' = Users(c)
    BY DEF Users, BcTypeOK, Bufs, Away
<1> QED
    BY Zenon, <1>1, <1>2, <1>3

\* A buffer that some process has is not up for recycling.
LEMMA UsedNotRecyclable ==
    ASSUME BcInv, NEW p \in BProcs, caller[p].b \in Bufs
    PROVE  ~Recyclable(caller[p].b)
<1>1. p \in Users(caller[p].b)
    BY Zenon DEF Users
<1> QED
    BY Zenon, <1>1, UsersFinite DEF BcInv, CountInv, Recyclable

LEMMA InitEstablishes == BcInit => BcInv
<1> SUFFICES ASSUME BcInit PROVE BcInv
    BY Zenon
<1> USE BufCacheAssumption
<1>1. PICK v \in Values : /\ buf = [b \in Bufs |-> [Fresh(NoBlock, v) EXCEPT !.refcnt = 0]]
                          /\ disk = [n \in Blocks |-> v]
    BY Zenon DEF BcInit
<1>2. \A b \in Bufs : buf[b] = [blockno |-> "none", refcnt |-> 0, valid |-> FALSE, dirty |-> FALSE,
                                owner |-> "none", data |-> v]
    BY Zenon, <1>1 DEF Fresh, NoBlock
<1>3. BcTypeOK
  <2>1. buf \in [Bufs -> BufRec]
    BY Zenon, <1>1, <1>2 DEF BufRec, NoBlock
  <2>2. caller \in [BProcs -> CallerRec]
    BY DEF BcInit, CallerRec, Away, NoBlock
  <2>3. lru \in [1 .. NBUF -> Bufs] /\ idequeue \in Seq(Bufs) /\ bad \in SUBSET Bufs
    BY DEF BcInit, Bufs
  <2>4. disk \in [Blocks -> Values] /\ newest \in [Blocks -> Values]
    BY Zenon, <1>1 DEF BcInit
  <2> QED
    BY Zenon, <2>1, <2>2, <2>3, <2>4 DEF BcTypeOK
<1>4. CallersInv /\ QueueInv /\ SleeperHasRequest
    BY DEF BcInit, CallersInv, QueueInv, SleeperHasRequest, Away
<1>5. CountInv
  <2>1. \A b \in Bufs : Users(b) = {}
    BY DEF Users, BcInit, Away, Bufs
  <2> QED
    BY <2>1, <1>2, FS_EmptySet DEF CountInv
<1>6. UniqueInv /\ ContentsInv
    BY <1>2 DEF UniqueInv, ContentsInv, NoBlock
<1>7. WritesSurvive
    BY Zenon DEF BcInit, WritesSurvive
<1>8. ListInv
    BY DEF ListInv, BcInit, Bufs
<1> QED
    BY Zenon, <1>3, <1>4, <1>5, <1>6, <1>7, <1>8 DEF BcInv

\* A field of a buffer takes another value.
LEMMA BufTyped ==
    ASSUME NEW r \in BufRec
    PROVE  /\ \A k \in Nat : [r EXCEPT !.refcnt = k] \in BufRec
           /\ \A o \in BProcs \cup {"none"} : [r EXCEPT !.owner = o] \in BufRec
           /\ \A v \in Values : [r EXCEPT !.data = v, !.dirty = TRUE] \in BufRec
           /\ \A v \in Values : [r EXCEPT !.data = v, !.valid = TRUE, !.dirty = FALSE] \in BufRec
<1>1. \A k \in Nat : [r EXCEPT !.refcnt = k] \in BufRec
    BY Zenon DEF BufRec
<1>2. \A o \in BProcs \cup {"none"} : [r EXCEPT !.owner = o] \in BufRec
    BY Zenon DEF BufRec
<1>3. \A v \in Values : [r EXCEPT !.data = v, !.dirty = TRUE] \in BufRec
    BY Zenon DEF BufRec
<1>4. \A v \in Values : [r EXCEPT !.data = v, !.valid = TRUE, !.dirty = FALSE] \in BufRec
    BY Zenon DEF BufRec
<1> QED
    BY Zenon, <1>1, <1>2, <1>3, <1>4

LEMMA BgetCachedPreserves ==
    ASSUME BcInv, NEW p \in BProcs, NEW n \in Blocks, bget_cached(p, n)
    PROVE  BcInv'
<1> USE BufCacheAssumption
<1>0. BcTypeOK /\ CallersInv /\ UniqueInv /\ ContentsInv /\ QueueInv
    BY Zenon DEF BcInv
<1>1. PICK b \in Bufs : /\ buf[b].blockno = n
                        /\ buf' = [buf EXCEPT ![b].refcnt = @ + 1]
                        /\ caller' = [caller EXCEPT ![p] = [pc |-> "lock", b |-> b, blockno |-> n]]
    BY Zenon DEF bget_cached, Cached
<1>2. /\ UNCHANGED <<lru, idequeue, active, disk, bad, errors, newest, bgetpanic>>
      /\ caller[p] = Away
    BY Zenon DEF bget_cached
<1>3. BcTypeOK'
  <2>0. buf[b] \in BufRec /\ buf[b].refcnt + 1 \in Nat
    BY <1>0 DEF BcTypeOK, BufRec
  <2>1. [buf[b] EXCEPT !.refcnt = @ + 1] \in BufRec
    BY Zenon, <2>0, BufTyped
  <2>2. buf' = [buf EXCEPT ![b] = [buf[b] EXCEPT !.refcnt = @ + 1]]
    BY Zenon, <1>1
  <2>3. buf' \in [Bufs -> BufRec]
    BY Zenon, <2>1, <2>2, <1>0 DEF BcTypeOK
  <2>4. caller' \in [BProcs -> CallerRec]
    BY <1>0, <1>1 DEF BcTypeOK, CallerRec, Bufs
  <2> QED
    BY Zenon, <2>3, <2>4, <1>0, <1>2 DEF BcTypeOK
<1>4. \A c \in Bufs : /\ buf'[c].blockno = buf[c].blockno /\ buf'[c].owner = buf[c].owner
                      /\ buf'[c].valid = buf[c].valid /\ buf'[c].dirty = buf[c].dirty
                      /\ buf'[c].data = buf[c].data
                      /\ buf'[c].refcnt = IF c = b THEN buf[c].refcnt + 1 ELSE buf[c].refcnt
    BY <1>0, <1>1 DEF BcTypeOK, BufRec
<1>5. \A q \in BProcs : caller'[q] = IF q = p THEN [pc |-> "lock", b |-> b, blockno |-> n] ELSE caller[q]
    BY Zenon, <1>0, <1>1 DEF BcTypeOK
<1>6. CallersInv'
    BY <1>0, <1>1, <1>4, <1>5 DEF CallersInv, Away
<1>7. CountInv'
  <2>1. [pc |-> "lock", b |-> b, blockno |-> n] \in CallerRec /\ caller[p].b = 0
    BY <1>2 DEF CallerRec, Bufs, Away
  <2>2. /\ Cardinality(Users(b)') = Cardinality(Users(b)) + 1
        /\ \A c \in Bufs : c # b => Users(c)' = Users(c)
    BY Zenon, <2>1, <1>0, <1>1, UsersGrow
  <2> QED
    BY Zenon, <2>2, <1>4 DEF BcInv, CountInv
<1>8. UniqueInv' /\ ContentsInv'
    BY <1>0, <1>2, <1>4 DEF UniqueInv, ContentsInv
<1>9. QueueInv' /\ SleeperHasRequest'
  <2>1. \A k \in 1 .. Len(idequeue) : idequeue[k] \in Bufs
    BY <1>0 DEF BcTypeOK
  <2>2. QueueInv'
    BY <2>1, <1>0, <1>2, <1>4, <1>5 DEF QueueInv, Away
  <2>3. SleeperHasRequest'
    BY <1>0, <1>2, <1>4, <1>5 DEF BcInv, SleeperHasRequest, CallersInv
  <2> QED
    BY Zenon, <2>2, <2>3
<1>10. WritesSurvive' /\ ListInv'
  <2>1. \A m \in Blocks : Cached(m)' = Cached(m)
    BY Zenon, <1>4 DEF Cached
  <2> QED
    BY <2>1, <1>2, <1>4 DEF BcInv, WritesSurvive, ListInv, Cached
<1> QED
    BY Zenon, <1>3, <1>6, <1>7, <1>8, <1>9, <1>10 DEF BcInv

\* A bget() that finds nothing to recycle is in a cache without a free buffer.
LEMMA NothingFree ==
    ASSUME BcInv, RecyclablePlaces = {}, NEW b \in Bufs
    PROVE  b \in Pinned \/ \E p \in BProcs : caller[p].b = b
<1> SUFFICES ASSUME ~\E p \in BProcs : caller[p].b = b PROVE b \in Pinned
    BY Zenon
<1>1. Users(b) = {}
    BY Zenon DEF Users
<1>2. buf[b].refcnt = 0
    BY Zenon, <1>1, UsersFinite DEF BcInv, CountInv
<1>3. PICK k \in 1 .. NBUF : lru[k] = b
    BY Zenon DEF BcInv, ListInv
<1>4. buf[b].dirty
    BY Zenon, <1>2, <1>3 DEF RecyclablePlaces, Recyclable
<1>5. \A j \in 1 .. Len(idequeue) : idequeue[j] # b
    BY Zenon, <1>1 DEF BcInv, QueueInv, Users
<1> QED
    BY Zenon, <1>4, <1>5 DEF Pinned

LEMMA IdlePreserves ==
    ASSUME BcInv, UNCHANGED <<buf, lru, idequeue, active, disk, caller, bad, newest>>
    PROVE  BcInv'
<1>1. BcTypeOK' /\ CallersInv' /\ UniqueInv' /\ ContentsInv' /\ QueueInv'
    BY DEF BcInv, BcTypeOK, CallersInv, UniqueInv, ContentsInv, QueueInv
<1>2. CountInv'
    BY Zenon DEF BcInv, CountInv, Users
<1>3. WritesSurvive' /\ SleeperHasRequest'
    BY Zenon DEF BcInv, WritesSurvive, SleeperHasRequest, Cached
<1>4. ListInv'
    BY Zenon DEF BcInv, ListInv
<1> QED
    BY Zenon, <1>1, <1>2, <1>3, <1>4 DEF BcInv

LEMMA BgetPreserves ==
    ASSUME BcInv, NEW p \in BProcs, NEW n \in Blocks, bget(p, n)
    PROVE  BcInv'
<1> USE BufCacheAssumption
<1>0. BcTypeOK /\ CallersInv /\ UniqueInv /\ ContentsInv /\ QueueInv
    BY Zenon DEF BcInv
<1>1. UNCHANGED <<lru, idequeue, active, disk, errors, newest>> /\ caller[p] = Away /\ Cached(n) = {}
    BY Zenon DEF bget
<1>2. CASE RecyclablePlaces = {}
  <2>1. UNCHANGED <<buf, caller, bad>>
    BY Zenon, <1>2 DEF bget
  <2> QED
    BY Zenon, <2>1, <1>1, IdlePreserves
<1>3. CASE RecyclablePlaces # {}
  <2>1. PICK k \in RecyclablePlaces :
           /\ buf' = [buf EXCEPT ![lru[k]] = Fresh(n, @.data)]
           /\ caller' = [caller EXCEPT ![p] = [pc |-> "lock", b |-> lru[k], blockno |-> n]]
           /\ bad' = bad \ {lru[k]} /\ UNCHANGED bgetpanic
    BY Zenon, <1>3 DEF bget
  <2>2. PICK b \in Bufs : b = lru[k] /\ Recyclable(b)
    BY Zenon, <1>0, <2>1 DEF RecyclablePlaces, BcTypeOK
  <2>3. Users(b) = {}
    BY Zenon, <2>2, UsersFinite DEF BcInv, CountInv, Recyclable
  <2>4. /\ \A c \in Bufs : buf'[c] = IF c = b THEN Fresh(n, buf[b].data) ELSE buf[c]
        /\ \A q \in BProcs : caller'[q] = IF q = p THEN [pc |-> "lock", b |-> b, blockno |-> n] ELSE caller[q]
        /\ \A c \in Bufs \ {b} : c \in bad' <=> c \in bad
    BY Zenon, <1>0, <2>1, <2>2 DEF BcTypeOK
  <2>5. BcTypeOK'
    <3>1. Fresh(n, buf[b].data) \in BufRec
      BY Zenon, <1>0 DEF BcTypeOK, BufRec, Fresh
    <3>2. buf' \in [Bufs -> BufRec] /\ bad' \in SUBSET Bufs
      BY Zenon, <3>1, <1>0, <2>1, <2>2 DEF BcTypeOK
    <3>3. caller' \in [BProcs -> CallerRec]
      BY <1>0, <2>1, <2>2 DEF BcTypeOK, CallerRec, Bufs
    <3> QED
      BY Zenon, <3>2, <3>3, <1>0, <1>1 DEF BcTypeOK
  <2>6. CallersInv'
    BY <1>0, <2>3, <2>4 DEF CallersInv, Users, Fresh, Away
  <2>7. CountInv'
    <3>1. [pc |-> "lock", b |-> b, blockno |-> n] \in CallerRec /\ caller[p].b = 0
      BY <1>1 DEF CallerRec, Bufs, Away
    <3>2. /\ Cardinality(Users(b)') = Cardinality(Users(b)) + 1
          /\ \A c \in Bufs : c # b => Users(c)' = Users(c)
      BY Zenon, <3>1, <1>0, <2>1, <2>2, UsersGrow
    <3> QED
      BY <3>2, <2>3, <2>4, FS_EmptySet DEF BcInv, CountInv, Fresh
  <2>8. UniqueInv' /\ ContentsInv'
    <3>1. \A c \in Bufs : buf[c].blockno # n
      BY Zenon, <1>1 DEF Cached
    <3> QED
      BY <3>1, <1>0, <1>1, <2>4 DEF UniqueInv, ContentsInv, Fresh
  <2>9. QueueInv' /\ SleeperHasRequest'
    <3>1. \A j \in 1 .. Len(idequeue) : idequeue[j] \in Bufs /\ idequeue[j] # b
      BY <1>0, <2>3 DEF BcTypeOK, QueueInv, Users
    <3>2. QueueInv'
      BY SMTT(30), <3>1, <1>0, <1>1, <2>4 DEF QueueInv, Away
    <3>3. SleeperHasRequest'
      BY SMTT(30), <1>0, <1>1, <2>3, <2>4 DEF BcInv, SleeperHasRequest, CallersInv, Users
    <3> QED
      BY Zenon, <3>2, <3>3
  <2>10. WritesSurvive' /\ ListInv'
    <3>1. ListInv'
      BY Zenon, <1>1 DEF BcInv, ListInv
    <3>2. WritesSurvive'
      BY <1>1, <2>2, <2>4 DEF BcInv, WritesSurvive, Cached, Fresh, Recyclable
    <3> QED
      BY Zenon, <3>1, <3>2
  <2> QED
    BY Zenon, <2>5, <2>6, <2>7, <2>8, <2>9, <2>10 DEF BcInv
<1> QED
    BY Zenon, <1>2, <1>3

\* b joins the queue.
LEMMA Enqueued ==
    ASSUME BcTypeOK, NEW b \in Bufs, idequeue' = Append(idequeue, b)
    PROVE  /\ idequeue' \in Seq(Bufs) /\ Len(idequeue) \in Nat /\ Len(idequeue') = Len(idequeue) + 1
           /\ \A k \in 1 .. Len(idequeue) : idequeue'[k] = idequeue[k] /\ idequeue[k] \in Bufs
           /\ idequeue'[Len(idequeue) + 1] = b
    BY DEF BcTypeOK

\* The drive works on the first request after a new one has joined the queue.
LEMMA DriveStarted ==
    ASSUME BcTypeOK, SleeperHasRequest, NEW b \in Bufs, idequeue' = Append(idequeue, b),
           active' = IF Head(idequeue') = b THEN b ELSE active
    PROVE  active' = Head(idequeue')
<1>1. CASE idequeue = <<>>
  <2>1. Head(idequeue') = b
    BY <1>1
  <2> QED
    BY Zenon, <2>1
<1>2. CASE idequeue # <<>>
  <2>1. Head(idequeue') = Head(idequeue)
    BY <1>2 DEF BcTypeOK
  <2> QED
    BY Zenon, <2>1, <1>2 DEF SleeperHasRequest
<1> QED
    BY Zenon, <1>1, <1>2

\* A step that moves a process and leaves everyone's buffer and every count alone.
LEMMA CountKept ==
    ASSUME CountInv, \A q \in BProcs : caller'[q].b = caller[q].b,
           \A c \in Bufs : buf'[c].refcnt = buf[c].refcnt
    PROVE  CountInv'
<1>1. \A c \in Bufs : Users(c)' = Users(c)
    BY Zenon DEF Users
<1> QED
    BY Zenon, <1>1 DEF CountInv

LEMMA BreadPreserves ==
    ASSUME BcInv, NEW p \in BProcs, bread(p)
    PROVE  BcInv'
<1> USE BufCacheAssumption
<1>0. BcTypeOK /\ CallersInv /\ UniqueInv /\ ContentsInv /\ QueueInv
    BY Zenon DEF BcInv
<1>1. PICK b \in Bufs : b = caller[p].b /\ buf[b].owner = "none" /\ caller[p].pc = "lock"
    BY Zenon, <1>0 DEF bread, CallersInv
<1>2. /\ buf' = [buf EXCEPT ![b] = [buf[b] EXCEPT !.owner = p]]
      /\ caller' = [caller EXCEPT ![p] = [caller[p] EXCEPT !.pc = IF buf[b].valid THEN "held" ELSE "io"]]
      /\ idequeue' = IF buf[b].valid THEN idequeue ELSE Append(idequeue, b)
      /\ buf[b].valid => active' = active
      /\ ~buf[b].valid => active' = IF Head(idequeue') = b THEN b ELSE active
      /\ UNCHANGED <<lru, disk, bad, errors, newest, bgetpanic>>
    BY Zenon, <1>1 DEF bread, NeedsRead, Enqueue, Request
<1>3. BcTypeOK'
  <2>1. buf' \in [Bufs -> BufRec]
    BY Zenon, <1>0, <1>2, BufTyped DEF BcTypeOK
  <2>2. caller[p] \in CallerRec
    BY Zenon, <1>0 DEF BcTypeOK
  <2>3. [caller[p] EXCEPT !.pc = IF buf[b].valid THEN "held" ELSE "io"] \in CallerRec
    BY Zenon, <2>2 DEF CallerRec
  <2>4. caller' \in [BProcs -> CallerRec]
    BY Zenon, <2>3, <1>0, <1>2 DEF BcTypeOK
  <2>5. idequeue' \in Seq(Bufs)
    BY Zenon, <1>0, <1>2, Enqueued DEF BcTypeOK
  <2> QED
    BY Zenon, <2>1, <2>4, <2>5, <1>0, <1>2 DEF BcTypeOK
<1>4. \A c \in Bufs : /\ buf'[c].blockno = buf[c].blockno /\ buf'[c].refcnt = buf[c].refcnt
                      /\ buf'[c].valid = buf[c].valid /\ buf'[c].dirty = buf[c].dirty
                      /\ buf'[c].data = buf[c].data
                      /\ buf'[c].owner = IF c = b THEN p ELSE buf[c].owner
    BY <1>0, <1>2 DEF BcTypeOK, BufRec
<1>5. /\ \A q \in BProcs : caller'[q].b = caller[q].b /\ caller'[q].blockno = caller[q].blockno
      /\ \A q \in BProcs \ {p} : caller'[q] = caller[q]
      /\ caller'[p].pc = IF buf[b].valid THEN "held" ELSE "io"
    BY <1>0, <1>2 DEF BcTypeOK, CallerRec
<1>6. CallersInv'
    BY <1>0, <1>1, <1>4, <1>5 DEF CallersInv
<1>7. CountInv'
    BY Zenon, <1>4, <1>5, CountKept DEF BcInv
<1>8. UniqueInv' /\ ContentsInv'
    BY <1>0, <1>2, <1>4 DEF UniqueInv, ContentsInv
<1>9. ASSUME NEW k \in 1 .. Len(idequeue) PROVE idequeue[k] \in Bufs \ {b}
  <2>1. idequeue[k] \in Bufs
    BY <1>0 DEF BcTypeOK
  <2>2. PICK q \in BProcs : caller[q].pc = "io" /\ caller[q].b = idequeue[k]
    BY Zenon, <1>0 DEF QueueInv
  <2>3. buf[idequeue[k]].owner = q
    BY Zenon, <1>0, <2>2 DEF CallersInv
  <2> QED
    BY Zenon, <1>1, <2>1, <2>3
<1>10. QueueInv' /\ SleeperHasRequest'
  <2>1. CASE buf[b].valid
    <3>1. QueueInv'
      BY <2>1, <1>0, <1>1, <1>2, <1>4, <1>5, <1>9 DEF QueueInv
    <3>2. SleeperHasRequest'
      BY <2>1, <1>0, <1>2, <1>4, <1>5 DEF BcInv, SleeperHasRequest, CallersInv
    <3> QED
      BY Zenon, <3>1, <3>2
  <2>2. CASE ~buf[b].valid
    <3>1. /\ Len(idequeue) \in Nat /\ Len(idequeue') = Len(idequeue) + 1
          /\ \A k \in 1 .. Len(idequeue) : idequeue'[k] = idequeue[k]
          /\ idequeue'[Len(idequeue) + 1] = b
      BY Zenon, <2>2, <1>0, <1>2, Enqueued
    <3>2. QueueInv'
      BY <3>1, <2>2, <1>0, <1>1, <1>4, <1>5, <1>9 DEF QueueInv
    <3>3. SleeperHasRequest'
      <4>1. active' = Head(idequeue')
        BY Zenon, <2>2, <1>0, <1>2, DriveStarted DEF BcInv
      <4>2. \A q \in BProcs : caller'[q].pc = "io" =>
               \E k \in 1 .. Len(idequeue') : idequeue'[k] = caller'[q].b
        BY SMTT(30), <3>1, <2>2, <1>0, <1>1, <1>4, <1>5 DEF BcInv, SleeperHasRequest, CallersInv
      <4> QED
        BY Zenon, <4>1, <4>2 DEF SleeperHasRequest
    <3> QED
      BY Zenon, <3>2, <3>3
  <2> QED
    BY Zenon, <2>1, <2>2
<1>11. WritesSurvive' /\ ListInv'
    BY <1>2, <1>4 DEF BcInv, WritesSurvive, Cached, ListInv
<1> QED
    BY Zenon, <1>3, <1>6, <1>7, <1>8, <1>10, <1>11 DEF BcInv

\* What both ways of writing a held buffer have in common.
LEMMA ModifyKeeps ==
    ASSUME BcInv, NEW p \in BProcs, NEW v \in Values, caller[p].pc = "held", Modify(p, v), disk' = disk
    PROVE  /\ buf' \in [Bufs -> BufRec] /\ newest' \in [Blocks -> Values] /\ bad' \in SUBSET Bufs
           /\ caller[p].b \in Bufs
           /\ \A c \in Bufs : /\ buf'[c].blockno = buf[c].blockno /\ buf'[c].refcnt = buf[c].refcnt
                              /\ buf'[c].valid = buf[c].valid /\ buf'[c].owner = buf[c].owner
           /\ buf'[caller[p].b].dirty /\ \A c \in Bufs \ {caller[p].b} : buf'[c] = buf[c]
           /\ \A k \in 1 .. Len(idequeue) : idequeue[k] \in Bufs \ {caller[p].b}
           /\ UniqueInv' /\ ContentsInv' /\ WritesSurvive'
<1> USE BufCacheAssumption
<1>0. BcTypeOK /\ CallersInv /\ UniqueInv /\ ContentsInv /\ QueueInv
    BY Zenon DEF BcInv
<1>1. PICK b \in Bufs, n \in Blocks : /\ b = caller[p].b /\ n = caller[p].blockno
                                      /\ buf[b].blockno = n /\ buf[b].owner = p /\ buf[b].valid
    BY Zenon, <1>0 DEF CallersInv
<1>2. /\ newest' = [newest EXCEPT ![n] = v]
      /\ bad' = bad \ {b}
      /\ buf' = [buf EXCEPT ![b] = [buf[b] EXCEPT !.data = v, !.dirty = TRUE]]
    BY Zenon, <1>1 DEF Modify
<1>3. buf' \in [Bufs -> BufRec] /\ newest' \in [Blocks -> Values] /\ bad' \in SUBSET Bufs
  <2>1. [buf[b] EXCEPT !.data = v, !.dirty = TRUE] \in BufRec
    BY Zenon, <1>0, BufTyped DEF BcTypeOK
  <2> QED
    BY Zenon, <2>1, <1>0, <1>2 DEF BcTypeOK
<1>4. /\ \A c \in Bufs : /\ buf'[c].blockno = buf[c].blockno /\ buf'[c].refcnt = buf[c].refcnt
                         /\ buf'[c].valid = buf[c].valid /\ buf'[c].owner = buf[c].owner
      /\ buf'[b].dirty /\ buf'[b].data = v
      /\ \A c \in Bufs \ {b} : buf'[c] = buf[c]
    BY <1>0, <1>2 DEF BcTypeOK, BufRec
<1>5. \A m \in Blocks : newest'[m] = IF m = n THEN v ELSE newest[m]
    BY Zenon, <1>0, <1>2 DEF BcTypeOK
<1>6. \A k \in 1 .. Len(idequeue) : idequeue[k] \in Bufs \ {b}
    BY <1>0, <1>1 DEF BcTypeOK, QueueInv, CallersInv
<1>7. UniqueInv'
    BY <1>0, <1>4 DEF UniqueInv
<1>8. ContentsInv'
    BY SMTT(30), <1>0, <1>1, <1>2, <1>4, <1>5 DEF ContentsInv, UniqueInv, NoBlock
<1>9. WritesSurvive'
    BY <1>0, <1>1, <1>4, <1>5 DEF BcInv, WritesSurvive, Cached
<1> QED
    BY Zenon, <1>1, <1>3, <1>4, <1>6, <1>7, <1>8, <1>9

\* Nobody else sleeps, wakes or works on the buffer that p holds.
LEMMA HolderAlone ==
    ASSUME CallersInv, NEW p \in BProcs, caller[p].pc = "held"
    PROVE  \A q \in BProcs \ {p} : caller[q].pc \in {"io", "woken", "held"} => caller[q].b # caller[p].b
    BY Zenon DEF CallersInv

LEMMA BwritePreserves ==
    ASSUME BcInv, NEW p \in BProcs, NEW v \in Values, bwrite(p, v)
    PROVE  BcInv'
<1> USE BufCacheAssumption
<1>0. BcTypeOK /\ CallersInv /\ QueueInv
    BY Zenon DEF BcInv
<1>1. /\ caller[p].pc = "held" /\ Modify(p, v)
      /\ UNCHANGED <<lru, disk, errors, bgetpanic>>
    BY Zenon DEF bwrite
<1>2. PICK b \in Bufs : b = caller[p].b
    BY Zenon, <1>1, ModifyKeeps
<1>3. /\ idequeue' = Append(idequeue, b)
      /\ active' = IF Head(idequeue') = b THEN b ELSE active
      /\ caller' = [caller EXCEPT ![p] = [caller[p] EXCEPT !.pc = "io"]]
    BY Zenon, <1>2 DEF bwrite, Enqueue, Request
<1>4. /\ buf' \in [Bufs -> BufRec] /\ newest' \in [Blocks -> Values] /\ bad' \in SUBSET Bufs
      /\ \A c \in Bufs : /\ buf'[c].blockno = buf[c].blockno /\ buf'[c].refcnt = buf[c].refcnt
                         /\ buf'[c].valid = buf[c].valid /\ buf'[c].owner = buf[c].owner
      /\ buf'[b].dirty /\ \A c \in Bufs \ {b} : buf'[c] = buf[c]
      /\ \A k \in 1 .. Len(idequeue) : idequeue[k] \in Bufs \ {b}
      /\ UniqueInv' /\ ContentsInv' /\ WritesSurvive'
    BY Zenon, <1>1, <1>2, ModifyKeeps
<1>5. /\ idequeue' \in Seq(Bufs) /\ Len(idequeue) \in Nat /\ Len(idequeue') = Len(idequeue) + 1
      /\ \A k \in 1 .. Len(idequeue) : idequeue'[k] = idequeue[k]
      /\ idequeue'[Len(idequeue) + 1] = b
    BY Zenon, <1>0, <1>3, Enqueued
<1>6. BcTypeOK'
  <2>1. caller[p] \in CallerRec
    BY Zenon, <1>0 DEF BcTypeOK
  <2>2. [caller[p] EXCEPT !.pc = "io"] \in CallerRec
    BY Zenon, <2>1 DEF CallerRec
  <2>3. caller' \in [BProcs -> CallerRec]
    BY Zenon, <2>2, <1>0, <1>3 DEF BcTypeOK
  <2> QED
    BY Zenon, <2>3, <1>0, <1>1, <1>4, <1>5 DEF BcTypeOK
<1>7. /\ \A q \in BProcs : caller'[q].b = caller[q].b /\ caller'[q].blockno = caller[q].blockno
      /\ \A q \in BProcs \ {p} : caller'[q] = caller[q]
      /\ caller'[p].pc = "io"
    BY Zenon, <1>0, <1>3 DEF BcTypeOK, CallerRec
<1>13. \A q \in BProcs \ {p} : caller[q].pc \in {"io", "woken", "held"} => caller[q].b # b
    BY Zenon, <1>0, <1>1, <1>2, HolderAlone
<1>8. CallersInv'
  <2> SUFFICES ASSUME NEW q \in BProcs
               PROVE  /\ caller'[q].pc = "away" => caller'[q] = Away
                      /\ caller'[q].pc # "away" => /\ caller'[q].b \in Bufs /\ caller'[q].blockno \in Blocks
                                                   /\ buf'[caller'[q].b].blockno = caller'[q].blockno
                      /\ caller'[q].pc \in {"io", "woken", "held"} => buf'[caller'[q].b].owner = q
                      /\ caller'[q].pc \in {"woken", "held"} => buf'[caller'[q].b].valid
                      /\ caller'[q].pc = "woken" => ~buf'[caller'[q].b].dirty
    BY Zenon DEF CallersInv
  <2>1. CASE q = p
    BY <2>1, <1>0, <1>1, <1>4, <1>7 DEF CallersInv
  <2>2. CASE q # p
    BY <2>2, <1>0, <1>4, <1>7, <1>13 DEF CallersInv
  <2> QED
    BY Zenon, <2>1, <2>2
<1>9. CountInv'
    BY Zenon, <1>4, <1>7, CountKept DEF BcInv
<1>10. QueueInv'
  <2>1. \A k \in 1 .. Len(idequeue') : k \in 1 .. Len(idequeue) \/ k = Len(idequeue) + 1
    BY <1>5
  <2>2. \A j, k \in 1 .. Len(idequeue') : idequeue'[j] = idequeue'[k] => j = k
    BY <2>1, <1>0, <1>4, <1>5 DEF QueueInv
  <2>3. \A k \in 1 .. Len(idequeue) :
           /\ buf'[idequeue'[k]].dirty \/ ~buf'[idequeue'[k]].valid
           /\ \E q \in BProcs : caller'[q].pc = "io" /\ caller'[q].b = idequeue'[k]
    BY SMTT(30), <1>0, <1>1, <1>4, <1>5, <1>7 DEF QueueInv
  <2>4. LET k == Len(idequeue) + 1
        IN  /\ buf'[idequeue'[k]].dirty
            /\ \E q \in BProcs : caller'[q].pc = "io" /\ caller'[q].b = idequeue'[k]
    BY Zenon, <1>2, <1>4, <1>5, <1>7
  <2> QED
    BY Zenon, <2>1, <2>2, <2>3, <2>4 DEF QueueInv
<1>11. SleeperHasRequest'
  <2>1. active' = Head(idequeue')
    BY Zenon, <1>0, <1>3, DriveStarted DEF BcInv
  <2>2. \A q \in BProcs : caller'[q].pc = "io" =>
           \E k \in 1 .. Len(idequeue') : idequeue'[k] = caller'[q].b
    BY SMTT(30), <1>0, <1>1, <1>2, <1>4, <1>5, <1>7 DEF BcInv, SleeperHasRequest, CallersInv
  <2> QED
    BY Zenon, <2>1, <2>2 DEF SleeperHasRequest
<1>12. ListInv'
    BY Zenon, <1>1 DEF BcInv, ListInv
<1> QED
    BY Zenon, <1>4, <1>6, <1>8, <1>9, <1>10, <1>11, <1>12 DEF BcInv

LEMMA LogWritePreserves ==
    ASSUME BcInv, NEW p \in BProcs, NEW v \in Values, log_write(p, v)
    PROVE  BcInv'
<1> USE BufCacheAssumption
<1>0. BcTypeOK /\ CallersInv /\ QueueInv
    BY Zenon DEF BcInv
<1>1. /\ caller[p].pc = "held" /\ Modify(p, v)
      /\ UNCHANGED <<lru, idequeue, active, disk, caller, errors, bgetpanic>>
    BY Zenon DEF log_write
<1>2. PICK b \in Bufs : b = caller[p].b
    BY Zenon, <1>1, ModifyKeeps
<1>3. /\ buf' \in [Bufs -> BufRec] /\ newest' \in [Blocks -> Values] /\ bad' \in SUBSET Bufs
      /\ \A c \in Bufs : /\ buf'[c].blockno = buf[c].blockno /\ buf'[c].refcnt = buf[c].refcnt
                         /\ buf'[c].valid = buf[c].valid /\ buf'[c].owner = buf[c].owner
      /\ buf'[b].dirty /\ \A c \in Bufs \ {b} : buf'[c] = buf[c]
      /\ \A k \in 1 .. Len(idequeue) : idequeue[k] \in Bufs \ {b}
      /\ UniqueInv' /\ ContentsInv' /\ WritesSurvive'
    BY Zenon, <1>1, <1>2, ModifyKeeps
<1>4. BcTypeOK' /\ CallersInv'
  <2>1. BcTypeOK'
    BY Zenon, <1>0, <1>1, <1>3 DEF BcTypeOK
  <2>2. \A q \in BProcs \ {p} : caller[q].pc \in {"io", "woken", "held"} => caller[q].b # b
    BY Zenon, <1>0, <1>1, <1>2, HolderAlone
  <2>3. CallersInv'
    BY SMTT(30), <2>2, <1>0, <1>1, <1>3 DEF CallersInv
  <2> QED
    BY Zenon, <2>1, <2>3
<1>5. CountInv'
    BY Zenon, <1>1, <1>3, CountKept DEF BcInv
<1>6. QueueInv'
  <2>1. UNCHANGED <<idequeue, caller>> /\ \A k \in 1 .. Len(idequeue) : buf'[idequeue[k]] = buf[idequeue[k]]
    BY Zenon, <1>1, <1>3
  <2> QED
    BY Zenon, <2>1, <1>0 DEF QueueInv
<1>7. SleeperHasRequest'
    BY SMTT(30), <1>0, <1>1, <1>2, <1>3 DEF BcInv, SleeperHasRequest, CallersInv
<1>8. ListInv'
    BY Zenon, <1>1 DEF BcInv, ListInv
<1> QED
    BY Zenon, <1>3, <1>4, <1>5, <1>6, <1>7, <1>8 DEF BcInv

LEMMA IdeintrPreserves ==
    ASSUME BcInv, NEW fails \in BOOLEAN, ideintr(fails)
    PROVE  BcInv'
<1> USE BufCacheAssumption
<1>0. BcTypeOK /\ CallersInv /\ UniqueInv /\ ContentsInv /\ QueueInv
    BY Zenon DEF BcInv
<1>1. /\ idequeue # <<>> /\ idequeue' = Tail(idequeue)
      /\ UNCHANGED <<lru, newest, bgetpanic>>
    BY Zenon DEF ideintr
<1>2. /\ Len(idequeue) \in Nat \ {0} /\ Len(idequeue') = Len(idequeue) - 1
      /\ \A k \in 1 .. Len(idequeue) : idequeue[k] \in Bufs
      /\ \A k \in 1 .. Len(idequeue') : idequeue'[k] = idequeue[k + 1]
      /\ Head(idequeue) = idequeue[1] /\ idequeue' \in Seq(Bufs)
    BY <1>0, <1>1 DEF BcTypeOK
<1>3. PICK b \in Bufs : b = idequeue[1] /\ b = Head(idequeue)
    BY <1>2
<1>4. PICK n \in Blocks : n = buf[b].blockno
    BY <1>0, <1>2, <1>3 DEF QueueInv, CallersInv
<1>21. active = b
    BY Zenon, <1>1, <1>3 DEF BcInv, SleeperHasRequest
<1> DEFINE d == IF buf[b].dirty \/ fails THEN buf[b].data ELSE disk[n]
<1>5. /\ fails => ~buf[b].dirty
      /\ disk' = IF buf[b].dirty THEN [disk EXCEPT ![n] = buf[b].data] ELSE disk
      /\ buf' = [buf EXCEPT ![b] = [buf[b] EXCEPT !.data = d, !.valid = TRUE, !.dirty = FALSE]]
      /\ bad' = IF fails THEN bad \cup {b} ELSE bad
    BY Zenon, <1>3, <1>4, <1>21 DEF ideintr
<1>22. caller' = Woken(b)
    BY Zenon, <1>3 DEF ideintr
<1>23. /\ caller' \in [BProcs -> CallerRec]
       /\ \A q \in BProcs : /\ caller'[q].b = caller[q].b /\ caller'[q].blockno = caller[q].blockno
                            /\ caller[q].pc = "io" /\ caller[q].b = b => caller'[q].pc = "woken"
                            /\ ~(caller[q].pc = "io" /\ caller[q].b = b) => caller'[q] = caller[q]
    BY <1>0, <1>22 DEF BcTypeOK, CallerRec, Woken
<1>6. d \in Values
    BY Zenon, <1>0 DEF BcTypeOK, BufRec
<1>7. BcTypeOK'
  <2>1. [buf[b] EXCEPT !.data = d, !.valid = TRUE, !.dirty = FALSE] \in BufRec
    BY Zenon, <1>0, <1>6, BufTyped DEF BcTypeOK
  <2>2. buf' \in [Bufs -> BufRec] /\ bad' \in SUBSET Bufs
    BY Zenon, <2>1, <1>0, <1>5 DEF BcTypeOK
  <2>3. buf[b].data \in Values
    BY Zenon, <1>0 DEF BcTypeOK, BufRec
  <2>4. disk' \in [Blocks -> Values]
    BY Zenon, <2>3, <1>0, <1>5 DEF BcTypeOK
  <2> QED
    BY Zenon, <2>2, <2>4, <1>0, <1>1, <1>2, <1>23 DEF BcTypeOK
<1>8. /\ \A c \in Bufs : /\ buf'[c].blockno = buf[c].blockno /\ buf'[c].refcnt = buf[c].refcnt
                         /\ buf'[c].owner = buf[c].owner
      /\ buf'[b].valid /\ ~buf'[b].dirty /\ buf'[b].data = d
      /\ \A c \in Bufs \ {b} : buf'[c] = buf[c]
    BY <1>0, <1>5 DEF BcTypeOK, BufRec
<1>9. CallersInv'
  <2> SUFFICES ASSUME NEW q \in BProcs
               PROVE  /\ caller'[q].pc = "away" => caller'[q] = Away
                      /\ caller'[q].pc # "away" => /\ caller'[q].b \in Bufs /\ caller'[q].blockno \in Blocks
                                                   /\ buf'[caller'[q].b].blockno = caller'[q].blockno
                      /\ caller'[q].pc \in {"io", "woken", "held"} => buf'[caller'[q].b].owner = q
                      /\ caller'[q].pc \in {"woken", "held"} => buf'[caller'[q].b].valid
                      /\ caller'[q].pc = "woken" => ~buf'[caller'[q].b].dirty
    BY Zenon DEF CallersInv
  <2>1. CASE caller[q].pc = "io" /\ caller[q].b = b
    BY <2>1, <1>0, <1>8, <1>23 DEF CallersInv
  <2>2. CASE ~(caller[q].pc = "io" /\ caller[q].b = b)
    BY <2>2, <1>0, <1>8, <1>23 DEF CallersInv
  <2> QED
    BY Zenon, <2>1, <2>2
<1>10. CountInv'
    BY Zenon, <1>8, <1>23, CountKept DEF BcInv
<1>11. UniqueInv'
    BY <1>0, <1>8 DEF UniqueInv
<1>12. fails \/ d = newest[n]
  <2>1. CASE buf[b].dirty
    BY Zenon, <2>1, <1>0, <1>4 DEF ContentsInv
  <2>2. CASE ~buf[b].dirty
    <3>1. \A c \in Cached(n) : c = b
      BY Zenon, <1>0, <1>4 DEF Cached, UniqueInv, NoBlock
    <3>2. disk[n] = newest[n]
      BY Zenon, <3>1, <2>2 DEF BcInv, WritesSurvive
    <3> QED
      BY Zenon, <3>2, <2>2
  <2> QED
    BY Zenon, <2>1, <2>2
<1> HIDE DEF d
<1>13. ContentsInv'
  <2>1. \A c \in Bufs \ {b} : c \in bad' <=> c \in bad
    BY Zenon, <1>5
  <2>2. fails => b \in bad'
    BY Zenon, <1>5
  <2> QED
    BY <2>1, <2>2, <1>0, <1>1, <1>4, <1>8, <1>12 DEF ContentsInv
<1>14. \A k \in 1 .. Len(idequeue') : k + 1 \in 1 .. Len(idequeue) /\ idequeue'[k] \in Bufs \ {b}
    BY <1>0, <1>2, <1>3 DEF QueueInv
<1>15. QueueInv'
  <2>1. \A j, k \in 1 .. Len(idequeue') : idequeue'[j] = idequeue'[k] => j = k
    BY <1>0, <1>2, <1>14 DEF QueueInv
  <2>2. \A k \in 1 .. Len(idequeue') :
           /\ buf'[idequeue'[k]].dirty \/ ~buf'[idequeue'[k]].valid
           /\ \E p \in BProcs : caller'[p].pc = "io" /\ caller'[p].b = idequeue'[k]
    BY <1>0, <1>2, <1>8, <1>14, <1>23 DEF QueueInv
  <2> QED
    BY Zenon, <2>1, <2>2 DEF QueueInv
<1>16. \A k \in 1 .. Len(idequeue) : \/ idequeue[k] = b
                                     \/ \E j \in 1 .. Len(idequeue') : idequeue'[j] = idequeue[k]
  <2> SUFFICES ASSUME NEW k \in 1 .. Len(idequeue), k # 1
               PROVE  \E j \in 1 .. Len(idequeue') : idequeue'[j] = idequeue[k]
    BY Zenon, <1>3
  <2>1. k - 1 \in 1 .. Len(idequeue') /\ idequeue'[k - 1] = idequeue[k]
    BY <1>2
  <2> QED
    BY Zenon, <2>1
<1>17. SleeperHasRequest'
  <2>1. ASSUME NEW p \in BProcs, caller'[p].pc = "io"
        PROVE  \E k \in 1 .. Len(idequeue') : idequeue'[k] = caller'[p].b
    <3>1. caller[p].pc = "io" /\ caller[p].b # b /\ caller'[p].b = caller[p].b
      BY <2>1, <1>23
    <3> QED
      BY Zenon, <3>1, <1>16 DEF BcInv, SleeperHasRequest
  <2>2. idequeue' # <<>> => active' = Head(idequeue')
    BY Zenon DEF ideintr, StartNext
  <2> QED
    BY Zenon, <2>1, <2>2 DEF SleeperHasRequest
<1>18. WritesSurvive'
  <2> SUFFICES ASSUME NEW m \in Blocks
               PROVE  \/ disk'[m] = newest[m]
                      \/ \E c \in Bufs : buf'[c].blockno = m /\ buf'[c].dirty /\ buf'[c].data = newest[m]
    BY Zenon, <1>1 DEF WritesSurvive, Cached
  <2>1. CASE m = n /\ buf[b].dirty
    <3>1. disk'[m] = buf[b].data
      BY Zenon, <2>1, <1>0, <1>5 DEF BcTypeOK
    <3> QED
      BY Zenon, <3>1, <2>1, <1>0, <1>4 DEF ContentsInv
  <2>2. CASE ~(m = n /\ buf[b].dirty)
    <3>1. disk'[m] = disk[m]
      BY Zenon, <2>2, <1>0, <1>5 DEF BcTypeOK
    <3>2. \A c \in Bufs : buf[c].blockno = m /\ buf[c].dirty => c # b
      BY Zenon, <2>2, <1>4
    <3> QED
      BY <3>1, <3>2, <1>8 DEF BcInv, WritesSurvive, Cached
  <2> QED
    BY Zenon, <2>1, <2>2
<1>19. ListInv'
    BY Zenon, <1>1 DEF BcInv, ListInv
<1> QED
    BY Zenon, <1>7, <1>9, <1>10, <1>11, <1>13, <1>15, <1>17, <1>18, <1>19 DEF BcInv

LEMMA IderwPreserves ==
    ASSUME BcInv, NEW p \in BProcs, iderw(p)
    PROVE  BcInv'
<1> USE BufCacheAssumption
<1>0. BcTypeOK /\ CallersInv /\ UniqueInv /\ ContentsInv /\ QueueInv
    BY Zenon DEF BcInv
<1>1. /\ caller[p].pc = "woken" /\ buf[caller[p].b].valid /\ ~buf[caller[p].b].dirty
      /\ UNCHANGED <<buf, lru, idequeue, active, disk, bad, errors, newest, bgetpanic>>
    BY Zenon, <1>0 DEF iderw, CallersInv
<1>10. caller' = [caller EXCEPT ![p] = [caller[p] EXCEPT !.pc = "held"]]
    BY Zenon, <1>1 DEF iderw
<1>2. BcTypeOK'
  <2>1. caller[p] \in CallerRec
    BY Zenon, <1>0 DEF BcTypeOK
  <2>2. [caller[p] EXCEPT !.pc = "held"] \in CallerRec
    BY Zenon, <2>1 DEF CallerRec
  <2>3. caller' \in [BProcs -> CallerRec]
    BY Zenon, <2>2, <1>0, <1>10 DEF BcTypeOK
  <2> QED
    BY Zenon, <2>3, <1>0, <1>1 DEF BcTypeOK
<1>3. /\ \A q \in BProcs : caller'[q].b = caller[q].b /\ caller'[q].blockno = caller[q].blockno
      /\ \A q \in BProcs \ {p} : caller'[q] = caller[q]
      /\ caller'[p].pc = "held"
    BY Zenon, <1>0, <1>10 DEF BcTypeOK, CallerRec
<1>4. CallersInv'
    BY <1>0, <1>1, <1>3 DEF CallersInv
<1>5. CountInv'
    BY Zenon, <1>1, <1>3, CountKept DEF BcInv
<1>6. UniqueInv' /\ ContentsInv' /\ WritesSurvive'
    BY Zenon, <1>1 DEF BcInv, UniqueInv, ContentsInv, WritesSurvive, Cached
<1>7. QueueInv'
    BY <1>0, <1>1, <1>3 DEF QueueInv
<1>8. SleeperHasRequest'
    BY <1>1, <1>3 DEF BcInv, SleeperHasRequest
<1>9. ListInv'
    BY Zenon, <1>1 DEF BcInv, ListInv
<1> QED
    BY Zenon, <1>2, <1>4, <1>5, <1>6, <1>7, <1>8, <1>9 DEF BcInv

LEMMA BrelsePreserves ==
    ASSUME BcInv, NEW p \in BProcs, brelse(p)
    PROVE  BcInv'
<1> USE BufCacheAssumption
<1>0. BcTypeOK /\ CallersInv /\ UniqueInv /\ ContentsInv /\ QueueInv
    BY Zenon DEF BcInv
<1>1. PICK b \in Bufs : b = caller[p].b /\ caller[p].pc = "held" /\ buf[b].owner = p
    BY Zenon, <1>0 DEF brelse, CallersInv
<1>2. /\ buf' = [buf EXCEPT ![b] = [buf[b] EXCEPT !.owner = "none"]]
      /\ caller' = [caller EXCEPT ![p] = [caller[p] EXCEPT !.pc = "release"]]
      /\ UNCHANGED <<lru, idequeue, active, disk, bad, errors, newest, bgetpanic>>
    BY Zenon, <1>1 DEF brelse
<1>3. BcTypeOK'
  <2>1. buf' \in [Bufs -> BufRec]
    BY Zenon, <1>0, <1>2, BufTyped DEF BcTypeOK
  <2>2. caller[p] \in CallerRec
    BY Zenon, <1>0 DEF BcTypeOK
  <2>3. [caller[p] EXCEPT !.pc = "release"] \in CallerRec
    BY Zenon, <2>2 DEF CallerRec
  <2>4. caller' \in [BProcs -> CallerRec]
    BY Zenon, <2>3, <1>0, <1>2 DEF BcTypeOK
  <2> QED
    BY Zenon, <2>1, <2>4, <1>0, <1>2 DEF BcTypeOK
<1>4. \A c \in Bufs : /\ buf'[c].blockno = buf[c].blockno /\ buf'[c].refcnt = buf[c].refcnt
                      /\ buf'[c].valid = buf[c].valid /\ buf'[c].dirty = buf[c].dirty
                      /\ buf'[c].data = buf[c].data
                      /\ c # b => buf'[c].owner = buf[c].owner
    BY <1>0, <1>2 DEF BcTypeOK, BufRec
<1>5. /\ \A q \in BProcs : caller'[q].b = caller[q].b /\ caller'[q].blockno = caller[q].blockno
      /\ \A q \in BProcs \ {p} : caller'[q] = caller[q]
      /\ caller'[p].pc = "release"
    BY <1>0, <1>2 DEF BcTypeOK, CallerRec
<1>6. CallersInv'
    BY <1>0, <1>1, <1>4, <1>5 DEF CallersInv
<1>7. CountInv'
    BY Zenon, <1>4, <1>5, CountKept DEF BcInv
<1>8. UniqueInv' /\ ContentsInv'
    BY <1>0, <1>2, <1>4 DEF UniqueInv, ContentsInv
<1>9. QueueInv'
  <2>1. \A k \in 1 .. Len(idequeue) : idequeue[k] \in Bufs
    BY <1>0 DEF BcTypeOK
  <2> QED
    BY <2>1, <1>0, <1>1, <1>2, <1>4, <1>5 DEF QueueInv
<1>10. SleeperHasRequest'
    BY <1>0, <1>2, <1>4, <1>5 DEF BcInv, SleeperHasRequest, CallersInv
<1>11. WritesSurvive' /\ ListInv'
    BY <1>2, <1>4 DEF BcInv, WritesSurvive, Cached, ListInv
<1> QED
    BY Zenon, <1>3, <1>6, <1>7, <1>8, <1>9, <1>10, <1>11 DEF BcInv

\* The list keeps every buffer when one moves to its head.
LEMMA MovedKeepsAll ==
    ASSUME BcInv, NEW b \in Bufs
    PROVE  /\ MovedToHead(b) \in [1 .. NBUF -> Bufs]
           /\ \A c \in Bufs : \E k \in 1 .. NBUF : MovedToHead(b)[k] = c
<1> USE BufCacheAssumption
<1> DEFINE at == PlaceOf(b)
<1>1. at \in 1 .. NBUF /\ lru[at] = b
    BY Zenon DEF BcInv, ListInv, PlaceOf
<1>2. lru \in [1 .. NBUF -> Bufs]
    BY Zenon DEF BcInv, BcTypeOK
<1> HIDE DEF at
<1>3. MovedToHead(b) = [k \in 1 .. NBUF |-> IF k = 1 THEN b ELSE IF k <= at THEN lru[k - 1] ELSE lru[k]]
    BY <1>1 DEF MovedToHead, at
<1>4. ASSUME NEW c \in Bufs PROVE \E k \in 1 .. NBUF : MovedToHead(b)[k] = c
  <2>1. PICK j \in 1 .. NBUF : lru[j] = c
    BY Zenon DEF BcInv, ListInv
  <2>2. CASE j = at
    BY <2>1, <2>2, <1>1, <1>3
  <2>3. CASE j < at
    <3>1. j + 1 \in 1 .. NBUF /\ MovedToHead(b)[j + 1] = c
      BY <2>1, <2>3, <1>1, <1>3
    <3> QED
      BY Zenon, <3>1
  <2>4. CASE j > at
    <3>1. MovedToHead(b)[j] = c
      BY <2>1, <2>4, <1>1, <1>3
    <3> QED
      BY Zenon, <3>1
  <2> QED
    BY <2>2, <2>3, <2>4, <1>1
<1> QED
    BY <1>1, <1>2, <1>3, <1>4

LEMMA BrelseRefPreserves ==
    ASSUME BcInv, NEW p \in BProcs, brelse_ref(p)
    PROVE  BcInv'
<1> USE BufCacheAssumption
<1>0. BcTypeOK /\ CallersInv /\ UniqueInv /\ ContentsInv /\ QueueInv
    BY Zenon DEF BcInv
<1>1. PICK b \in Bufs : b = caller[p].b /\ caller[p].pc = "release"
    BY Zenon, <1>0 DEF brelse_ref, CallersInv
<1>2. /\ buf' = [buf EXCEPT ![b] = [buf[b] EXCEPT !.refcnt = @ - 1]]
      /\ lru' = lru \/ lru' = MovedToHead(b)
      /\ caller' = [caller EXCEPT ![p] = Away]
      /\ UNCHANGED <<idequeue, active, disk, bad, errors, newest, bgetpanic>>
    BY Zenon, <1>1 DEF brelse_ref, Released
<1>3. /\ Cardinality(Users(b)') = Cardinality(Users(b)) - 1
      /\ \A c \in Bufs : c # b => Users(c)' = Users(c)
    BY Zenon, <1>0, <1>1, <1>2, UsersShrink
<1>4. buf[b].refcnt - 1 \in Nat
  <2>1. p \in Users(b)
    BY Zenon, <1>1 DEF Users
  <2> QED
    BY <2>1, UsersFinite DEF BcInv, CountInv
<1>5. BcTypeOK'
  <2>1. buf' \in [Bufs -> BufRec]
    BY Zenon, <1>0, <1>2, <1>4, BufTyped DEF BcTypeOK
  <2>2. caller' \in [BProcs -> CallerRec]
    BY <1>0, <1>2 DEF BcTypeOK, CallerRec, Away
  <2>3. lru' \in [1 .. NBUF -> Bufs]
    BY ZenonT(30), <1>0, <1>2, MovedKeepsAll DEF BcTypeOK
  <2> QED
    BY Zenon, <2>1, <2>2, <2>3, <1>0, <1>2 DEF BcTypeOK
<1>6. \A c \in Bufs : /\ buf'[c].blockno = buf[c].blockno /\ buf'[c].owner = buf[c].owner
                      /\ buf'[c].valid = buf[c].valid /\ buf'[c].dirty = buf[c].dirty
                      /\ buf'[c].data = buf[c].data
                      /\ buf'[c].refcnt = IF c = b THEN buf[c].refcnt - 1 ELSE buf[c].refcnt
    BY <1>0, <1>2 DEF BcTypeOK, BufRec
<1>7. \A q \in BProcs : caller'[q] = IF q = p THEN Away ELSE caller[q]
    BY Zenon, <1>0, <1>2 DEF BcTypeOK
<1>8. CallersInv'
    BY <1>0, <1>6, <1>7 DEF CallersInv, Away
<1>9. CountInv'
    BY Zenon, <1>3, <1>6 DEF BcInv, CountInv
<1>10. UniqueInv' /\ ContentsInv'
    BY <1>0, <1>2, <1>6 DEF UniqueInv, ContentsInv
<1>11. QueueInv'
  <2>1. \A k \in 1 .. Len(idequeue) : idequeue[k] \in Bufs
    BY <1>0 DEF BcTypeOK
  <2> QED
    BY <2>1, <1>0, <1>1, <1>2, <1>6, <1>7 DEF QueueInv
<1>12. SleeperHasRequest'
    BY <1>0, <1>2, <1>6, <1>7 DEF BcInv, SleeperHasRequest, CallersInv, Away
<1>13. WritesSurvive'
    BY <1>2, <1>6 DEF BcInv, WritesSurvive, Cached
<1>14. ListInv'
  <2>1. CASE lru' = lru
    BY Zenon, <2>1 DEF BcInv, ListInv
  <2>2. CASE lru' = MovedToHead(b)
    BY Zenon, <2>2, MovedKeepsAll DEF ListInv
  <2> QED
    BY Zenon, <2>1, <2>2, <1>2
<1> QED
    BY Zenon, <1>5, <1>8, <1>9, <1>10, <1>11, <1>12, <1>13, <1>14 DEF BcInv

LEMMA Inductive == BcInv /\ [BcNext]_bcVars => BcInv'
<1> SUFFICES ASSUME BcInv, [BcNext]_bcVars PROVE BcInv'
    BY Zenon
<1>1. CASE UNCHANGED bcVars
    BY Zenon, <1>1, IdlePreserves DEF bcVars
<1>2. ASSUME NEW p \in BProcs, NEW n \in Blocks, bget_cached(p, n) \/ bget(p, n) PROVE BcInv'
    BY Zenon, <1>2, BgetCachedPreserves, BgetPreserves
<1>3. ASSUME NEW p \in BProcs, NEW v \in Values, bwrite(p, v) \/ log_write(p, v) PROVE BcInv'
    BY Zenon, <1>3, BwritePreserves, LogWritePreserves
<1>4. ASSUME NEW p \in BProcs, bread(p) \/ iderw(p) \/ brelse(p) \/ brelse_ref(p) PROVE BcInv'
    BY Zenon, <1>4, BreadPreserves, IderwPreserves, BrelsePreserves, BrelseRefPreserves
<1>5. ASSUME NEW fails \in BOOLEAN, ideintr(fails) PROVE BcInv'
    BY Zenon, <1>5, IdeintrPreserves
<1> QED
    BY Zenon, <1>1, <1>2, <1>3, <1>4, <1>5 DEF BcNext

(* The buffer cache of bio.c on the queue of ide.c, for any number of      *)
(* processes, blocks, contents and buffers and any failed reads: one buffer*)
(* per block, which stays with the block while anybody has it; a holder    *)
(* sees what was last written; and no write is lost to recycling.          *)
THEOREM CacheCoherent ==
    BcSpec => [](OneBufferPerBlock /\ HolderSeesNewest /\ WritesSurvive)
<1>1. BcInv => OneBufferPerBlock
  <2> SUFFICES ASSUME BcInv PROVE OneBufferPerBlock
    BY Zenon
  <2>1. ASSUME NEW p \in BProcs, caller[p] # Away PROVE buf[caller[p].b].blockno = caller[p].blockno
    BY Zenon, <2>1 DEF BcInv, CallersInv
  <2> QED
    BY Zenon, <2>1 DEF BcInv, UniqueInv, OneBufferPerBlock
<1>2. BcInv => HolderSeesNewest
    BY Zenon DEF BcInv, CallersInv, ContentsInv, HolderSeesNewest
<1>3. BcInv => WritesSurvive
    BY Zenon DEF BcInv
<1> QED
    BY <1>1, <1>2, <1>3, InitEstablishes, Inductive, PTL DEF BcSpec

(* A process that sleeps in iderw() has its request in the queue of ide.c, *)
(* and the drive was given the first one: an interrupt that wakes it is    *)
(* still to come, whatever reads fail and however the requests mix.        *)
THEOREM DiskAnswersAll == BcSpec => []SleeperHasRequest
<1>1. BcInv => SleeperHasRequest
    BY Zenon DEF BcInv
<1> QED
    BY <1>1, InitEstablishes, Inductive, PTL DEF BcSpec

\* The step that panics finds no free buffer, and no step follows it.
LEMMA PanicStep == BcInv /\ BgetFindsBuffer /\ [BcNext]_bcVars => BgetFindsBuffer'
<1> SUFFICES ASSUME BcInv, BgetFindsBuffer, [BcNext]_bcVars PROVE BgetFindsBuffer'
    BY Zenon
<1>1. CASE UNCHANGED bcVars
    BY Zenon, <1>1 DEF BgetFindsBuffer, Pinned, bcVars
<1>2. CASE BcNext
  <2>1. ~bgetpanic
    BY Zenon, <1>2 DEF BcNext
  <2>2. ASSUME NEW p \in BProcs, NEW n \in Blocks, bget(p, n) PROVE BgetFindsBuffer'
    <3>1. CASE RecyclablePlaces = {}
      <4>1. UNCHANGED <<buf, caller, idequeue>>
        BY Zenon, <2>2, <3>1 DEF bget
      <4>2. Pinned' = Pinned
        BY Zenon, <4>1 DEF Pinned
      <4> QED
        BY Zenon, <4>1, <4>2, <3>1, NothingFree DEF BgetFindsBuffer
    <3>2. CASE RecyclablePlaces # {}
      BY Zenon, <2>1, <2>2, <3>2 DEF bget, BgetFindsBuffer
    <3> QED
      BY Zenon, <3>1, <3>2
  <2>3. UNCHANGED bgetpanic => BgetFindsBuffer'
    BY Zenon, <2>1 DEF BgetFindsBuffer
  <2> QED
    BY Zenon, <1>2, <2>2, <2>3
       DEF BcNext, bget_cached, bwrite, log_write, bread, iderw, brelse, brelse_ref, ideintr
<1> QED
    BY Zenon, <1>1, <1>2

(* bget() meets its panic "no buffers" only when every buffer is one that  *)
(* some process has, or carries a dirty block with nobody left to write it *)
(* but the log: references are never lost and a finished write leaves no   *)
(* dirty mark, in any behaviour with failed reads included.                *)
THEOREM PanicMeansFull == BcSpec => []BgetFindsBuffer
<1>1. BcInit => BgetFindsBuffer
    BY Zenon DEF BcInit, BgetFindsBuffer
<1> QED
    BY <1>1, InitEstablishes, Inductive, PanicStep, PTL DEF BcSpec

=============================================================================
