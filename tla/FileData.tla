------------------------------ MODULE FileData -------------------------------
(***************************************************************************)
(* The contents of files: the block bitmap, the direct and indirect block  *)
(* addresses of an inode, readi(), writei() and itrunc() of fs.c, and the  *)
(* loop of filewrite() (file.c) that cuts a write into transactions.       *)
(*                                                                         *)
(* A block holds BSIZE words; a word is a unit of data or, in an indirect  *)
(* block, an address (so NINDIRECT = BSIZE).  A step of a writer is one    *)
(* round of writei()'s loop: what it allocates is marked under the lock of *)
(* the bitmap's buffer and is nobody else's from then on.                  *)
(***************************************************************************)
EXTENDS Integers, Sequences, FiniteSets

CONSTANTS DProcs, DInodes,     \* inodes are positive numbers
          BSIZE, NDIRECT, MAXOPBLOCKS,
          NBlocks,       \* data blocks of the disk
          Sizes          \* bound: the lengths of write() calls

VARIABLES bitmap,        \* blocks marked in use
          blk,           \* contents of the blocks
          inode,         \* in memory: [addrs, size]
          dip,        \* the same on disk
          ilocked,       \* the process in ilock()..iunlock(), or "none"
          wr,            \* the write each process is in
          fpanic         \* balloc() found no block

fdVars == <<bitmap, blk, inode, dip, ilocked, wr, fpanic>>

NINDIRECT == BSIZE
MAXFILE == NDIRECT + NINDIRECT
Block == 1 .. NBlocks
Word == 0 .. BSIZE - 1
BitmapBlock == 0
Unit(i, x) == 100 * i + x      \* what write() puts at place x of file i
Zero == [k \in Word |-> 0]
Junk == [k \in Word |-> 1]     \* what a free block is taken to hold
Empty0 == [addrs |-> [k \in 0 .. NDIRECT |-> 0], size |-> 0]
Idle == [ip |-> 0, off |-> 0, left |-> 0, chunk |-> 0, logged |-> {}]
Least(a, b) == IF a < b THEN a ELSE b

FdInit == /\ bitmap = {} /\ blk = [b \in Block |-> Junk]
          /\ inode = [i \in DInodes |-> Empty0] /\ dip = inode
          /\ ilocked = [i \in DInodes |-> "none"]
          /\ wr = [p \in DProcs |-> Idle] /\ fpanic = FALSE

(* balloc(): the first block the bitmap has free, 0 when there is none.    *)
balloc(bm) == IF Block \subseteq bm THEN 0 ELSE CHOOSE b \in Block \ bm : \A c \in Block \ bm : b <= c

(* bmap() of a block that exists: the address readi() reads from.          *)
mapped(i, bn) == LET a == inode[i].addrs IN
    IF bn < NDIRECT THEN a[bn] ELSE blk[a[NDIRECT]][bn - NDIRECT]

(* bmap() for writing: the slot of addrs, what it holds or gets, and the   *)
(* data block itself, which is the same or one entry of the indirect block.*)
bmap(i, bn) ==
    LET slot == Least(bn, NDIRECT)
        old  == inode[i].addrs[slot]
        top  == IF old = 0 THEN balloc(bitmap) ELSE old
        ind  == IF old = 0 THEN Zero ELSE blk[top]
        k    == bn - NDIRECT
        leaf == IF bn < NDIRECT THEN top
                ELSE IF top = 0 THEN 0
                ELSE IF ind[k] # 0 THEN ind[k] ELSE balloc(bitmap \cup {top})
        fresh == {top, leaf} \ bitmap
    IN  [slot |-> slot, top |-> top, leaf |-> leaf, fresh |-> fresh,
         blk |-> [b \in Block |-> IF bn >= NDIRECT /\ b = top THEN [ind EXCEPT ![k] = leaf]
                                  ELSE IF b \in fresh THEN Zero ELSE blk[b]],
         logged |-> fresh \cup {leaf}
                    \cup (IF fresh # {} THEN {BitmapBlock} ELSE {})
                    \cup (IF bn >= NDIRECT /\ leaf \in fresh THEN {top} ELSE {})]

(* filewrite(): write() of n units at an offset the file has.              *)
filewrite(p, i, off, n) ==
    /\ wr[p] = Idle
    /\ off <= inode[i].size
    /\ wr' = [wr EXCEPT ![p] = [Idle EXCEPT !.ip = i, !.off = off, !.left = n]]
    /\ UNCHANGED <<bitmap, blk, inode, dip, ilocked, fpanic>>

(* The most that filewrite() writes in one transaction, from LOGSIZE.      *)
maxbytes == ((3 * MAXOPBLOCKS - 1 - 1 - 2) \div 2) * BSIZE

(* begin_op(), ilock() and writei()'s test; a write past the largest file  *)
(* ends here with nothing changed.                                         *)
writei_begin(p) ==
    LET w == wr[p]
        n1 == Least(w.left, maxbytes)
    IN  /\ w.ip # 0 /\ w.chunk = 0 /\ w.left > 0 /\ ilocked[w.ip] = "none"
        /\ IF w.off + n1 > MAXFILE * BSIZE
           THEN wr' = [wr EXCEPT ![p] = Idle] /\ UNCHANGED ilocked
           ELSE /\ wr' = [wr EXCEPT ![p].chunk = n1]
                /\ ilocked' = [ilocked EXCEPT ![w.ip] = p]
        /\ UNCHANGED <<bitmap, blk, inode, dip, fpanic>>

(* How much one round writes: to the end of the chunk or of the block.     *)
RoundSize(w) == Least(w.chunk, BSIZE - (w.off % BSIZE))

(* Where in its block the round starts.                                    *)
Place_start(w) == 0
Place(w) == w.off % BSIZE

(* One round: bmap() with its allocations, memmove() and log_write().      *)
writei(p) ==
    LET w == wr[p]
        m == bmap(w.ip, w.off \div BSIZE)
        k == RoundSize(w)
        from == Place(w)
    IN  /\ w.chunk > 0
        /\ IF m.top = 0 \/ m.leaf = 0
           THEN fpanic' = TRUE /\ UNCHANGED <<bitmap, blk, inode, wr>>
           ELSE /\ bitmap' = bitmap \cup m.fresh
                /\ inode' = [inode EXCEPT ![w.ip].addrs[m.slot] = m.top]
                /\ blk' = [m.blk EXCEPT ![m.leaf] = [x \in Word |->
                              IF x \in from .. from + k - 1 THEN Unit(w.ip, w.off + x - from) ELSE @[x]]]
                /\ wr' = [wr EXCEPT ![p].off = @ + k, ![p].chunk = @ - k, ![p].left = @ - k,
                                    ![p].logged = @ \cup m.logged]
                /\ UNCHANGED fpanic
        /\ UNCHANGED <<dip, ilocked>>

(* writei() after its loop: the size, and iupdate() when it has grown.     *)
Grown(ino, off) == [ino EXCEPT !.size = IF off > @ THEN off ELSE @]

(* iupdate() of the in-memory inode that writei() leaves.                  *)
iupdated_size(ino, old) == [old EXCEPT !.size = ino.size]
iupdated(ino, old) == ino

writei_end(p) ==
    LET w == wr[p]
        i == w.ip
        ino == Grown(inode[i], w.off)
    IN  /\ i # 0 /\ w.chunk = 0 /\ ilocked[i] = p
        /\ inode' = [inode EXCEPT ![i] = ino]
        /\ dip' = IF w.off > inode[i].size THEN [dip EXCEPT ![i] = iupdated(ino, @)] ELSE dip
        /\ ilocked' = [ilocked EXCEPT ![i] = "none"]
        /\ wr' = [wr EXCEPT ![p] = IF w.left = 0 THEN Idle ELSE [w EXCEPT !.logged = {}]]
        /\ UNCHANGED <<bitmap, blk, fpanic>>

(* The blocks of a file: data, and the indirect block itself.              *)
Nonzero(S) == S \ {0}
IndirectOf(i) == Nonzero({inode[i].addrs[NDIRECT]})
DataOf(i) == Nonzero({inode[i].addrs[k] : k \in 0 .. NDIRECT - 1}
                     \cup UNION {{blk[b][k] : k \in Word} : b \in IndirectOf(i)})

BlocksOf(i) == DataOf(i) \cup IndirectOf(i)

(* What itrunc() gives to bfree().                                         *)
Freed_direct(i) == DataOf(i)
Freed(i) == BlocksOf(i)

(* itrunc() of a file that no process uses (iput() of the last reference); *)
(* its inode then stands for the next file that ialloc() makes.            *)
itrunc(i) ==
    /\ inode[i] # Empty0
    /\ \A p \in DProcs : wr[p].ip # i
    /\ Freed(i) \subseteq bitmap          \* else bfree() panics
    /\ bitmap' = bitmap \ Freed(i)
    /\ inode' = [inode EXCEPT ![i] = Empty0]
    /\ dip' = [dip EXCEPT ![i] = Empty0]
    /\ blk' = [b \in Block |-> IF b \in Freed(i) THEN Junk ELSE blk[b]]
    /\ UNCHANGED <<ilocked, wr, fpanic>>

(* readi() of n units at off, cut at the end of the file.                  *)
readi(i, off, n) ==
    [k \in 1 .. Least(n, inode[i].size - off) |->
        blk[mapped(i, (off + k - 1) \div BSIZE)][(off + k - 1) % BSIZE]]

FdNext == /\ ~fpanic
          /\ \/ \E p \in DProcs :
                  \/ \E i \in DInodes, n \in Sizes :
                        \E off \in 0 .. inode[i].size : filewrite(p, i, off, n)
                  \/ writei_begin(p) \/ writei(p) \/ writei_end(p)
             \/ \E i \in DInodes : itrunc(i)

-----------------------------------------------------------------------------
(* Every block that bmap() reaches from an inode is marked in the bitmap,  *)
(* and is reached once: no block is data of two files, data twice, or data *)
(* and indirect block at once, whichever way writers and itrunc() take     *)
(* turns; and no marked block is unreachable (a leak).                     *)
BlocksAccounted ==
    /\ bitmap = UNION {BlocksOf(i) : i \in DInodes}
    /\ \A i, j \in DInodes : i # j => BlocksOf(i) \cap BlocksOf(j) = {}
    /\ \A i \in DInodes :
          /\ DataOf(i) \cap IndirectOf(i) = {}
          /\ LET top == (inode[i].size + BSIZE - 1) \div BSIZE IN
                Cardinality({mapped(i, bn) : bn \in 0 .. top - 1}) = top

(* readi() of a file nobody is writing returns what write() calls put at   *)
(* each place, and would from the inode as it is on disk, although         *)
(* writei() calls iupdate() only when the size grew.  A unit names its     *)
(* file and its offset, so that a block mapped wrongly, shared, zeroed     *)
(* late or cut short would show.                                           *)
ReadsWhatWasWritten ==
    \A i \in DInodes : ilocked[i] = "none" =>
        /\ dip[i] = inode[i]
        /\ \A off \in 0 .. inode[i].size, n \in Sizes :
              readi(i, off, n) = [k \in 1 .. Least(n, inode[i].size - off) |-> Unit(i, off + k - 1)]

(* param.h:10, MAXOPBLOCKS: "max # of blocks any FS op writes", which is   *)
(* what begin_op() reserves (log.c:130) for each transaction of a          *)
(* filewrite().  The blocks are data, bitmap and indirect block here; the  *)
(* inode's comes on top when the file grows.                               *)
WriteInBudget ==
    \A p \in DProcs : Cardinality(wr[p].logged) <= MAXOPBLOCKS
=============================================================================
