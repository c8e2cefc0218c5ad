------------------------------- MODULE Umalloc -------------------------------
(***************************************************************************)
(* malloc() and free() of the user library (umalloc.c): a circular list of *)
(* free blocks, sorted by address, through headers in the heap.  Addresses *)
(* and sizes count headers; a block's size includes its own.  The static   *)
(* header base lies below the heap.                                        *)
(***************************************************************************)
EXTENDS Integers, FiniteSets

CONSTANTS MinCore,      \* what morecore() asks sbrk() for at least (4096)
          HeapEnd,      \* bound: where sbrk() fails
          Requests      \* bound: the nunits of malloc() calls

VARIABLES freep,        \* NULL before the first malloc()
          ptr, size,    \* s.ptr and s.size at each address (0: no free block, no block)
          used,         \* blocks the program has
          brk,          \* end of the heap
          asked         \* nunits of the malloc() in progress, 0 when none

umVars == <<freep, ptr, size, used, brk, asked>>

NULL == -1
base == 1
HeapStart == 3                           \* not next to base
Addr == base .. HeapEnd

UmInit == /\ freep = NULL /\ brk = HeapStart
          /\ ptr = [a \in Addr |-> 0] /\ size = [a \in Addr |-> 0]
          /\ used = {} /\ asked = 0

(* The list as the loops walk it: nth[k] is k links after freep, and once  *)
(* round it is as many links as there are free blocks.                     *)
Listed == {a \in Addr : ptr[a] # 0}
Round == Cardinality(Listed)
nth[k \in Nat] == IF k = 0 THEN freep ELSE ptr[nth[k - 1]]
FirstSuch(S) == CHOOSE k \in S : \A j \in S : k <= j

(* free()'s loop stops where bp belongs between p and its successor, or    *)
(* where the list wraps and bp lies at either end.                         *)
Belongs(bp, p) == \/ bp > p /\ bp < ptr[p]
                  \/ p >= ptr[p] /\ (bp > p \/ bp < ptr[p])
PlaceFor(bp) == nth[FirstSuch({k \in 0 .. Round : Belongs(bp, nth[k])})]

(* "bp + bp->s.size == p->s.ptr"                                           *)
JoinsNext_never(bp, n, q) == FALSE
JoinsNext(bp, n, q) == bp + n = q

(* free() of block bp of n units, given the sizes: it joins the free block *)
(* after it, the one before it, both or none.                              *)
free(bp, n) ==
    LET p == PlaceFor(bp)
        q == ptr[p]
        up == JoinsNext(bp, n, q)
        down == p + size[p] = bp
        n1 == IF up THEN n + size[q] ELSE n
        next == IF up THEN ptr[q] ELSE q
        gone == (IF up THEN {q} ELSE {}) \cup (IF down THEN {bp} ELSE {})
        s1 == IF down THEN [size EXCEPT ![p] = @ + n1] ELSE [size EXCEPT ![bp] = n1]
        l1 == IF down THEN [ptr EXCEPT ![p] = next] ELSE [ptr EXCEPT ![p] = bp, ![bp] = next]
    IN  /\ size' = [a \in Addr |-> IF a \in gone THEN 0 ELSE s1[a]]
        /\ ptr' = [a \in Addr |-> IF a \in gone THEN 0 ELSE l1[a]]
        /\ freep' = p

user_free(bp) ==
    /\ asked = 0 /\ bp \in used
    /\ free(bp, size[bp])
    /\ used' = used \ {bp}
    /\ UNCHANGED <<brk, asked>>

(* malloc() starts; the first time it makes the list of base alone.        *)
malloc(n) ==
    /\ asked = 0
    /\ asked' = n
    /\ IF freep = NULL THEN freep' = base /\ ptr' = [ptr EXCEPT ![base] = base]
       ELSE UNCHANGED <<freep, ptr>>
    /\ UNCHANGED <<size, used, brk>>

(* The places, in the order of the loop, whose block is large enough.      *)
Fits == {k \in 1 .. Round : size[nth[k]] >= asked}

(* Where the tail that malloc() hands out starts.                          *)
TailOf_low(p) == p + size[p] - asked - 1
TailOf(p) == p + size[p] - asked

malloc_found ==
    /\ asked > 0 /\ Fits # {}
    /\ LET k == FirstSuch(Fits)
           prevp == nth[k - 1]
           p == nth[k]
       IN  /\ freep' = prevp
           /\ IF size[p] = asked
              THEN /\ ptr' = [ptr EXCEPT ![prevp] = ptr[p], ![p] = 0]
                   /\ used' = used \cup {p}
                   /\ UNCHANGED size
              ELSE /\ size' = [size EXCEPT ![p] = @ - asked, ![TailOf(p)] = asked]
                   /\ used' = used \cup {TailOf(p)}
                   /\ UNCHANGED ptr
    /\ asked' = 0
    /\ UNCHANGED brk

(* morecore(): sbrk() and free() of what it gave; malloc() goes on from    *)
(* freep.  When sbrk() fails, malloc() returns 0.                          *)
CoreSize == IF asked < MinCore THEN MinCore ELSE asked
morecore ==
    /\ asked > 0 /\ Fits = {} /\ brk + CoreSize <= HeapEnd
    /\ free(brk, CoreSize)
    /\ brk' = brk + CoreSize
    /\ UNCHANGED <<used, asked>>
malloc_fails ==
    /\ asked > 0 /\ Fits = {} /\ brk + CoreSize > HeapEnd
    /\ asked' = 0
    /\ UNCHANGED <<freep, ptr, size, used, brk>>

UmNext == \/ \E n \in Requests : malloc(n)
          \/ malloc_found \/ morecore \/ malloc_fails
          \/ \E bp \in Addr : user_free(bp)

-----------------------------------------------------------------------------
FreeBlocks == Listed \ {base}
Extent(a) == a .. a + size[a] - 1

(* The program's blocks and the free list share the heap out between them, *)
(* through every order of splitting and joining: no two blocks overlap, no *)
(* unit is lost, and the circular list goes through every free block in    *)
(* the order of addresses, none of them touching the next.                 *)
HeapPartitioned ==
    /\ used \cap FreeBlocks = {}
    /\ \A a, b \in used \cup FreeBlocks : a # b => Extent(a) \cap Extent(b) = {}
    /\ UNION {Extent(a) : a \in used \cup FreeBlocks} = HeapStart .. brk - 1
    /\ freep # NULL =>
          /\ {nth[k] : k \in 1 .. Round} = FreeBlocks \cup {base}
          /\ \A a \in FreeBlocks \cup {base} : ptr[a] > a \/ ptr[a] = base
          /\ \A a, b \in FreeBlocks : a + size[a] # b
=============================================================================
