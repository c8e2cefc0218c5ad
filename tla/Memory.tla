------------------------------- MODULE Memory --------------------------------
(***************************************************************************)
(* Physical pages and address spaces: the allocator of kalloc.c, the page  *)
(* tables of vm.c, and the calls that grow, shrink, copy, replace and free *)
(* an address space (sbrk, fork, exec, wait).                              *)
(*                                                                         *)
(* An address space is the set of its slots that hold a physical page:     *)
(* <<0, v>> is user page v, <<l, k>> the k-th table of level l, and the one*)
(* slot of level Levels + 1 the root (pml4).  A user page has a table on   *)
(* every level above it.  kalloc() takes a page off the free list for one  *)
(* slot and kfree() puts it back, so which page it is does not matter and  *)
(* the free list is a number of pages.                                     *)
(***************************************************************************)
EXTENDS Integers, Sequences, FiniteSets

CONSTANTS MProcs,
          NPages,       \* pages between end and PHYSTOP
          Levels,       \* table levels below the root: 3 on x86-64
          FanOut,       \* entries of a table
          PGSIZE,       \* words (addr_t) of a page; addresses count words
          KERNBASE,     \* addresses below are the user's
          UMaxM,        \* values of an address
          Deltas,       \* bound: arguments of sbrk()
          Tops,         \* bound: ends of the program's segments
          Pushes        \* bound: words exec() copies to the stack at a time

(* The user's half of the addresses holds the two pages of the first       *)
(* process, of which userinit() maps the second.                           *)
ASSUME MemoryAssumption ==
    /\ IsFiniteSet(MProcs) /\ MProcs # {}
    /\ NPages \in Nat /\ Levels \in Nat
    /\ PGSIZE \in Nat \ {0} /\ UMaxM \in Nat \ {0}
    /\ KERNBASE \in Nat /\ 2 * PGSIZE < KERNBASE
    /\ Deltas \subseteq Int /\ Tops \subseteq Nat /\ Pushes \subseteq Nat

VARIABLES nfree,        \* pages on kmem.freelist
          mstate,       \* "unused", "running" or "zombie"
          kstack,       \* 1 when the slot has a kernel stack
          pgdir,        \* the address space
          sz,           \* proc->sz
          newdir, newsz,  \* the image exec() is building
          newsp,        \* its stack pointer, 0 before it has a stack
          emptied,      \* history: processes that called sbrk(-sz)
          vmpanic       \* the panic that stopped the kernel, or "none"

memVars == <<nfree, mstate, kstack, pgdir, sz, newdir, newsz, newsp, emptied, vmpanic>>

Root == <<Levels + 1, 0>>
Path(v) == {<<0, v>>} \cup {<<l, v \div FanOut^l>> : l \in 1 .. Levels} \cup {Root}
AllSlots == UNION {Path(v) : v \in 0 .. KERNBASE \div PGSIZE}
PGROUNDUP(a) == ((a + PGSIZE - 1) \div PGSIZE) * PGSIZE
PagesIn(from, to) == {v \in 0 .. KERNBASE \div PGSIZE : PGROUNDUP(from) <= v * PGSIZE /\ v * PGSIZE < to}

(* Whether kalloc() can serve all these slots; it panics otherwise, and    *)
(* never returns the 0 its callers test for.                               *)
kalloc(need) == Cardinality(need) <= nfree

(* mappages() of the pages in V: the slots that walkpgdir() still lacks.   *)
Missing(vm, V) == (UNION {Path(v) : v \in V}) \ vm

(* allocuvm(): 0 is its error, and it never gets as far as kalloc()'s: that*)
(* panics.                                                                 *)
AllocSize(old, new) == IF new >= KERNBASE THEN 0 ELSE IF new < old THEN old ELSE new
AllocPages(old, new) == IF new < old \/ new >= KERNBASE THEN {} ELSE PagesIn(old, new)

(* deallocuvm(): what is unmapped, and the size it returns.                *)
DeallocSize(old, new) == IF new >= old THEN old ELSE new
DeallocPages_down(old, new) == PagesIn((new \div PGSIZE) * PGSIZE, old)
DeallocPages(old, new) == PagesIn(new, old)
Unmap(vm, V) == vm \ {<<0, v>> : v \in V}

(* userinit() has made the first process: one page, at PGSIZE.             *)
MemInit ==
    LET first == CHOOSE p \in MProcs : TRUE
        vm == Missing({}, {1})
    IN  /\ mstate = [p \in MProcs |-> IF p = first THEN "running" ELSE "unused"]
        /\ pgdir = [p \in MProcs |-> IF p = first THEN vm ELSE {}]
        /\ kstack = [p \in MProcs |-> IF p = first THEN 1 ELSE 0]
        /\ sz = [p \in MProcs |-> IF p = first THEN 2 * PGSIZE ELSE 0]
        /\ nfree = NPages - Cardinality(vm) - 1
        /\ newdir = [p \in MProcs |-> {}] /\ newsz = [p \in MProcs |-> 0]
        /\ newsp = [p \in MProcs |-> 0]
        /\ emptied = {} /\ vmpanic = "none"

Panic(why) == vmpanic' = why /\ UNCHANGED <<nfree, mstate, kstack, pgdir, sz, newdir, newsz, newsp, emptied>>

InUserM(p) == mstate[p] = "running" /\ newdir[p] = {}

(* growproc(n), n > 0; the tables that stay are those a shrink left.       *)
growproc(p, n) ==
    LET new == (sz[p] + n) % UMaxM
        need == Missing(pgdir[p], AllocPages(sz[p], new))
        vm == pgdir[p] \cup need
    IN  /\ InUserM(p) /\ n > 0 /\ AllocSize(sz[p], new) # 0
        /\ IF ~kalloc(need) THEN Panic("kalloc")
           ELSE /\ pgdir' = [pgdir EXCEPT ![p] = vm]
                /\ nfree' = nfree - Cardinality(need)
                /\ sz' = [sz EXCEPT ![p] = AllocSize(@, new)]
                /\ UNCHANGED <<mstate, kstack, newdir, newsz, newsp, emptied, vmpanic>>

(* growproc(n), n < 0: the size is stored unless deallocuvm() returned 0.  *)
growproc_shrink(p, n) ==
    LET new == (sz[p] + n) % UMaxM
        V == IF new >= sz[p] THEN {} ELSE DeallocPages(sz[p], new)
        vm == Unmap(pgdir[p], V)
        ret == DeallocSize(sz[p], new)
    IN  /\ InUserM(p) /\ n < 0
        /\ pgdir' = [pgdir EXCEPT ![p] = vm]
        /\ nfree' = nfree + Cardinality(pgdir[p]) - Cardinality(vm)
        /\ sz' = IF ret = 0 THEN sz ELSE [sz EXCEPT ![p] = ret]
        /\ emptied' = IF ret = 0 THEN emptied \cup {p} ELSE emptied
        /\ UNCHANGED <<mstate, kstack, newdir, newsz, newsp, vmpanic>>

(* copyuvm(): pages 1 up to the size, which must all be there.  Its size is*)
(* a uint; a process has that many bytes mapped only above PHYSTOP.        *)
CopyPages(s) == PagesIn(PGSIZE, s)

(* fork(): allocproc() with its stack, setupkvm() and copyuvm().           *)
fork(p, c) ==
    LET V == CopyPages(sz[p])
        vm == Missing({}, V) \cup {Root}
    IN  /\ InUserM(p) /\ mstate[c] = "unused"
        /\ IF \E v \in V : <<0, v>> \notin pgdir[p] THEN Panic("copyuvm")
           ELSE IF Cardinality(vm) + 1 > nfree THEN Panic("kalloc")
           ELSE /\ pgdir' = [pgdir EXCEPT ![c] = vm]
                /\ nfree' = nfree - Cardinality(vm) - 1
                /\ sz' = [sz EXCEPT ![c] = sz[p]]
                /\ mstate' = [mstate EXCEPT ![c] = "running"]
                /\ emptied' = IF p \in emptied THEN emptied \cup {c} ELSE emptied
                /\ kstack' = [kstack EXCEPT ![c] = 1]
                /\ UNCHANGED <<newdir, newsz, newsp, vmpanic>>

(* exec(): a new root, with the first page skipped.                        *)
exec(p) ==
    /\ InUserM(p)
    /\ IF nfree = 0 THEN Panic("kalloc")
       ELSE /\ newdir' = [newdir EXCEPT ![p] = {Root}]
            /\ nfree' = nfree - 1
            /\ newsz' = [newsz EXCEPT ![p] = PGSIZE]
            /\ UNCHANGED <<mstate, kstack, pgdir, sz, newsp, emptied, vmpanic>>

(* allocuvm() for the image.                                               *)
ImageAlloc(p, from, to) ==
    LET need == Missing(newdir[p], AllocPages(from, to))
    IN  /\ newdir' = [newdir EXCEPT ![p] = @ \cup need]
        /\ nfree' = nfree - Cardinality(need)
        /\ newsz' = [newsz EXCEPT ![p] = AllocSize(from, to)]
ImageFits(p, from, to) == kalloc(Missing(newdir[p], AllocPages(from, to)))

(* exec() loads a segment that ends at top.                                *)
exec_load(p, top) ==
    /\ newdir[p] # {} /\ newsp[p] = 0 /\ AllocSize(newsz[p], top) # 0 /\ top > newsz[p]
    /\ IF ~ImageFits(p, newsz[p], top) THEN Panic("kalloc")
       ELSE /\ ImageAlloc(p, newsz[p], top)
            /\ UNCHANGED <<mstate, kstack, pgdir, sz, newsp, emptied, vmpanic>>

(* exec() gives the image a guard page and a stack.                        *)
exec_stack(p) ==
    LET from == PGROUNDUP(newsz[p])
        to == from + 2 * PGSIZE
    IN  /\ newdir[p] # {} /\ newsp[p] = 0 /\ to < KERNBASE
        /\ IF ~ImageFits(p, from, to) THEN Panic("kalloc")
           ELSE /\ ImageAlloc(p, from, to)
                /\ newsp' = [newsp EXCEPT ![p] = to]
                /\ UNCHANGED <<mstate, kstack, pgdir, sz, emptied, vmpanic>>

(* clearpteu(): the page below the stack is not the user's.                *)
clearpteu(top) == top \div PGSIZE - 2

(* uva2ka() finds page v of the image, but not without PTE_U.  The page has*)
(* a page table, as every page from 0 to the stack has.                    *)
uva2ka_any(p, v) == <<0, v>> \in newdir[p]
uva2ka(p, v) == <<0, v>> \in newdir[p] /\ v # clearpteu(newsz[p])

(* copyout() of n words to address a, page by page.                        *)
copyout(p, a, n) == \A v \in {x \div PGSIZE : x \in a .. a + n - 1} : uva2ka(p, v)

(* exec() pushes an argument, or at last the vector of them.               *)
exec_push(p, n) ==
    /\ newsp[p] # 0 /\ copyout(p, newsp[p] - n, n)
    /\ newsp' = [newsp EXCEPT ![p] = @ - n]
    /\ UNCHANGED <<nfree, mstate, kstack, pgdir, sz, newdir, newsz, emptied, vmpanic>>

(* Words that would begin below 0 begin at the top of the addresses, where *)
(* there is no page table: uva2ka() follows the 0 of walkpgdir(), and the  *)
(* kernel's trap() panics.                                                 *)
exec_push_fault(p, n) == newsp[p] # 0 /\ n > newsp[p] /\ Panic("trap")

NoImage(p) == /\ newdir' = [newdir EXCEPT ![p] = {}]
              /\ newsz' = [newsz EXCEPT ![p] = 0] /\ newsp' = [newsp EXCEPT ![p] = 0]

(* exec() commits to the image and frees the old one.                      *)
exec_commit(p) ==
    /\ newsp[p] # 0 /\ newsp[p] # newsz[p]
    /\ pgdir' = [pgdir EXCEPT ![p] = newdir[p]]
    /\ sz' = [sz EXCEPT ![p] = newsz[p]]
    /\ nfree' = nfree + Cardinality(pgdir[p])
    /\ NoImage(p)
    /\ emptied' = emptied \ {p}
    /\ UNCHANGED <<mstate, kstack, vmpanic>>

(* exec()'s "bad": a header, a segment, an argument or the size is wrong.  *)
exec_bad(p) ==
    /\ newdir[p] # {}
    /\ nfree' = nfree + Cardinality(newdir[p])
    /\ NoImage(p)
    /\ UNCHANGED <<mstate, kstack, pgdir, sz, emptied, vmpanic>>

exit(p) ==
    /\ InUserM(p) /\ \E q \in MProcs \ {p} : mstate[q] = "running"
    /\ mstate' = [mstate EXCEPT ![p] = "zombie"]
    /\ UNCHANGED <<nfree, kstack, pgdir, sz, newdir, newsz, newsp, emptied, vmpanic>>

(* wait() by the parent frees the stack and, with freevm(), every level.   *)
FreevmSlots_leaves(vm) == {x \in vm : x[1] = 0 \/ x = Root}
FreevmSlots(vm) == vm
wait(c) ==
    /\ mstate[c] = "zombie"
    /\ nfree' = nfree + kstack[c] + Cardinality(FreevmSlots(pgdir[c]))
    /\ mstate' = [mstate EXCEPT ![c] = "unused"]
    /\ kstack' = [kstack EXCEPT ![c] = 0]
    /\ pgdir' = [pgdir EXCEPT ![c] = {}]
    /\ sz' = [sz EXCEPT ![c] = 0]
    /\ emptied' = emptied \ {c}
    /\ UNCHANGED <<newdir, newsz, newsp, vmpanic>>

MemNext == vmpanic = "none" /\ \E p \in MProcs :
    \/ \E n \in Deltas : growproc(p, n) \/ growproc_shrink(p, n)
    \/ \E c \in MProcs : fork(p, c)
    \/ exec(p) \/ exec_stack(p) \/ exec_commit(p) \/ exec_bad(p)
    \/ \E top \in Tops : exec_load(p, top)
    \/ \E n \in Pushes : exec_push(p, n) \/ exec_push_fault(p, n)
    \/ exit(p) \/ wait(p)

MemSpec == MemInit /\ [][MemNext]_memVars

-----------------------------------------------------------------------------
(* Every page is on the free list or in one place: a kernel stack, a slot  *)
(* of a live address space or of one that exec() is building.  None is lost*)
(* and none is freed twice on any path of fork, exec, sbrk and wait.       *)
PagesAccounted ==
    NPages = nfree + Cardinality({p \in MProcs : kstack[p] = 1})
                  + Cardinality({y \in MProcs \X AllSlots : y[2] \in pgdir[y[1]]})
                  + Cardinality({y \in MProcs \X AllSlots : y[2] \in newdir[y[1]]})

(* The pages of a process from PGSIZE up to its size are mapped, and no    *)
(* others: what copyuvm() panics over and what copyout() and loaduvm()     *)
(* count on.  sbrk(-sz) is the exception: it unmaps everything, reports    *)
(* failure and keeps the old size.  What exec() pushes stays in the one    *)
(* page it made for the stack.                                             *)
SizeMapped ==
    /\ \A p \in MProcs : mstate[p] \in {"running", "zombie"} /\ p \notin emptied
        => {x[2] : x \in {y \in pgdir[p] : y[1] = 0}} = PagesIn(PGSIZE, sz[p])
    /\ \A p \in MProcs : newsp[p] # 0 => newsp[p] >= newsz[p] - PGSIZE
=============================================================================
