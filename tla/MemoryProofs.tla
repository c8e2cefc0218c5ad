---------------------------- MODULE MemoryProofs ----------------------------
(***************************************************************************)
(* Every page is accounted for, and a process has the pages its size says, *)
(* for any number of processes, pages and table levels.                    *)
(*                                                                         *)
(* PagesAccounted is not inductive: fork() fills a slot, and exec() starts *)
(* an image, without looking at what is there.  SizeMapped needs the same  *)
(* of the image that exec() is building, that its size is a number of      *)
(* pages once it has a stack, and that no live process has size 0: page 0  *)
(* would be mapped when it grows.                                          *)
(***************************************************************************)
EXTENDS Memory, FiniteSetTheorems, TLAPS

UserPages(vm) == {x[2] : x \in {y \in vm : y[1] = 0}}
Held(D) == {y \in MProcs \X AllSlots : y[2] \in D[y[1]]}
Stacks(k) == {p \in MProcs : k[p] = 1}
Vpn == 0 .. KERNBASE \div PGSIZE

MemTypeOK ==
    /\ nfree \in Int
    /\ mstate \in [MProcs -> {"unused", "running", "zombie"}]
    /\ kstack \in [MProcs -> 0 .. 1]
    /\ pgdir \in [MProcs -> SUBSET AllSlots]
    /\ newdir \in [MProcs -> SUBSET AllSlots]
    /\ sz \in [MProcs -> Nat]
    /\ newsz \in [MProcs -> Nat]
    /\ newsp \in [MProcs -> Int]
    /\ emptied \subseteq MProcs

\* An unused slot holds no page, and only a running process is in exec().
SlotInv ==
    \A p \in MProcs :
       /\ mstate[p] = "unused" => pgdir[p] = {} /\ kstack[p] = 0
       /\ mstate[p] # "running" => newdir[p] = {}
       /\ newdir[p] = {} => newsp[p] = 0

\* A stack of one page lies at the end of an image of three or more.
Stacked(n) == \E q \in Nat : q >= 3 /\ n = q * PGSIZE

MemInv == MemTypeOK /\ SlotInv /\ PagesAccounted

-----------------------------------------------------------------------------
(* Sets of pages.                                                          *)
LEMMA VpnFacts == Vpn \subseteq Nat /\ 0 \in Vpn /\ 1 \in Vpn /\ KERNBASE \div PGSIZE \in Nat
<1>1. PICK P, K : P = PGSIZE /\ K = KERNBASE
    BY Zenon
<1>2. P \in Nat /\ P > 0 /\ K \in Nat /\ 2 * P < K
    BY <1>1, MemoryAssumption
<1>3. K \div P \in Nat /\ K \div P >= 1
    BY <1>2
<1> QED
    BY <1>1, <1>3 DEF Vpn

LEMMA PathFinite == ASSUME NEW v PROVE IsFiniteSet(Path(v))
<1> DEFINE T == {<<l, v \div FanOut^l>> : l \in 1 .. Levels}
           f == [l \in 1 .. Levels |-> <<l, v \div FanOut^l>>]
<1>1. IsFiniteSet(1 .. Levels)
    BY FS_Interval, MemoryAssumption
<1>2. f \in Surjection(1 .. Levels, T)
    BY Zenon DEF Surjection
<1>3. IsFiniteSet(T)
  <2> HIDE DEF T, f
  <2> QED
    BY Zenon, <1>1, <1>2, FS_Surjection
<1>4. IsFiniteSet({<<0, v>>}) /\ IsFiniteSet({Root})
    BY Zenon, FS_Singleton
<1>5. IsFiniteSet({<<0, v>>} \cup T)
    BY Zenon, <1>3, <1>4, FS_Union
<1>6. IsFiniteSet(({<<0, v>>} \cup T) \cup {Root})
    BY Zenon, <1>4, <1>5, FS_Union
<1> QED
    BY Zenon, <1>6 DEF Path

LEMMA SlotsFinite == IsFiniteSet(AllSlots) /\ \A S \in SUBSET AllSlots : IsFiniteSet(S) /\ Cardinality(S) \in Nat
<1> DEFINE U == {Path(v) : v \in Vpn}
           f == [v \in Vpn |-> Path(v)]
<1>1. IsFiniteSet(Vpn)
    BY FS_Interval, VpnFacts DEF Vpn
<1>2. f \in Surjection(Vpn, U)
    BY Zenon DEF Surjection
<1>3. IsFiniteSet(U)
    BY Zenon, <1>1, <1>2, FS_Surjection
<1>4. IsFiniteSet(UNION U)
    BY Zenon, <1>3, PathFinite, FS_UNION
<1>5. IsFiniteSet(AllSlots)
    BY Zenon, <1>4 DEF AllSlots, Vpn
<1>6. \A S \in SUBSET AllSlots : IsFiniteSet(S)
    BY Zenon, <1>5, FS_Subset
<1> QED
    BY Zenon, <1>5, <1>6, FS_CardinalityType

LEMMA MissingSlots ==
    ASSUME NEW vm \in SUBSET AllSlots, NEW V \in SUBSET Vpn
    PROVE  Missing(vm, V) \in SUBSET AllSlots /\ Missing(vm, V) \cap vm = {}
<1>1. \A v \in V : Path(v) \subseteq AllSlots
    BY Zenon DEF AllSlots, Vpn
<1>2. \A x : x \in Missing(vm, V) => x \notin vm /\ \E v \in V : x \in Path(v)
    BY Zenon DEF Missing
<1> QED
    BY Zenon, <1>1, <1>2

LEMMA RootSlot == Root \in AllSlots
<1>1. Root \in Path(0)
    BY Zenon DEF Path
<1>2. Path(0) \subseteq AllSlots
    BY Zenon, VpnFacts DEF AllSlots, Vpn
<1> QED
    BY Zenon, <1>1, <1>2

LEMMA PagesInVpn == \A a, b : PagesIn(a, b) \in SUBSET Vpn
    BY Zenon DEF PagesIn, Vpn

LEMMA AllocPagesVpn == \A a, b : AllocPages(a, b) \in SUBSET Vpn
    BY Zenon, PagesInVpn DEF AllocPages

(* Adding and removing.                                                    *)
LEMMA CountJoin ==
    ASSUME NEW S \in SUBSET AllSlots, NEW T \in SUBSET AllSlots, S \cap T = {}
    PROVE  Cardinality(S \cup T) = Cardinality(S) + Cardinality(T)
<1>1. IsFiniteSet(S) /\ IsFiniteSet(T) /\ Cardinality(S) \in Nat /\ Cardinality(T) \in Nat
    BY Zenon, SlotsFinite
<1>2. Cardinality(S \cup T) = Cardinality(S) + Cardinality(T) - Cardinality(S \cap T)
    BY Zenon, <1>1, FS_Union
<1>3. Cardinality(S \cap T) = 0
    BY Zenon, FS_EmptySet
<1> QED
    BY <1>1, <1>2, <1>3

\* What one process holds, as part of what all hold.
LEMMA HeldFinite ==
    ASSUME NEW D PROVE IsFiniteSet(Held(D)) /\ Cardinality(Held(D)) \in Nat
<1>1. IsFiniteSet(MProcs \X AllSlots)
    BY Zenon, MemoryAssumption, SlotsFinite, FS_Product
<1>2. Held(D) \in SUBSET (MProcs \X AllSlots)
    BY Zenon DEF Held
<1>3. IsFiniteSet(Held(D))
    BY Zenon, <1>1, <1>2, FS_Subset
<1> QED
    BY Zenon, <1>3, FS_CardinalityType

LEMMA PairCount ==
    ASSUME NEW p, NEW S \in SUBSET AllSlots
    PROVE  IsFiniteSet({p} \X S) /\ Cardinality({p} \X S) = Cardinality(S)
<1>1. IsFiniteSet({p}) /\ Cardinality({p}) = 1 /\ IsFiniteSet(S) /\ Cardinality(S) \in Nat
    BY Zenon, FS_Singleton, SlotsFinite
<1>2. IsFiniteSet({p} \X S) /\ Cardinality({p} \X S) = Cardinality({p}) * Cardinality(S)
    BY Zenon, <1>1, FS_Product
<1> QED
    BY <1>1, <1>2

LEMMA HeldChange ==
    ASSUME NEW D \in [MProcs -> SUBSET AllSlots], NEW p \in MProcs, NEW S \in SUBSET AllSlots,
           NEW E, E = [D EXCEPT ![p] = S]
    PROVE  Cardinality(Held(E)) = Cardinality(Held(D)) - Cardinality(D[p]) + Cardinality(S)
<1> DEFINE R == {y \in Held(D) : y[1] # p}
<1>1. IsFiniteSet(R) /\ Cardinality(R) \in Nat
  <2>1. R \in SUBSET Held(D)
    BY Zenon
  <2>2. IsFiniteSet(R)
    BY Zenon, <2>1, HeldFinite, FS_Subset
  <2> QED
    BY Zenon, <2>2, FS_CardinalityType
<1>2. ASSUME NEW F, F[p] \in SUBSET AllSlots, \A c \in MProcs \ {p} : F[c] = D[c]
      PROVE  Cardinality(Held(F)) = Cardinality(R) + Cardinality(F[p])
  <2>1. Held(F) = R \cup ({p} \X F[p])
    <3>1. \A y \in MProcs \X AllSlots : y \in Held(F) <=> y \in R \/ y \in {p} \X F[p]
      BY Zenon, <1>2 DEF Held
    <3>2. Held(F) \subseteq MProcs \X AllSlots /\ R \subseteq MProcs \X AllSlots
      BY Zenon DEF Held
    <3>3. {p} \X F[p] \subseteq MProcs \X AllSlots
      BY Zenon, <1>2
    <3> QED
      BY Zenon, <3>1, <3>2, <3>3
  <2>2. R \cap ({p} \X F[p]) = {}
    BY Zenon DEF Held
  <2>3. IsFiniteSet({p} \X F[p]) /\ Cardinality({p} \X F[p]) = Cardinality(F[p]) /\ Cardinality(F[p]) \in Nat
    BY Zenon, <1>2, PairCount, SlotsFinite
  <2>4. Cardinality(R \cup ({p} \X F[p])) = Cardinality(R) + Cardinality({p} \X F[p]) - Cardinality(R \cap ({p} \X F[p]))
    BY Zenon, <1>1, <2>3, FS_Union
  <2>5. Cardinality(R \cap ({p} \X F[p])) = 0
    BY Zenon, <2>2, FS_EmptySet
  <2> HIDE DEF R
  <2> QED
    BY <1>1, <2>1, <2>3, <2>4, <2>5
<1>3. Cardinality(Held(D)) = Cardinality(R) + Cardinality(D[p])
    BY Zenon, <1>2
<1>4. Cardinality(Held(E)) = Cardinality(R) + Cardinality(S)
  <2>1. E[p] = S /\ \A c \in MProcs \ {p} : E[c] = D[c]
    BY Zenon
  <2> HIDE DEF R
  <2> QED
    BY Zenon, <1>2, <2>1
<1>5. Cardinality(D[p]) \in Nat /\ Cardinality(S) \in Nat
    BY Zenon, SlotsFinite
<1> HIDE DEF R
<1> QED
    BY <1>1, <1>3, <1>4, <1>5

LEMMA HeldEmptied ==
    ASSUME NEW D \in [MProcs -> SUBSET AllSlots], NEW p \in MProcs
    PROVE  \A E : E = [D EXCEPT ![p] = {}] => Cardinality(Held(E)) = Cardinality(Held(D)) - Cardinality(D[p]) + 0
<1>1. \A S \in SUBSET AllSlots : \A E : E = [D EXCEPT ![p] = S]
          => Cardinality(Held(E)) = Cardinality(Held(D)) - Cardinality(D[p]) + Cardinality(S)
    BY Zenon, HeldChange
<1>2. {} \in SUBSET AllSlots /\ Cardinality({}) = 0
    BY Zenon, FS_EmptySet
<1>3. \A E : E = [D EXCEPT ![p] = {}]
          => Cardinality(Held(E)) = Cardinality(Held(D)) - Cardinality(D[p]) + Cardinality({})
    BY Zenon, <1>1, <1>2
<1> QED
    BY Zenon, <1>2, <1>3

LEMMA StacksFinite ==
    ASSUME NEW K PROVE IsFiniteSet(Stacks(K)) /\ Cardinality(Stacks(K)) \in Nat
<1>1. Stacks(K) \in SUBSET MProcs
    BY Zenon DEF Stacks
<1>2. IsFiniteSet(Stacks(K))
    BY Zenon, <1>1, FS_Subset, MemoryAssumption
<1> QED
    BY Zenon, <1>2, FS_CardinalityType

LEMMA StacksChange ==
    ASSUME NEW K \in [MProcs -> 0 .. 1], NEW p \in MProcs, NEW n \in 0 .. 1,
           NEW J, J = [K EXCEPT ![p] = n]
    PROVE  /\ Cardinality(Stacks(K)) \in Nat
           /\ Cardinality(Stacks(J)) = Cardinality(Stacks(K)) - K[p] + n
<1> DEFINE R == Stacks(K) \ {p}
<1>1. IsFiniteSet(Stacks(K)) /\ IsFiniteSet(R) /\ p \notin R
  <2>1. Stacks(K) \in SUBSET MProcs /\ R \in SUBSET MProcs
    BY Zenon DEF Stacks
  <2> QED
    BY Zenon, <2>1, FS_Subset, MemoryAssumption
<1>2. Cardinality(R) \in Nat /\ Cardinality(R \cup {p}) = Cardinality(R) + 1 /\ Cardinality(Stacks(K)) \in Nat
    BY Zenon, <1>1, FS_AddElement, FS_CardinalityType
<1>3. /\ K[p] = 1 => Stacks(K) = R \cup {p}
      /\ K[p] # 1 => Stacks(K) = R
    BY Zenon DEF Stacks
<1>4. J[p] = n /\ \A c \in MProcs \ {p} : J[c] = K[c]
    BY Zenon
<1>5. /\ n = 1 => Stacks(J) = R \cup {p}
      /\ n # 1 => Stacks(J) = R
    BY Zenon, <1>4 DEF Stacks
<1>6. K[p] \in 0 .. 1
    BY Zenon
<1>7. /\ K[p] = 1 => Cardinality(Stacks(K)) = Cardinality(R) + 1
      /\ K[p] # 1 => Cardinality(Stacks(K)) = Cardinality(R)
      /\ n = 1 => Cardinality(Stacks(J)) = Cardinality(R) + 1
      /\ n # 1 => Cardinality(Stacks(J)) = Cardinality(R)
    BY Zenon, <1>2, <1>3, <1>5
<1>8. PICK a, b, c, k : a = Cardinality(Stacks(K)) /\ b = Cardinality(Stacks(J)) /\ c = Cardinality(R) /\ k = K[p]
    BY Zenon
<1>9. b = a - k + n
  <2>1. k \in 0 .. 1 /\ c \in Nat /\ (k = 1 => a = c + 1) /\ (k # 1 => a = c) /\ (n = 1 => b = c + 1) /\ (n # 1 => b = c)
    BY Zenon, <1>2, <1>6, <1>7, <1>8
  <2> QED
    BY <2>1
<1> QED
    BY Zenon, <1>2, <1>8, <1>9

(* A step that takes i stacks, j slots of address spaces and k of images   *)
(* off the free list.                                                      *)
LEMMA AccountStep ==
    ASSUME MemInv, NEW i \in Int, NEW j \in Int, NEW k \in Int,
           nfree' = nfree - i - j - k,
           Cardinality(Stacks(kstack')) = Cardinality(Stacks(kstack)) + i,
           Cardinality(Held(pgdir')) = Cardinality(Held(pgdir)) + j,
           Cardinality(Held(newdir')) = Cardinality(Held(newdir)) + k
    PROVE  nfree' \in Int /\ PagesAccounted'
<1>1. NPages = nfree + Cardinality(Stacks(kstack)) + Cardinality(Held(pgdir)) + Cardinality(Held(newdir))
    BY Zenon DEF MemInv, PagesAccounted, Stacks, Held
<1>2. nfree \in Int /\ Cardinality(Held(pgdir)) \in Nat /\ Cardinality(Held(newdir)) \in Nat
    BY Zenon, HeldFinite DEF MemInv, MemTypeOK
<1>3. Cardinality(Stacks(kstack)) \in Nat
    BY Zenon, StacksFinite
<1>4. NPages = nfree' + Cardinality(Stacks(kstack')) + Cardinality(Held(pgdir')) + Cardinality(Held(newdir'))
    BY <1>1, <1>2, <1>3
<1>5. PagesAccounted'
    BY Zenon, <1>4 DEF PagesAccounted, Stacks, Held
<1> QED
    BY <1>2, <1>5


\* A step that changes the free list and address space p alone.
LEMMA DirStep ==
    ASSUME MemInv, NEW p \in MProcs, mstate[p] # "unused", NEW vm \in SUBSET AllSlots,
           pgdir' = [pgdir EXCEPT ![p] = vm],
           nfree' = nfree + Cardinality(pgdir[p]) - Cardinality(vm),
           sz' \in [MProcs -> Nat], emptied' \subseteq MProcs,
           UNCHANGED <<mstate, kstack, newdir, newsz, newsp>>
    PROVE  MemInv'
<1>1. MemTypeOK /\ SlotInv /\ pgdir \in [MProcs -> SUBSET AllSlots] /\ pgdir[p] \in SUBSET AllSlots
    BY Zenon DEF MemInv, MemTypeOK
<1>2. nfree \in Int /\ Cardinality(pgdir[p]) \in Nat /\ Cardinality(vm) \in Nat
    BY Zenon, <1>1, SlotsFinite DEF MemTypeOK
<1>3. Cardinality(Held(pgdir')) = Cardinality(Held(pgdir)) - Cardinality(pgdir[p]) + Cardinality(vm)
    BY Zenon, <1>1, HeldChange
<1>4. PICK j \in Int : j = Cardinality(vm) - Cardinality(pgdir[p])
    BY <1>2
<1>5. /\ Cardinality(Held(pgdir')) = Cardinality(Held(pgdir)) + j
      /\ nfree' = nfree - 0 - j - 0
    BY <1>2, <1>3, <1>4, HeldFinite
<1>6. /\ Cardinality(Stacks(kstack')) = Cardinality(Stacks(kstack)) + 0
      /\ Cardinality(Held(newdir')) = Cardinality(Held(newdir)) + 0
  <2>1. kstack' = kstack /\ newdir' = newdir
    BY Zenon
  <2>2. Cardinality(Stacks(kstack)) \in Nat /\ Cardinality(Held(newdir)) \in Nat
    BY Zenon, StacksFinite, HeldFinite
  <2> QED
    BY <2>1, <2>2
<1>7. nfree' \in Int /\ PagesAccounted'
  <2>1. 0 \in Int
    OBVIOUS
  <2> QED
    BY Zenon, <2>1, <1>4, <1>5, <1>6, AccountStep
<1>8. MemTypeOK'
    BY Zenon, <1>1, <1>7 DEF MemTypeOK
<1>9. SlotInv'
    BY Zenon, <1>1 DEF SlotInv
<1> QED
    BY Zenon, <1>7, <1>8, <1>9 DEF MemInv

\* The same for the image that process p is building.
LEMMA ImageStep ==
    ASSUME MemInv, NEW p \in MProcs, mstate[p] = "running", NEW vm \in SUBSET AllSlots, vm # {},
           newdir' = [newdir EXCEPT ![p] = vm],
           nfree' = nfree + Cardinality(newdir[p]) - Cardinality(vm),
           newsz' \in [MProcs -> Nat], newsp' \in [MProcs -> Int],
           \A c \in MProcs \ {p} : newsp'[c] = newsp[c],
           UNCHANGED <<mstate, kstack, pgdir, sz, emptied>>
    PROVE  MemInv'
<1>1. MemTypeOK /\ SlotInv /\ newdir \in [MProcs -> SUBSET AllSlots] /\ newdir[p] \in SUBSET AllSlots
    BY Zenon DEF MemInv, MemTypeOK
<1>2. nfree \in Int /\ Cardinality(newdir[p]) \in Nat /\ Cardinality(vm) \in Nat
    BY Zenon, <1>1, SlotsFinite DEF MemTypeOK
<1>3. Cardinality(Held(newdir')) = Cardinality(Held(newdir)) - Cardinality(newdir[p]) + Cardinality(vm)
    BY ZenonT(20), <1>1, HeldChange
<1>4. PICK k \in Int : k = Cardinality(vm) - Cardinality(newdir[p])
    BY <1>2
<1>5. /\ Cardinality(Held(newdir')) = Cardinality(Held(newdir)) + k
      /\ nfree' = nfree - 0 - 0 - k
    BY <1>2, <1>3, <1>4, HeldFinite
<1>6. /\ Cardinality(Stacks(kstack')) = Cardinality(Stacks(kstack)) + 0
      /\ Cardinality(Held(pgdir')) = Cardinality(Held(pgdir)) + 0
  <2>1. kstack' = kstack /\ pgdir' = pgdir
    BY Zenon
  <2>2. Cardinality(Stacks(kstack)) \in Nat /\ Cardinality(Held(pgdir)) \in Nat
    BY Zenon, StacksFinite, HeldFinite
  <2> QED
    BY <2>1, <2>2
<1>7. nfree' \in Int /\ PagesAccounted'
  <2>1. 0 \in Int
    OBVIOUS
  <2> QED
    BY Zenon, <2>1, <1>4, <1>5, <1>6, AccountStep
<1>8. MemTypeOK'
    BY Zenon, <1>1, <1>7 DEF MemTypeOK
<1>9. SlotInv'
    BY Zenon, <1>1 DEF SlotInv
<1> QED
    BY Zenon, <1>7, <1>8, <1>9 DEF MemInv

\* A step that leaves every page where it is.
LEMMA StillStep ==
    ASSUME MemInv, SlotInv', MemTypeOK', UNCHANGED <<nfree, kstack, pgdir, newdir>>
    PROVE  MemInv'
    BY Zenon DEF MemInv, PagesAccounted

LEMMA PanicStep == ASSUME MemInv, NEW why, Panic(why) PROVE MemInv'
    BY Zenon DEF Panic, MemInv, PagesAccounted, MemTypeOK, SlotInv

-----------------------------------------------------------------------------
(* One lemma per action: the pages stay accounted for.                     *)
LEMMA AddressTyped == ASSUME NEW a \in Nat, NEW n \in Int PROVE (a + n) % UMaxM \in Nat
<1>1. PICK m, U : m = a + n /\ U = UMaxM
    BY Zenon
<1>2. m \in Int /\ U \in Nat /\ U > 0
    BY <1>1, MemoryAssumption
<1>3. m % U \in Nat
    BY <1>2
<1> QED
    BY Zenon, <1>1, <1>3

LEMMA SizesTyped ==
    ASSUME NEW a \in Nat, NEW b \in Nat
    PROVE  AllocSize(a, b) \in Nat /\ DeallocSize(a, b) \in Nat
    BY Zenon DEF AllocSize, DeallocSize

LEMMA GrowPages == ASSUME MemInv, NEW p \in MProcs, NEW n \in Deltas, growproc(p, n) PROVE MemInv'
<1>1. PICK new, need : /\ new = (sz[p] + n) % UMaxM
                       /\ need = Missing(pgdir[p], AllocPages(sz[p], new))
    BY Zenon
<1>2. MemTypeOK /\ mstate[p] # "unused"
    BY Zenon DEF MemInv, growproc, InUserM
<1>3. /\ pgdir[p] \in SUBSET AllSlots /\ need \in SUBSET AllSlots /\ need \cap pgdir[p] = {}
      /\ pgdir[p] \cup need \in SUBSET AllSlots
    BY Zenon, <1>1, <1>2, MissingSlots, AllocPagesVpn DEF MemTypeOK
<1>4. CASE kalloc(need)
  <2>1. /\ pgdir' = [pgdir EXCEPT ![p] = pgdir[p] \cup need]
        /\ nfree' = nfree - Cardinality(need)
        /\ sz' = [sz EXCEPT ![p] = AllocSize(@, new)]
        /\ UNCHANGED <<mstate, kstack, newdir, newsz, newsp, emptied>>
    BY Zenon, <1>1, <1>4 DEF growproc
  <2>2. Cardinality(pgdir[p] \cup need) = Cardinality(pgdir[p]) + Cardinality(need)
    BY Zenon, <1>3, CountJoin
  <2>3. Cardinality(pgdir[p]) \in Nat /\ Cardinality(need) \in Nat /\ nfree \in Int
    BY Zenon, <1>2, <1>3, SlotsFinite DEF MemTypeOK
  <2>4. nfree' = nfree + Cardinality(pgdir[p]) - Cardinality(pgdir[p] \cup need)
    BY <2>1, <2>2, <2>3
  <2>5. sz' \in [MProcs -> Nat] /\ emptied' \subseteq MProcs
    <3>1. sz \in [MProcs -> Nat] /\ sz[p] \in Nat /\ emptied \subseteq MProcs
      BY Zenon, <1>2 DEF MemTypeOK
    <3>2. n \in Int
      BY Zenon, MemoryAssumption
    <3>3. AllocSize(sz[p], new) \in Nat
      BY Zenon, <1>1, <3>1, <3>2, AddressTyped, SizesTyped
    <3> QED
      BY Zenon, <2>1, <3>1, <3>3
  <2> QED
    BY Zenon, <1>2, <1>3, <2>1, <2>4, <2>5, DirStep
<1>5. CASE ~kalloc(need)
    BY Zenon, <1>1, <1>5, PanicStep DEF growproc
<1> QED
    BY Zenon, <1>4, <1>5

LEMMA ShrinkPages == ASSUME MemInv, NEW p \in MProcs, NEW n \in Deltas, growproc_shrink(p, n) PROVE MemInv'
<1>1. MemTypeOK /\ mstate[p] # "unused"
    BY Zenon DEF MemInv, growproc_shrink, InUserM
<1>2. PICK V, ret, new :
         /\ new = (sz[p] + n) % UMaxM /\ ret = DeallocSize(sz[p], new)
         /\ pgdir' = [pgdir EXCEPT ![p] = Unmap(pgdir[p], V)]
         /\ nfree' = nfree + Cardinality(pgdir[p]) - Cardinality(Unmap(pgdir[p], V))
         /\ sz' = IF ret = 0 THEN sz ELSE [sz EXCEPT ![p] = ret]
         /\ emptied' = IF ret = 0 THEN emptied \cup {p} ELSE emptied
         /\ UNCHANGED <<mstate, kstack, newdir, newsz, newsp>>
    BY Zenon DEF growproc_shrink
<1>3. Unmap(pgdir[p], V) \in SUBSET AllSlots
    BY Zenon, <1>1 DEF Unmap, MemTypeOK
<1>4. sz' \in [MProcs -> Nat] /\ emptied' \subseteq MProcs
  <2>1. sz \in [MProcs -> Nat] /\ sz[p] \in Nat /\ emptied \subseteq MProcs
    BY Zenon, <1>1 DEF MemTypeOK
  <2>2. n \in Int
    BY Zenon, MemoryAssumption
  <2>3. ret \in Nat
    BY Zenon, <1>2, <2>1, <2>2, AddressTyped, SizesTyped
  <2> QED
    BY Zenon, <1>2, <2>1, <2>3
<1> QED
    BY Zenon, <1>1, <1>2, <1>3, <1>4, DirStep

LEMMA ForkPages == ASSUME MemInv, NEW p \in MProcs, NEW c \in MProcs, fork(p, c) PROVE MemInv'
<1>1. PICK vm : vm = Missing({}, CopyPages(sz[p])) \cup {Root}
    BY Zenon
<1>2. MemTypeOK /\ SlotInv /\ mstate[c] = "unused" /\ pgdir[c] = {} /\ kstack[c] = 0 /\ newdir[c] = {}
  <2>1. "unused" # "running"
    BY Zenon
  <2> QED
    BY Zenon, <2>1 DEF MemInv, fork, SlotInv
<1>3. vm \in SUBSET AllSlots /\ Cardinality(vm) \in Nat
  <2>1. {} \in SUBSET AllSlots /\ CopyPages(sz[p]) \in SUBSET Vpn
    BY Zenon, PagesInVpn DEF CopyPages
  <2>2. Missing({}, CopyPages(sz[p])) \in SUBSET AllSlots
    BY Zenon, <2>1, MissingSlots
  <2>3. vm \in SUBSET AllSlots
    BY Zenon, <1>1, <2>2, RootSlot
  <2> QED
    BY Zenon, <2>3, SlotsFinite
<1>4. CASE \E why : Panic(why)
    BY Zenon, <1>4, PanicStep
<1>5. CASE ~\E why : Panic(why)
  <2>1. /\ pgdir' = [pgdir EXCEPT ![c] = vm]
        /\ nfree' = nfree - Cardinality(vm) - 1
        /\ sz' = [sz EXCEPT ![c] = sz[p]]
        /\ mstate' = [mstate EXCEPT ![c] = "running"]
        /\ emptied' = IF p \in emptied THEN emptied \cup {c} ELSE emptied
        /\ kstack' = [kstack EXCEPT ![c] = 1]
        /\ UNCHANGED <<newdir, newsz, newsp>>
    BY Zenon, <1>1, <1>5 DEF fork
  <2>2. Cardinality(Held(pgdir')) = Cardinality(Held(pgdir)) - Cardinality(pgdir[c]) + Cardinality(vm)
    <3>1. pgdir \in [MProcs -> SUBSET AllSlots] /\ pgdir' = [pgdir EXCEPT ![c] = vm] /\ vm \in SUBSET AllSlots
      BY Zenon, <1>2, <1>3, <2>1 DEF MemTypeOK
    <3> QED
      BY Zenon, <3>1, HeldChange
  <2>3. 1 \in 0 .. 1 /\ 1 \in Int /\ 0 \in Int
    OBVIOUS
  <2>4. Cardinality(Stacks(kstack')) = Cardinality(Stacks(kstack)) - kstack[c] + 1 /\ Cardinality(Stacks(kstack)) \in Nat
    <3>1. kstack \in [MProcs -> 0 .. 1] /\ kstack' = [kstack EXCEPT ![c] = 1]
      BY Zenon, <1>2, <2>1 DEF MemTypeOK
    <3> QED
      BY Zenon, <2>3, <3>1, StacksChange
  <2>5. Cardinality(pgdir[c]) = 0 /\ Cardinality(Held(pgdir)) \in Nat /\ Cardinality(Held(newdir)) \in Nat /\ newdir' = newdir /\ nfree \in Int
    BY Zenon, <1>2, <2>1, FS_EmptySet, HeldFinite DEF MemTypeOK
  <2>6. PICK j \in Int : j = Cardinality(vm)
    BY <1>3
  <2>7. /\ nfree' = nfree - 1 - j - 0
        /\ Cardinality(Stacks(kstack')) = Cardinality(Stacks(kstack)) + 1
        /\ Cardinality(Held(pgdir')) = Cardinality(Held(pgdir)) + j
        /\ Cardinality(Held(newdir')) = Cardinality(Held(newdir)) + 0
    BY <1>2, <1>3, <2>1, <2>2, <2>4, <2>5, <2>6
  <2>8. nfree' \in Int /\ PagesAccounted'
    BY Zenon, <2>3, <2>6, <2>7, AccountStep
  <2>9. MemTypeOK'
    BY Zenon, <1>2, <1>3, <2>1, <2>3, <2>8 DEF MemTypeOK
  <2>10. SlotInv'
    <3>1. "running" # "unused"
      BY Zenon
    <3>2. \A q \in MProcs \ {c} : mstate'[q] = mstate[q] /\ pgdir'[q] = pgdir[q] /\ kstack'[q] = kstack[q]
      BY Zenon, <1>2, <2>1 DEF MemTypeOK
    <3>3. mstate'[c] = "running"
      BY Zenon, <1>2, <2>1 DEF MemTypeOK
    <3> QED
      BY Zenon, <1>2, <2>1, <3>1, <3>2, <3>3 DEF SlotInv
  <2> QED
    BY Zenon, <2>8, <2>9, <2>10 DEF MemInv
<1> QED
    BY Zenon, <1>4, <1>5


LEMMA ExecPages == ASSUME MemInv, NEW p \in MProcs, exec(p) PROVE MemInv'
<1>1. MemTypeOK /\ mstate[p] = "running" /\ newdir[p] = {}
    BY Zenon DEF MemInv, exec, InUserM
<1>2. CASE nfree = 0
    BY Zenon, <1>2, PanicStep DEF exec
<1>3. CASE nfree # 0
  <2>1. /\ newdir' = [newdir EXCEPT ![p] = {Root}]
        /\ nfree' = nfree - 1
        /\ newsz' = [newsz EXCEPT ![p] = PGSIZE]
        /\ UNCHANGED <<mstate, kstack, pgdir, sz, newsp, emptied>>
    BY Zenon, <1>3 DEF exec
  <2>2. {Root} \in SUBSET AllSlots /\ {Root} # {}
    BY Zenon, RootSlot
  <2>3. Cardinality({Root}) = 1 /\ Cardinality(newdir[p]) = 0 /\ nfree \in Int
    BY Zenon, <1>1, FS_Singleton, FS_EmptySet DEF MemTypeOK
  <2>4. nfree' = nfree + Cardinality(newdir[p]) - Cardinality({Root})
    BY <2>1, <2>3
  <2>5. PGSIZE \in Nat
    BY Zenon, MemoryAssumption
  <2>6. newsz' \in [MProcs -> Nat] /\ newsp' \in [MProcs -> Int] /\ newsp' = newsp
    BY Zenon, <1>1, <2>1, <2>5 DEF MemTypeOK
  <2> QED
    BY Zenon, <1>1, <2>1, <2>2, <2>4, <2>6, ImageStep
<1> QED
    BY Zenon, <1>2, <1>3

\* allocuvm() for the image.
LEMMA ImageGrows ==
    ASSUME MemInv, NEW p \in MProcs, newdir[p] # {}, NEW from \in Nat, NEW to \in Nat,
           ImageAlloc(p, from, to), newsp' \in [MProcs -> Int],
           \A c \in MProcs \ {p} : newsp'[c] = newsp[c],
           UNCHANGED <<mstate, kstack, pgdir, sz, emptied>>
    PROVE  MemInv'
<1>1. PICK need : need = Missing(newdir[p], AllocPages(from, to))
    BY Zenon
<1>2. MemTypeOK /\ mstate[p] = "running"
    BY Zenon DEF MemInv, SlotInv
<1>3. /\ newdir[p] \in SUBSET AllSlots /\ need \in SUBSET AllSlots /\ newdir[p] \cap need = {}
      /\ newdir[p] \cup need \in SUBSET AllSlots /\ newdir[p] \cup need # {}
  <2>1. newdir[p] \in SUBSET AllSlots
    BY Zenon, <1>2 DEF MemTypeOK
  <2>2. need \in SUBSET AllSlots /\ need \cap newdir[p] = {}
    BY Zenon, <1>1, <2>1, MissingSlots, AllocPagesVpn
  <2> QED
    BY Zenon, <2>1, <2>2
<1>4. /\ newdir' = [newdir EXCEPT ![p] = newdir[p] \cup need]
      /\ nfree' = nfree - Cardinality(need)
      /\ newsz' = [newsz EXCEPT ![p] = AllocSize(from, to)]
    BY Zenon, <1>1 DEF ImageAlloc
<1>5. Cardinality(newdir[p] \cup need) = Cardinality(newdir[p]) + Cardinality(need)
    BY Zenon, <1>3, CountJoin
<1>6. Cardinality(newdir[p]) \in Nat /\ Cardinality(need) \in Nat /\ nfree \in Int
    BY Zenon, <1>2, <1>3, SlotsFinite DEF MemTypeOK
<1>7. nfree' = nfree + Cardinality(newdir[p]) - Cardinality(newdir[p] \cup need)
    BY <1>4, <1>5, <1>6
<1>8. newsz' \in [MProcs -> Nat]
    BY Zenon, <1>2, <1>4, SizesTyped DEF MemTypeOK
<1> QED
    BY Zenon, <1>2, <1>3, <1>4, <1>7, <1>8, ImageStep

LEMMA LoadPages == ASSUME MemInv, NEW p \in MProcs, NEW top \in Tops, exec_load(p, top) PROVE MemInv'
<1>1. newsz[p] \in Nat /\ top \in Nat /\ newdir[p] # {} /\ newsp \in [MProcs -> Int]
    BY Zenon, MemoryAssumption DEF MemInv, MemTypeOK, exec_load
<1>2. CASE ImageFits(p, newsz[p], top)
  <2>1. ImageAlloc(p, newsz[p], top) /\ UNCHANGED <<mstate, kstack, pgdir, sz, newsp, emptied>>
    BY Zenon, <1>2 DEF exec_load
  <2> QED
    BY Zenon, <1>1, <2>1, ImageGrows
<1>3. CASE ~ImageFits(p, newsz[p], top)
    BY Zenon, <1>3, PanicStep DEF exec_load
<1> QED
    BY Zenon, <1>2, <1>3

LEMMA RoundTyped == ASSUME NEW a \in Nat PROVE PGROUNDUP(a) \in Nat
<1>1. PICK P : P = PGSIZE
    BY Zenon
<1>2. P \in Nat /\ P > 0
    BY <1>1, MemoryAssumption
<1>3. (a + P - 1) \div P \in Nat
    BY <1>2
<1>4. ((a + P - 1) \div P) * P \in Nat
    BY <1>2, <1>3
<1> QED
    BY Zenon, <1>1, <1>4 DEF PGROUNDUP

LEMMA StackPages == ASSUME MemInv, NEW p \in MProcs, exec_stack(p) PROVE MemInv'
<1>1. PICK from, to : from = PGROUNDUP(newsz[p]) /\ to = from + 2 * PGSIZE
    BY Zenon
<1>2. MemTypeOK /\ newdir[p] # {} /\ newsz[p] \in Nat
    BY Zenon DEF MemInv, MemTypeOK, exec_stack
<1>3. from \in Nat /\ to \in Nat
    BY <1>1, <1>2, RoundTyped, MemoryAssumption
<1>4. CASE ImageFits(p, from, to)
  <2>1. ImageAlloc(p, from, to) /\ newsp' = [newsp EXCEPT ![p] = to] /\ UNCHANGED <<mstate, kstack, pgdir, sz, emptied>>
    BY Zenon, <1>1, <1>4 DEF exec_stack
  <2>2. to \in Int
    BY <1>3
  <2>3. newsp' \in [MProcs -> Int] /\ \A c \in MProcs \ {p} : newsp'[c] = newsp[c]
    BY Zenon, <1>2, <2>1, <2>2 DEF MemTypeOK
  <2> QED
    BY Zenon, <1>2, <1>3, <2>1, <2>3, ImageGrows
<1>5. CASE ~ImageFits(p, from, to)
    BY Zenon, <1>1, <1>5, PanicStep DEF exec_stack
<1> QED
    BY Zenon, <1>4, <1>5

LEMMA FaultPages == ASSUME MemInv, NEW p \in MProcs, NEW n \in Pushes, exec_push_fault(p, n) PROVE MemInv'
    BY Zenon, PanicStep DEF exec_push_fault

LEMMA PushPages == ASSUME MemInv, NEW p \in MProcs, NEW n \in Pushes, exec_push(p, n) PROVE MemInv'
<1>1. /\ newsp[p] # 0 /\ newsp' = [newsp EXCEPT ![p] = @ - n]
      /\ UNCHANGED <<nfree, mstate, kstack, pgdir, sz, newdir, newsz, emptied>>
    BY Zenon DEF exec_push
<1>2. MemTypeOK /\ SlotInv /\ newsp \in [MProcs -> Int] /\ newsp[p] \in Int
    BY Zenon DEF MemInv, MemTypeOK
<1>3. newsp[p] - n \in Int
    BY <1>2, MemoryAssumption
<1>4. newsp' \in [MProcs -> Int] /\ \A c \in MProcs \ {p} : newsp'[c] = newsp[c]
    BY Zenon, <1>1, <1>2, <1>3
<1>5. MemTypeOK' /\ SlotInv'
    BY Zenon, <1>1, <1>2, <1>4 DEF MemTypeOK, SlotInv
<1> QED
    BY Zenon, <1>1, <1>5, StillStep

\* exec() is over, and p keeps its old image or the new one.
LEMMA ImageOver ==
    ASSUME MemInv, NEW p \in MProcs, newdir[p] # {}, NoImage(p),
           UNCHANGED <<mstate, kstack>>, sz' \in [MProcs -> Nat], emptied' \subseteq MProcs,
           \/ pgdir' = pgdir /\ nfree' = nfree + Cardinality(newdir[p])
           \/ pgdir' = [pgdir EXCEPT ![p] = newdir[p]] /\ nfree' = nfree + Cardinality(pgdir[p])
    PROVE  MemInv'
<1>1. /\ MemTypeOK /\ SlotInv /\ mstate[p] = "running" /\ nfree \in Int
      /\ newdir[p] \in SUBSET AllSlots /\ pgdir[p] \in SUBSET AllSlots
      /\ newdir \in [MProcs -> SUBSET AllSlots] /\ pgdir \in [MProcs -> SUBSET AllSlots]
    BY Zenon DEF MemInv, MemTypeOK, SlotInv
<1>2. /\ newdir' = [newdir EXCEPT ![p] = {}] /\ newsz' = [newsz EXCEPT ![p] = 0] /\ newsp' = [newsp EXCEPT ![p] = 0]
      /\ {} \in SUBSET AllSlots
    BY Zenon DEF NoImage
<1>3. Cardinality(Held(newdir')) = Cardinality(Held(newdir)) - Cardinality(newdir[p]) + 0
    BY Zenon, <1>1, <1>2, HeldEmptied
<1>4. Cardinality(Held(pgdir')) = Cardinality(Held(pgdir)) - Cardinality(pgdir[p]) + Cardinality(pgdir'[p])
  <2>1. CASE pgdir' = pgdir
    <3>1. Cardinality(Held(pgdir)) \in Nat /\ Cardinality(pgdir[p]) \in Nat
      BY Zenon, <1>1, HeldFinite, SlotsFinite
    <3> QED
      BY <2>1, <3>1
  <2>2. CASE pgdir' = [pgdir EXCEPT ![p] = newdir[p]]
    <3>1. pgdir'[p] = newdir[p]
      BY Zenon, <1>1, <2>2
    <3>2. Cardinality(Held(pgdir')) = Cardinality(Held(pgdir)) - Cardinality(pgdir[p]) + Cardinality(newdir[p])
      BY Zenon, <1>1, <2>2, HeldChange
    <3> QED
      BY Zenon, <3>1, <3>2
  <2> QED
    BY Zenon, <2>1, <2>2
<1>5. /\ Cardinality(newdir[p]) \in Nat /\ Cardinality(pgdir[p]) \in Nat
      /\ Cardinality(Held(newdir)) \in Nat /\ Cardinality(Held(pgdir)) \in Nat /\ Cardinality(Stacks(kstack)) \in Nat
    BY Zenon, <1>1, SlotsFinite, HeldFinite, StacksFinite
<1>6. pgdir' \in [MProcs -> SUBSET AllSlots] /\ pgdir'[p] \in SUBSET AllSlots /\ \A c \in MProcs \ {p} : pgdir'[c] = pgdir[c]
    BY Zenon, <1>1
<1>7. nfree' = nfree + Cardinality(newdir[p]) + Cardinality(pgdir[p]) - Cardinality(pgdir'[p])
  <2>1. CASE pgdir' = pgdir /\ nfree' = nfree + Cardinality(newdir[p])
    BY <1>1, <1>5, <2>1
  <2>2. CASE pgdir' = [pgdir EXCEPT ![p] = newdir[p]] /\ nfree' = nfree + Cardinality(pgdir[p])
    <3>1. pgdir'[p] = newdir[p]
      BY Zenon, <1>1, <2>2
    <3> QED
      BY <1>1, <1>5, <2>2, <3>1
  <2> QED
    BY Zenon, <2>1, <2>2
<1>8. Cardinality(pgdir'[p]) \in Nat /\ kstack' = kstack
    BY Zenon, <1>6, SlotsFinite
<1>9. PICK i \in Int, j \in Int, k \in Int :
         i = 0 /\ j = Cardinality(pgdir'[p]) - Cardinality(pgdir[p]) /\ k = 0 - Cardinality(newdir[p])
    BY <1>5, <1>8
<1>10. /\ nfree' = nfree - i - j - k
       /\ Cardinality(Stacks(kstack')) = Cardinality(Stacks(kstack)) + i
       /\ Cardinality(Held(pgdir')) = Cardinality(Held(pgdir)) + j
       /\ Cardinality(Held(newdir')) = Cardinality(Held(newdir)) + k
  <2>1. nfree' = nfree - i - j - k
    BY <1>1, <1>5, <1>7, <1>8, <1>9
  <2>2. Cardinality(Stacks(kstack')) = Cardinality(Stacks(kstack)) + i
    BY <1>5, <1>8, <1>9
  <2>3. Cardinality(Held(pgdir')) = Cardinality(Held(pgdir)) + j
    BY <1>4, <1>5, <1>8, <1>9
  <2>4. Cardinality(Held(newdir')) = Cardinality(Held(newdir)) + k
    BY <1>3, <1>5, <1>9
  <2> QED
    BY Zenon, <2>1, <2>2, <2>3, <2>4
<1>11. nfree' \in Int /\ PagesAccounted'
    BY Zenon, <1>10, AccountStep
<1>12. MemTypeOK'
  <2>1. 0 \in Nat /\ 0 \in Int
    OBVIOUS
  <2> QED
    BY Zenon, <1>1, <1>2, <1>6, <1>11, <2>1 DEF MemTypeOK
<1>13. SlotInv'
  <2>1. "running" # "unused"
    BY Zenon
  <2>2. newdir'[p] = {} /\ newsp'[p] = 0 /\ \A c \in MProcs \ {p} : newdir'[c] = newdir[c] /\ newsp'[c] = newsp[c]
    BY Zenon, <1>1, <1>2 DEF MemTypeOK
  <2> QED
    BY Zenon, <1>1, <1>6, <2>1, <2>2 DEF SlotInv
<1> QED
    BY Zenon, <1>11, <1>12, <1>13 DEF MemInv


LEMMA CommitPages == ASSUME MemInv, NEW p \in MProcs, exec_commit(p) PROVE MemInv'
<1>1. MemTypeOK /\ newdir[p] # {}
    BY Zenon DEF MemInv, SlotInv, exec_commit
<1>2. /\ pgdir' = [pgdir EXCEPT ![p] = newdir[p]] /\ nfree' = nfree + Cardinality(pgdir[p])
      /\ sz' = [sz EXCEPT ![p] = newsz[p]] /\ emptied' = emptied \ {p} /\ NoImage(p) /\ UNCHANGED <<mstate, kstack>>
    BY Zenon DEF exec_commit
<1>3. sz' \in [MProcs -> Nat] /\ emptied' \subseteq MProcs
    BY Zenon, <1>1, <1>2 DEF MemTypeOK
<1> QED
    BY Zenon, <1>1, <1>2, <1>3, ImageOver

LEMMA BadPages == ASSUME MemInv, NEW p \in MProcs, exec_bad(p) PROVE MemInv'
<1>1. /\ newdir[p] # {} /\ nfree' = nfree + Cardinality(newdir[p]) /\ NoImage(p)
      /\ UNCHANGED <<mstate, kstack, pgdir, sz, emptied>>
    BY Zenon DEF exec_bad
<1>2. sz' \in [MProcs -> Nat] /\ emptied' \subseteq MProcs
    BY Zenon, <1>1 DEF MemInv, MemTypeOK
<1> QED
    BY Zenon, <1>1, <1>2, ImageOver

LEMMA ExitPages == ASSUME MemInv, NEW p \in MProcs, exit(p) PROVE MemInv'
<1>1. /\ newdir[p] = {} /\ mstate' = [mstate EXCEPT ![p] = "zombie"]
      /\ UNCHANGED <<nfree, kstack, pgdir, sz, newdir, newsz, newsp, emptied>>
    BY Zenon DEF exit, InUserM
<1>2. MemTypeOK /\ SlotInv /\ mstate \in [MProcs -> {"unused", "running", "zombie"}]
    BY Zenon DEF MemInv, MemTypeOK
<1>3. "zombie" # "unused" /\ "zombie" \in {"unused", "running", "zombie"}
    BY Zenon
<1>4. mstate'[p] = "zombie" /\ \A c \in MProcs \ {p} : mstate'[c] = mstate[c]
    BY Zenon, <1>1, <1>2
<1>5. MemTypeOK'
    BY Zenon, <1>1, <1>2, <1>3 DEF MemTypeOK
<1>6. SlotInv'
    BY Zenon, <1>1, <1>2, <1>3, <1>4 DEF SlotInv
<1> QED
    BY Zenon, <1>1, <1>5, <1>6, StillStep

LEMMA WaitPages == ASSUME MemInv, NEW c \in MProcs, wait(c) PROVE MemInv'
<1>1. /\ mstate[c] = "zombie" /\ nfree' = nfree + kstack[c] + Cardinality(pgdir[c])
      /\ mstate' = [mstate EXCEPT ![c] = "unused"] /\ kstack' = [kstack EXCEPT ![c] = 0]
      /\ pgdir' = [pgdir EXCEPT ![c] = {}] /\ sz' = [sz EXCEPT ![c] = 0]
      /\ emptied' = emptied \ {c} /\ UNCHANGED <<newdir, newsz, newsp>>
    BY Zenon DEF wait, FreevmSlots
<1>2. /\ MemTypeOK /\ SlotInv /\ nfree \in Int /\ kstack \in [MProcs -> 0 .. 1] /\ kstack[c] \in 0 .. 1
      /\ pgdir \in [MProcs -> SUBSET AllSlots] /\ pgdir[c] \in SUBSET AllSlots /\ {} \in SUBSET AllSlots
    BY Zenon DEF MemInv, MemTypeOK
<1>3. "zombie" # "unused" /\ "zombie" # "running" /\ 0 \in 0 .. 1 /\ 0 \in Int /\ 0 \in Nat /\ "unused" \in {"unused", "running", "zombie"}
    OBVIOUS
<1>5. Cardinality(Held(pgdir')) = Cardinality(Held(pgdir)) - Cardinality(pgdir[c]) + 0
    BY Zenon, <1>1, <1>2, HeldEmptied
<1>6. Cardinality(Stacks(kstack')) = Cardinality(Stacks(kstack)) - kstack[c] + 0
    BY Zenon, <1>1, <1>2, <1>3, StacksChange
<1>7. /\ Cardinality(pgdir[c]) \in Nat /\ newdir' = newdir
      /\ Cardinality(Held(newdir)) \in Nat /\ Cardinality(Held(pgdir)) \in Nat /\ Cardinality(Stacks(kstack)) \in Nat
    BY Zenon, <1>1, <1>2, SlotsFinite, HeldFinite, StacksFinite
<1>8. PICK i \in Int, j \in Int : i = 0 - kstack[c] /\ j = 0 - Cardinality(pgdir[c])
    BY <1>2, <1>7
<1>9. /\ nfree' = nfree - i - j - 0
      /\ Cardinality(Stacks(kstack')) = Cardinality(Stacks(kstack)) + i
      /\ Cardinality(Held(pgdir')) = Cardinality(Held(pgdir)) + j
      /\ Cardinality(Held(newdir')) = Cardinality(Held(newdir)) + 0
  <2>1. nfree' = nfree - i - j - 0
    BY <1>1, <1>2, <1>7, <1>8
  <2>2. Cardinality(Stacks(kstack')) = Cardinality(Stacks(kstack)) + i
    BY <1>2, <1>6, <1>7, <1>8
  <2>3. Cardinality(Held(pgdir')) = Cardinality(Held(pgdir)) + j /\ Cardinality(Held(newdir')) = Cardinality(Held(newdir)) + 0
    BY <1>5, <1>7, <1>8
  <2> QED
    BY Zenon, <2>1, <2>2, <2>3
<1>10. nfree' \in Int /\ PagesAccounted'
    BY Zenon, <1>3, <1>8, <1>9, AccountStep
<1>11. MemTypeOK'
    BY Zenon, <1>1, <1>2, <1>3, <1>10 DEF MemTypeOK
<1>12. SlotInv'
  <2>1. /\ mstate'[c] = "unused" /\ pgdir'[c] = {} /\ kstack'[c] = 0 /\ newdir[c] = {}
        /\ \A q \in MProcs \ {c} : mstate'[q] = mstate[q] /\ pgdir'[q] = pgdir[q] /\ kstack'[q] = kstack[q]
    BY Zenon, <1>1, <1>2, <1>3 DEF MemTypeOK, SlotInv
  <2> QED
    BY Zenon, <1>1, <1>2, <2>1 DEF SlotInv
<1> QED
    BY Zenon, <1>10, <1>11, <1>12 DEF MemInv

LEMMA MemInitInv == MemInit => MemInv
<1> SUFFICES ASSUME MemInit
             PROVE  MemInv
    BY Zenon
<1>1. PICK first, vm :
         /\ first \in MProcs /\ vm = Missing({}, {1})
         /\ mstate = [p \in MProcs |-> IF p = first THEN "running" ELSE "unused"]
         /\ pgdir = [p \in MProcs |-> IF p = first THEN vm ELSE {}]
         /\ kstack = [p \in MProcs |-> IF p = first THEN 1 ELSE 0]
         /\ sz = [p \in MProcs |-> IF p = first THEN 2 * PGSIZE ELSE 0]
         /\ nfree = NPages - Cardinality(vm) - 1
         /\ newdir = [p \in MProcs |-> {}] /\ newsz = [p \in MProcs |-> 0]
         /\ newsp = [p \in MProcs |-> 0] /\ emptied = {}
    BY Zenon, MemoryAssumption DEF MemInit
<1>2. vm \in SUBSET AllSlots /\ Cardinality(vm) \in Nat
  <2>1. {1} \in SUBSET Vpn /\ {} \in SUBSET AllSlots
    BY Zenon, VpnFacts
  <2>2. vm \in SUBSET AllSlots
    BY Zenon, <1>1, <2>1, MissingSlots
  <2> QED
    BY Zenon, <2>2, SlotsFinite
<1>3. PGSIZE \in Nat /\ 2 * PGSIZE \in Nat /\ NPages \in Nat
    BY MemoryAssumption
<1>4. MemTypeOK
  <2>1. nfree \in Int /\ 0 \in Nat /\ 0 \in Int /\ 1 \in 0 .. 1 /\ 0 \in 0 .. 1
    BY <1>1, <1>2, <1>3
  <2>2. "running" \in {"unused", "running", "zombie"} /\ "unused" \in {"unused", "running", "zombie"}
    BY Zenon
  <2> QED
    BY Zenon, <1>1, <1>2, <1>3, <2>1, <2>2 DEF MemTypeOK
<1>5. SlotInv
  <2>1. "unused" # "running"
    BY Zenon
  <2> QED
    BY Zenon, <1>1, <2>1 DEF SlotInv
<1>6. Cardinality(Stacks(kstack)) = 1
  <2>1. 0 # 1
    OBVIOUS
  <2>2. Stacks(kstack) = {first}
    BY Zenon, <1>1, <2>1 DEF Stacks
  <2> QED
    BY Zenon, <2>2, FS_Singleton
<1>7. Cardinality(Held(newdir)) = 0
  <2>1. Held(newdir) = {}
    BY Zenon, <1>1 DEF Held
  <2> QED
    BY Zenon, <2>1, FS_EmptySet
<1>8. Cardinality(Held(pgdir)) = Cardinality(vm)
  <2>1. Held(pgdir) = {first} \X vm
    <3>1. \A y \in MProcs \X AllSlots : y \in Held(pgdir) <=> y \in {first} \X vm
      BY Zenon, <1>1 DEF Held
    <3>2. Held(pgdir) \subseteq MProcs \X AllSlots
      BY Zenon DEF Held
    <3>3. {first} \X vm \subseteq MProcs \X AllSlots
      BY Zenon, <1>1, <1>2
    <3> QED
      BY Zenon, <3>1, <3>2, <3>3
  <2>2. Cardinality({first} \X vm) = Cardinality(vm)
    BY Zenon, <1>2, PairCount
  <2> QED
    BY Zenon, <2>1, <2>2
<1>9. NPages = nfree + Cardinality(Stacks(kstack)) + Cardinality(Held(pgdir)) + Cardinality(Held(newdir))
    BY <1>1, <1>2, <1>3, <1>6, <1>7, <1>8
<1>10. PagesAccounted
    BY Zenon, <1>9 DEF PagesAccounted, Stacks, Held
<1> QED
    BY Zenon, <1>4, <1>5, <1>10 DEF MemInv

LEMMA MemNextInv == MemInv /\ [MemNext]_memVars => MemInv'
<1> SUFFICES ASSUME MemInv, [MemNext]_memVars
             PROVE  MemInv'
    BY Zenon
<1>1. CASE UNCHANGED memVars
    BY Zenon, <1>1 DEF memVars, MemInv, MemTypeOK, SlotInv, PagesAccounted
<1>2. CASE MemNext
    BY Zenon, <1>2, GrowPages, ShrinkPages, ForkPages, ExecPages, StackPages, CommitPages, BadPages,
       LoadPages, PushPages, FaultPages, ExitPages, WaitPages DEF MemNext
<1> QED
    BY Zenon, <1>1, <1>2

(* No page is lost and none is freed twice: kalloc() and kfree() balance   *)
(* on every path of fork(), exec(), sbrk(), exit() and wait(), exec()'s    *)
(* error exits included, in any interleaving of any number of processes.   *)
THEOREM PagesBalance == MemSpec => []PagesAccounted
<1>1. MemInv => PagesAccounted
    BY Zenon DEF MemInv
<1> QED
    BY <1>1, MemInitInv, MemNextInv, PTL DEF MemSpec

-----------------------------------------------------------------------------
(* Arithmetic of pages.                                                    *)
LEMMA PageSize == PGSIZE \in Nat /\ PGSIZE >= 1
    BY MemoryAssumption

LEMMA TimesMono == ASSUME NEW a \in Nat, NEW b \in Nat, NEW P \in Nat, a <= b PROVE a * P <= b * P
<1>1. PICK d \in Nat : b = a + d
  <2>1. b - a \in Nat /\ b = a + (b - a)
    OBVIOUS
  <2> QED
    BY Zenon, <2>1
<1>2. b * P = a * P + d * P
    BY <1>1
<1>3. d * P \in Nat /\ a * P \in Nat
    OBVIOUS
<1> QED
    BY <1>2, <1>3

LEMMA TimesStep == ASSUME NEW a \in Int, NEW P \in Int PROVE (a + 1) * P = a * P + P /\ a * P \in Int
    OBVIOUS

LEMMA DivBounds ==
    ASSUME NEW m \in Nat, NEW P \in Nat, P >= 1
    PROVE  m \div P \in Nat /\ (m \div P) * P <= m /\ m < (m \div P) * P + P
    OBVIOUS

LEMMA DivIs ==
    ASSUME NEW x \in Nat, NEW k \in Nat, NEW P \in Nat, P >= 1, k * P <= x, x < k * P + P
    PROVE  x \div P = k
<1>1. PICK q \in Nat : q = x \div P
    BY Zenon, DivBounds
<1>2. q * P <= x /\ x < q * P + P
    BY Zenon, <1>1, DivBounds
<1>3. q * P \in Nat /\ k * P \in Nat /\ (k + 1) * P = k * P + P /\ (q + 1) * P = q * P + P
    OBVIOUS
<1>4. ~(q + 1 <= k)
  <2> SUFFICES ASSUME q + 1 <= k
               PROVE  FALSE
    BY Zenon
  <2>1. q + 1 \in Nat
    OBVIOUS
  <2>2. (q + 1) * P <= k * P
    BY Zenon, <2>1, TimesMono
  <2> QED
    BY <1>2, <1>3, <2>2
<1>5. ~(k + 1 <= q)
  <2> SUFFICES ASSUME k + 1 <= q
               PROVE  FALSE
    BY Zenon
  <2>1. k + 1 \in Nat
    OBVIOUS
  <2>2. (k + 1) * P <= q * P
    BY Zenon, <2>1, TimesMono
  <2> QED
    BY <1>2, <1>3, <2>2
<1>6. q = k
    BY <1>4, <1>5
<1> QED
    BY Zenon, <1>1, <1>6

\* PGROUNDUP() is the least multiple of a page from a on.
LEMMA RoundAbove ==
    ASSUME NEW a \in Nat
    PROVE  /\ \E q \in Nat : PGROUNDUP(a) = q * PGSIZE
           /\ a <= PGROUNDUP(a)
           /\ \A v \in Nat : PGROUNDUP(a) <= v * PGSIZE <=> a <= v * PGSIZE
<1>1. PICK P, m : P = PGSIZE /\ m = a + PGSIZE - 1
    BY Zenon
<1>2. P \in Nat /\ P >= 1 /\ m \in Nat /\ m = a + P - 1
    BY <1>1, PageSize
<1>3. PICK q \in Nat : q = m \div P
    BY Zenon, <1>2, DivBounds
<1>4. q * P <= m /\ m < q * P + P
    BY Zenon, <1>2, <1>3, DivBounds
<1>5. PGROUNDUP(a) = q * P
    BY Zenon, <1>1, <1>3 DEF PGROUNDUP
<1>6. q * P \in Nat
    BY <1>2
<1>7. a <= q * P
    BY <1>2, <1>4, <1>6
<1>8. ASSUME NEW v \in Nat
      PROVE  q * P <= v * P <=> a <= v * P
  <2>1. v * P \in Nat
    BY <1>2
  <2>2. CASE q <= v
    <3>1. q * P <= v * P
      BY Zenon, <1>2, <2>2, TimesMono
    <3> QED
      BY <1>6, <1>7, <2>1, <3>1
  <2>3. CASE ~(q <= v)
    <3>1. v + 1 <= q /\ v + 1 \in Nat
      BY <2>3
    <3>2. (v + 1) * P <= q * P
      BY Zenon, <1>2, <3>1, TimesMono
    <3>3. (v + 1) * P = v * P + P
      BY <1>2
    <3> QED
      BY <1>2, <1>4, <1>6, <2>1, <3>2, <3>3
  <2> QED
    BY Zenon, <2>2, <2>3
<1> QED
    BY Zenon, <1>1, <1>5, <1>7, <1>8

LEMMA PagesInAre ==
    ASSUME NEW a \in Nat, NEW b
    PROVE  PagesIn(a, b) = {v \in Vpn : a <= v * PGSIZE /\ v * PGSIZE < b}
<1>1. \A v \in Vpn : v \in Nat
    BY Zenon, VpnFacts
<1> QED
    BY Zenon, <1>1, RoundAbove DEF PagesIn, Vpn

LEMMA PageTimes == \A v \in Vpn : v * PGSIZE \in Nat /\ (v * PGSIZE >= PGSIZE <=> v >= 1)
<1> SUFFICES ASSUME NEW v \in Vpn
             PROVE  v * PGSIZE \in Nat /\ (v * PGSIZE >= PGSIZE <=> v >= 1)
    BY Zenon
<1>1. PICK P : P = PGSIZE
    BY Zenon
<1>2. v \in Nat /\ P \in Nat /\ P >= 1 /\ 1 \in Nat
    BY Zenon, <1>1, VpnFacts, PageSize
<1>3. v * P \in Nat
    BY <1>2
<1>4. CASE v = 0
    BY <1>1, <1>2, <1>4
<1>5. CASE v # 0
  <2>1. 1 <= v
    BY <1>2, <1>5
  <2>2. 1 * P <= v * P
    BY Zenon, <1>2, <2>1, TimesMono
  <2> QED
    BY <1>1, <1>2, <1>3, <2>1, <2>2
<1> QED
    BY Zenon, <1>4, <1>5

-----------------------------------------------------------------------------
(* The user pages of an address space.                                     *)
LEMMA PathLeaf ==
    /\ \A v : <<0, v>> \in Path(v)
    /\ \A v, x : x \in Path(v) /\ x[1] = 0 => x = <<0, v>>
    /\ Root[1] # 0
<1>1. Root[1] # 0
    BY MemoryAssumption DEF Root
<1>2. ASSUME NEW v, NEW x, x \in Path(v), x[1] = 0
      PROVE  x = <<0, v>>
  <2>1. CASE x \in {<<l, v \div FanOut^l>> : l \in 1 .. Levels}
    <3>1. PICK l, y : l \in 1 .. Levels /\ x = <<l, y>>
      BY Zenon, <2>1
    <3>2. x[1] = l
      BY Zenon, <3>1
    <3>3. l # 0
      BY <3>1, MemoryAssumption
    <3> QED
      BY Zenon, <1>2, <3>2, <3>3
  <2> QED
    BY Zenon, <1>1, <1>2, <2>1 DEF Path
<1>3. \A v : <<0, v>> \in Path(v)
    BY Zenon DEF Path
<1> QED
    BY Zenon, <1>1, <1>2, <1>3

LEMMA UserPagesAre ==
    ASSUME NEW vm \in SUBSET AllSlots
    PROVE  UserPages(vm) = {v \in Vpn : <<0, v>> \in vm}
<1>1. \A x \in vm : x[1] = 0 => \E v \in Vpn : x = <<0, v>>
    BY Zenon, PathLeaf DEF AllSlots, Vpn
<1>2. \A v : <<0, v>>[1] = 0 /\ <<0, v>>[2] = v
    BY Zenon
<1>3. ASSUME NEW v \in UserPages(vm)
      PROVE  v \in Vpn /\ <<0, v>> \in vm
  <2>1. PICK x \in vm : x[1] = 0 /\ v = x[2]
    BY Zenon, <1>3 DEF UserPages
  <2>2. PICK w \in Vpn : x = <<0, w>>
    BY Zenon, <1>1, <2>1
  <2> QED
    BY Zenon, <1>2, <2>1, <2>2
<1>4. ASSUME NEW v \in Vpn, <<0, v>> \in vm
      PROVE  v \in UserPages(vm)
    BY Zenon, <1>2, <1>4 DEF UserPages
<1> QED
    BY Zenon, <1>3, <1>4

LEMMA UserMissing ==
    ASSUME NEW vm \in SUBSET AllSlots, NEW V \in SUBSET Vpn
    PROVE  UserPages(vm \cup Missing(vm, V)) = UserPages(vm) \cup V
<1>1. Missing(vm, V) \in SUBSET AllSlots /\ vm \cup Missing(vm, V) \in SUBSET AllSlots
    BY Zenon, MissingSlots
<1>2. \A v : <<0, v>> \in vm \cup Missing(vm, V) <=> <<0, v>> \in vm \/ v \in V
  <2>1. \A v, w : <<0, v>> \in Path(w) <=> v = w
    <3>1. \A v : <<0, v>>[1] = 0 /\ <<0, v>>[2] = v
      BY Zenon
    <3> QED
      BY Zenon, <3>1, PathLeaf
  <2>2. \A x : x \in Missing(vm, V) <=> x \notin vm /\ \E w \in V : x \in Path(w)
    BY Zenon DEF Missing
  <2>3. \A v : <<0, v>> \in Missing(vm, V) <=> <<0, v>> \notin vm /\ v \in V
    <3>1. ASSUME NEW v
          PROVE  (\E w \in V : <<0, v>> \in Path(w)) <=> v \in V
      <4>1. ASSUME NEW w \in V, <<0, v>> \in Path(w)
            PROVE  v \in V
        <5>1. v = w
          BY Zenon, <2>1, <4>1
        <5> QED
          BY Zenon, <5>1
      <4> QED
        BY Zenon, <2>1, <4>1
    <3> QED
      BY Zenon, <2>2, <3>1
  <2> QED
    BY Zenon, <2>3
<1>3. /\ UserPages(vm \cup Missing(vm, V)) = {v \in Vpn : <<0, v>> \in vm \cup Missing(vm, V)}
      /\ UserPages(vm) = {v \in Vpn : <<0, v>> \in vm}
    BY Zenon, <1>1, UserPagesAre
<1> QED
    BY Zenon, <1>2, <1>3

LEMMA UserRoot == UserPages({Root}) = {}
    BY Zenon, PathLeaf DEF UserPages

LEMMA UserFresh ==
    ASSUME NEW V \in SUBSET Vpn
    PROVE  UserPages(Missing({}, V) \cup {Root}) = V
<1>1. {} \in SUBSET AllSlots /\ UserPages({}) = {}
    BY Zenon DEF UserPages
<1>2. UserPages({} \cup Missing({}, V)) = UserPages({}) \cup V
    BY Zenon, <1>1, UserMissing
<1>3. {} \cup Missing({}, V) = Missing({}, V) /\ {} \cup V = V
    BY Zenon
<1>4. UserPages(Missing({}, V)) = V
    BY Zenon, <1>1, <1>2, <1>3
<1>5. \A A, B : UserPages(A \cup B) = UserPages(A) \cup UserPages(B)
    BY Zenon DEF UserPages
<1>6. UserPages(Missing({}, V) \cup {Root}) = UserPages(Missing({}, V)) \cup UserPages({Root})
    BY Zenon, <1>5
<1>7. V \cup {} = V
    BY Zenon
<1> QED
    BY Zenon, <1>4, <1>6, <1>7, UserRoot

LEMMA UserUnmap ==
    ASSUME NEW vm \in SUBSET AllSlots, NEW V
    PROVE  UserPages(Unmap(vm, V)) = UserPages(vm) \ V
<1>1. Unmap(vm, V) \in SUBSET AllSlots
    BY Zenon DEF Unmap
<1>2. \A v : <<0, v>> \in Unmap(vm, V) <=> <<0, v>> \in vm /\ v \notin V
  <2>1. \A v, w : <<0, v>> = <<0, w>> <=> v = w
    BY Zenon
  <2> QED
    BY Zenon, <2>1 DEF Unmap
<1>3. /\ UserPages(Unmap(vm, V)) = {v \in Vpn : <<0, v>> \in Unmap(vm, V)}
      /\ UserPages(vm) = {v \in Vpn : <<0, v>> \in vm}
    BY Zenon, <1>1, UserPagesAre
<1> QED
    BY Zenon, <1>2, <1>3

\* allocuvm() keeps the pages at what the size says.
LEMMA GrowMaps ==
    ASSUME NEW a \in Nat, a >= 1, NEW new \in Nat, AllocSize(a, new) # 0
    PROVE  /\ AllocSize(a, new) >= a
           /\ PagesIn(PGSIZE, a) \cup AllocPages(a, new) = PagesIn(PGSIZE, AllocSize(a, new))
<1>1. CASE new < a
  <2>1. AllocSize(a, new) = a /\ AllocPages(a, new) = {}
    BY Zenon, <1>1 DEF AllocSize, AllocPages
  <2>2. a >= a
    OBVIOUS
  <2> QED
    BY Zenon, <2>1, <2>2
<1>2. CASE ~(new < a)
  <2>1. AllocSize(a, new) = new /\ AllocPages(a, new) = PagesIn(a, new)
    BY Zenon, <1>2 DEF AllocSize, AllocPages
  <2>2. new >= a
    BY <1>2
  <2>3. PagesIn(PGSIZE, a) \cup PagesIn(a, new) = PagesIn(PGSIZE, new)
    <3>1. /\ PagesIn(PGSIZE, a) = {v \in Vpn : PGSIZE <= v * PGSIZE /\ v * PGSIZE < a}
          /\ PagesIn(PGSIZE, new) = {v \in Vpn : PGSIZE <= v * PGSIZE /\ v * PGSIZE < new}
          /\ PagesIn(a, new) = {v \in Vpn : a <= v * PGSIZE /\ v * PGSIZE < new}
      BY Zenon, PageSize, PagesInAre
    <3>2. ASSUME NEW v \in Vpn
          PROVE  (PGSIZE <= v * PGSIZE /\ v * PGSIZE < a) \/ (a <= v * PGSIZE /\ v * PGSIZE < new)
                     <=> PGSIZE <= v * PGSIZE /\ v * PGSIZE < new
      <4>1. PICK x, P : x = v * PGSIZE /\ P = PGSIZE
        BY Zenon
      <4>2. x \in Nat /\ P \in Nat /\ (x >= P <=> v >= 1) /\ v \in Nat
        BY Zenon, <4>1, PageTimes, PageSize, VpnFacts
      <4>3. v = 0 => x = 0
        BY <4>1, PageSize
      <4> QED
        BY <2>2, <4>1, <4>2, <4>3
    <3> QED
      BY Zenon, <3>1, <3>2
  <2> QED
    BY Zenon, <2>1, <2>2, <2>3
<1> QED
    BY Zenon, <1>1, <1>2

\* deallocuvm() too.
LEMMA ShrinkMaps ==
    ASSUME NEW a \in Nat, NEW new \in Nat, new < a
    PROVE  PagesIn(PGSIZE, a) \ DeallocPages(a, new) = PagesIn(PGSIZE, new)
<1>1. /\ PagesIn(PGSIZE, a) = {v \in Vpn : PGSIZE <= v * PGSIZE /\ v * PGSIZE < a}
      /\ PagesIn(PGSIZE, new) = {v \in Vpn : PGSIZE <= v * PGSIZE /\ v * PGSIZE < new}
      /\ DeallocPages(a, new) = {v \in Vpn : new <= v * PGSIZE /\ v * PGSIZE < a}
    BY Zenon, PageSize, PagesInAre DEF DeallocPages
<1>2. ASSUME NEW v \in Vpn
      PROVE  (PGSIZE <= v * PGSIZE /\ v * PGSIZE < a) /\ ~(new <= v * PGSIZE /\ v * PGSIZE < a)
                 <=> PGSIZE <= v * PGSIZE /\ v * PGSIZE < new
  <2>1. PICK x, P : x = v * PGSIZE /\ P = PGSIZE
    BY Zenon
  <2>2. x \in Nat /\ P \in Nat
    BY Zenon, <2>1, PageTimes, PageSize
  <2> QED
    BY <2>1, <2>2
<1> QED
    BY Zenon, <1>1, <1>2

\* exec() rounds up before it adds guard page and stack.
LEMMA RoundMaps ==
    ASSUME NEW a \in Nat
    PROVE  PagesIn(PGSIZE, PGROUNDUP(a)) = PagesIn(PGSIZE, a)
<1>1. /\ PagesIn(PGSIZE, a) = {v \in Vpn : PGSIZE <= v * PGSIZE /\ v * PGSIZE < a}
      /\ PagesIn(PGSIZE, PGROUNDUP(a)) = {v \in Vpn : PGSIZE <= v * PGSIZE /\ v * PGSIZE < PGROUNDUP(a)}
    BY Zenon, PageSize, PagesInAre
<1>2. ASSUME NEW v \in Vpn
      PROVE  v * PGSIZE < a <=> v * PGSIZE < PGROUNDUP(a)
  <2>1. v \in Nat /\ v * PGSIZE \in Nat /\ PGROUNDUP(a) \in Nat
    BY Zenon, VpnFacts, PageTimes, RoundTyped
  <2>2. PGROUNDUP(a) <= v * PGSIZE <=> a <= v * PGSIZE
    BY Zenon, <2>1, RoundAbove
  <2>3. PICK x, r : x = v * PGSIZE /\ r = PGROUNDUP(a)
    BY Zenon
  <2>4. x < a <=> x < r
    BY <2>1, <2>2, <2>3
  <2> QED
    BY Zenon, <2>3, <2>4
<1> QED
    BY Zenon, <1>1, <1>2

-----------------------------------------------------------------------------
(* What the size of a process and of the image it is building say.         *)
Sized(p) ==
    /\ mstate[p] # "unused" => sz[p] >= 1
    /\ mstate[p] # "unused" /\ p \notin emptied => UserPages(pgdir[p]) = PagesIn(PGSIZE, sz[p])
    /\ newdir[p] # {} => newsz[p] >= PGSIZE /\ UserPages(newdir[p]) = PagesIn(PGSIZE, newsz[p])
    /\ newsp[p] # 0 => Stacked(newsz[p]) /\ newsp[p] >= newsz[p] - PGSIZE

SizeInv == MemInv /\ \A p \in MProcs : Sized(p)

\* A step that moves process p alone.
LEMMA OneSized ==
    ASSUME SizeInv, MemInv', NEW p \in MProcs, Sized(p)',
           \A c \in MProcs \ {p} :
              /\ mstate'[c] = mstate[c] /\ pgdir'[c] = pgdir[c] /\ sz'[c] = sz[c]
              /\ newdir'[c] = newdir[c] /\ newsz'[c] = newsz[c] /\ newsp'[c] = newsp[c]
              /\ c \in emptied' <=> c \in emptied
    PROVE  SizeInv'
<1>1. \A c \in MProcs \ {p} : Sized(c)'
    BY Zenon DEF SizeInv, Sized
<1> QED
    BY Zenon, <1>1 DEF SizeInv

LEMMA PanicSized == ASSUME SizeInv, MemInv', NEW why, Panic(why) PROVE SizeInv'
    BY Zenon DEF SizeInv, Sized, Panic

LEMMA GrowSized ==
    ASSUME SizeInv, MemInv', NEW p \in MProcs, NEW n \in Deltas, growproc(p, n) PROVE SizeInv'
<1>1. PICK new, need : /\ new = (sz[p] + n) % UMaxM
                       /\ need = Missing(pgdir[p], AllocPages(sz[p], new))
    BY Zenon
<1>2. /\ MemTypeOK /\ mstate[p] = "running" /\ newdir[p] = {} /\ AllocSize(sz[p], new) # 0 /\ newsp[p] = 0
      /\ Sized(p)
    BY Zenon, <1>1 DEF SizeInv, MemInv, SlotInv, growproc, InUserM
<1>3. sz \in [MProcs -> Nat] /\ sz[p] \in Nat /\ n \in Int /\ pgdir \in [MProcs -> SUBSET AllSlots] /\ pgdir[p] \in SUBSET AllSlots
    BY Zenon, <1>2, MemoryAssumption DEF MemTypeOK
<1>4. new \in Nat
    BY Zenon, <1>1, <1>3, AddressTyped
<1>5. CASE ~kalloc(need)
    BY Zenon, <1>1, <1>5, PanicSized DEF growproc
<1>6. CASE kalloc(need)
  <2>1. /\ pgdir' = [pgdir EXCEPT ![p] = pgdir[p] \cup need]
        /\ sz' = [sz EXCEPT ![p] = AllocSize(@, new)]
        /\ UNCHANGED <<mstate, newdir, newsz, newsp, emptied>>
    BY Zenon, <1>1, <1>6 DEF growproc
  <2>2. pgdir'[p] = pgdir[p] \cup need /\ sz'[p] = AllocSize(sz[p], new)
    BY Zenon, <1>3, <2>1
  <2>3. \A c \in MProcs \ {p} : pgdir'[c] = pgdir[c] /\ sz'[c] = sz[c]
    BY Zenon, <1>3, <2>1
  <2>4. "running" # "unused"
    BY Zenon
  <2>5. sz[p] >= 1
    BY Zenon, <1>2, <2>4 DEF Sized
  <2>6. /\ AllocSize(sz[p], new) >= sz[p]
        /\ PagesIn(PGSIZE, sz[p]) \cup AllocPages(sz[p], new) = PagesIn(PGSIZE, AllocSize(sz[p], new))
    BY Zenon, <1>2, <1>3, <1>4, <2>5, GrowMaps
  <2>7. UserPages(pgdir[p] \cup need) = UserPages(pgdir[p]) \cup AllocPages(sz[p], new)
    BY Zenon, <1>1, <1>3, AllocPagesVpn, UserMissing
  <2>8. AllocSize(sz[p], new) >= 1
    <3>1. AllocSize(sz[p], new) \in Nat
      BY Zenon, <1>3, <1>4, SizesTyped
    <3> QED
      BY <1>3, <2>5, <2>6, <3>1
  <2>9. p \notin emptied => UserPages(pgdir'[p]) = PagesIn(PGSIZE, sz'[p])
    BY Zenon, <1>2, <2>2, <2>4, <2>6, <2>7 DEF Sized
  <2>10. Sized(p)'
    BY Zenon, <1>2, <2>1, <2>2, <2>8, <2>9 DEF Sized
  <2> QED
    BY Zenon, <2>1, <2>3, <2>10, OneSized
<1> QED
    BY Zenon, <1>5, <1>6

LEMMA ShrinkSized ==
    ASSUME SizeInv, MemInv', NEW p \in MProcs, NEW n \in Deltas, growproc_shrink(p, n) PROVE SizeInv'
<1>0. PICK new, V, ret :
         /\ new = (sz[p] + n) % UMaxM /\ ret = DeallocSize(sz[p], new)
         /\ V = IF new >= sz[p] THEN {} ELSE DeallocPages(sz[p], new)
    BY Zenon
<1>1. /\ new = (sz[p] + n) % UMaxM /\ ret = DeallocSize(sz[p], new)
      /\ V = IF new >= sz[p] THEN {} ELSE DeallocPages(sz[p], new)
      /\ pgdir' = [pgdir EXCEPT ![p] = Unmap(pgdir[p], V)]
      /\ sz' = IF ret = 0 THEN sz ELSE [sz EXCEPT ![p] = ret]
      /\ emptied' = IF ret = 0 THEN emptied \cup {p} ELSE emptied
      /\ UNCHANGED <<mstate, newdir, newsz, newsp>>
    BY Zenon, <1>0 DEF growproc_shrink
<1>2. MemTypeOK /\ mstate[p] = "running" /\ newdir[p] = {} /\ newsp[p] = 0 /\ Sized(p)
    BY Zenon DEF SizeInv, MemInv, SlotInv, growproc_shrink, InUserM
<1>3. sz \in [MProcs -> Nat] /\ sz[p] \in Nat /\ n \in Int /\ pgdir \in [MProcs -> SUBSET AllSlots] /\ pgdir[p] \in SUBSET AllSlots
    BY Zenon, <1>2, MemoryAssumption DEF MemTypeOK
<1>4. new \in Nat /\ ret \in Nat
    BY Zenon, <1>1, <1>3, AddressTyped, SizesTyped
<1>5. "running" # "unused"
    BY Zenon
<1>6. sz[p] >= 1 /\ (p \notin emptied => UserPages(pgdir[p]) = PagesIn(PGSIZE, sz[p]))
    BY Zenon, <1>2, <1>5 DEF Sized
<1>7. \A c \in MProcs \ {p} : pgdir'[c] = pgdir[c] /\ sz'[c] = sz[c] /\ (c \in emptied' <=> c \in emptied)
    BY Zenon, <1>1, <1>3
<1>8. sz'[p] >= 1
  <2>1. CASE ret = 0
    BY Zenon, <1>1, <1>6, <2>1
  <2>2. CASE ret # 0
    <3>1. sz'[p] = ret
      BY Zenon, <1>1, <1>3, <2>2
    <3> QED
      BY <1>4, <2>2, <3>1
  <2> QED
    BY Zenon, <2>1, <2>2
<1>9. p \notin emptied' => UserPages(pgdir'[p]) = PagesIn(PGSIZE, sz'[p])
  <2> SUFFICES ASSUME p \notin emptied'
               PROVE  UserPages(pgdir'[p]) = PagesIn(PGSIZE, sz'[p])
    BY Zenon
  <2>1. ret # 0 /\ p \notin emptied /\ sz'[p] = ret /\ pgdir'[p] = Unmap(pgdir[p], V)
    BY Zenon, <1>1, <1>3
  <2>2. UserPages(pgdir'[p]) = PagesIn(PGSIZE, sz[p]) \ V
    BY Zenon, <1>3, <1>6, <2>1, UserUnmap
  <2>3. PagesIn(PGSIZE, sz[p]) \ V = PagesIn(PGSIZE, ret)
    <3>1. CASE new >= sz[p]
      BY Zenon, <1>1, <3>1 DEF DeallocSize
    <3>2. CASE ~(new >= sz[p])
      <4>1. V = DeallocPages(sz[p], new) /\ ret = new
        BY Zenon, <1>1, <3>2 DEF DeallocSize
      <4>2. new < sz[p]
        BY <1>3, <1>4, <3>2
      <4> QED
        BY Zenon, <1>3, <1>4, <4>1, <4>2, ShrinkMaps
    <3> QED
      BY Zenon, <3>1, <3>2
  <2> QED
    BY Zenon, <2>1, <2>2, <2>3
<1>10. Sized(p)'
    BY Zenon, <1>1, <1>2, <1>8, <1>9 DEF Sized
<1> QED
    BY Zenon, <1>1, <1>7, <1>10, OneSized


LEMMA ForkSized ==
    ASSUME SizeInv, MemInv', NEW p \in MProcs, NEW c \in MProcs, fork(p, c) PROVE SizeInv'
<1>1. PICK V, vm : V = CopyPages(sz[p]) /\ vm = Missing({}, V) \cup {Root}
    BY Zenon
<1>2. "unused" # "running"
    BY Zenon
<1>3. MemTypeOK /\ SlotInv /\ mstate[p] = "running" /\ mstate[c] = "unused" /\ newdir[c] = {} /\ newsp[c] = 0 /\ Sized(p)
    BY Zenon, <1>2 DEF SizeInv, MemInv, SlotInv, fork, InUserM
<1>4. CASE \E why : Panic(why)
    BY Zenon, <1>4, PanicSized
<1>5. CASE ~\E why : Panic(why)
  <2>1. /\ pgdir' = [pgdir EXCEPT ![c] = vm] /\ sz' = [sz EXCEPT ![c] = sz[p]]
        /\ mstate' = [mstate EXCEPT ![c] = "running"]
        /\ emptied' = IF p \in emptied THEN emptied \cup {c} ELSE emptied
        /\ UNCHANGED <<newdir, newsz, newsp>>
    BY Zenon, <1>1, <1>5 DEF fork
  <2>2. /\ pgdir'[c] = vm /\ sz'[c] = sz[p]
        /\ \A q \in MProcs \ {c} : /\ mstate'[q] = mstate[q] /\ pgdir'[q] = pgdir[q] /\ sz'[q] = sz[q]
                                   /\ q \in emptied' <=> q \in emptied
    BY Zenon, <1>3, <2>1 DEF MemTypeOK
  <2>3. UserPages(vm) = PagesIn(PGSIZE, sz[p])
    <3>1. V = PagesIn(PGSIZE, sz[p]) /\ V \in SUBSET Vpn
      BY Zenon, <1>1, PagesInVpn DEF CopyPages
    <3>2. UserPages(Missing({}, V) \cup {Root}) = V
      BY Zenon, <3>1, UserFresh
    <3> QED
      BY Zenon, <1>1, <3>1, <3>2
  <2>4. sz[p] >= 1
    BY Zenon, <1>2, <1>3 DEF Sized
  <2>5. Sized(c)'
    BY Zenon, <1>3, <2>1, <2>2, <2>3, <2>4 DEF Sized
  <2> QED
    BY Zenon, <2>1, <2>2, <2>5, OneSized
<1> QED
    BY Zenon, <1>4, <1>5

LEMMA ExecSized == ASSUME SizeInv, MemInv', NEW p \in MProcs, exec(p) PROVE SizeInv'
<1>1. MemTypeOK /\ newsp[p] = 0 /\ Sized(p)
    BY Zenon DEF SizeInv, MemInv, SlotInv, exec, InUserM
<1>2. CASE nfree = 0
    BY Zenon, <1>2, PanicSized DEF exec
<1>3. CASE nfree # 0
  <2>1. /\ newdir' = [newdir EXCEPT ![p] = {Root}] /\ newsz' = [newsz EXCEPT ![p] = PGSIZE]
        /\ UNCHANGED <<mstate, pgdir, sz, newsp, emptied>>
    BY Zenon, <1>3 DEF exec
  <2>2. /\ newdir'[p] = {Root} /\ newsz'[p] = PGSIZE
        /\ \A c \in MProcs \ {p} : newdir'[c] = newdir[c] /\ newsz'[c] = newsz[c]
    BY Zenon, <1>1, <2>1 DEF MemTypeOK
  <2>3. PagesIn(PGSIZE, PGSIZE) = {}
    <3>1. PagesIn(PGSIZE, PGSIZE) = {v \in Vpn : PGSIZE <= v * PGSIZE /\ v * PGSIZE < PGSIZE}
      BY Zenon, PageSize, PagesInAre
    <3>2. ASSUME NEW v \in Vpn
          PROVE  ~(PGSIZE <= v * PGSIZE /\ v * PGSIZE < PGSIZE)
      <4>1. PICK x, P : x = v * PGSIZE /\ P = PGSIZE
        BY Zenon
      <4>2. x \in Nat /\ P \in Nat
        BY Zenon, <4>1, PageTimes, PageSize
      <4> QED
        BY <4>1, <4>2
    <3> QED
      BY Zenon, <3>1, <3>2
  <2>4. PGSIZE >= PGSIZE
    BY PageSize
  <2>5. Sized(p)'
    BY Zenon, <1>1, <2>1, <2>2, <2>3, <2>4, UserRoot DEF Sized
  <2> QED
    BY Zenon, <2>1, <2>2, <2>5, OneSized
<1> QED
    BY Zenon, <1>2, <1>3

\* allocuvm() for the image, from where its pages end.
LEMMA ImageSized ==
    ASSUME SizeInv, NEW p \in MProcs, newdir[p] # {}, NEW from \in Nat, from >= PGSIZE, NEW to \in Nat,
           PagesIn(PGSIZE, from) = PagesIn(PGSIZE, newsz[p]),
           AllocSize(from, to) # 0, ImageAlloc(p, from, to)
    PROVE  /\ newdir'[p] # {} /\ newsz'[p] = AllocSize(from, to) /\ newsz'[p] >= PGSIZE
           /\ UserPages(newdir'[p]) = PagesIn(PGSIZE, newsz'[p])
           /\ \A c \in MProcs \ {p} : newdir'[c] = newdir[c] /\ newsz'[c] = newsz[c]
<1>1. MemTypeOK /\ UserPages(newdir[p]) = PagesIn(PGSIZE, newsz[p]) /\ newdir[p] \in SUBSET AllSlots
    BY Zenon DEF SizeInv, MemInv, MemTypeOK, Sized
<1>2. PICK need : need = Missing(newdir[p], AllocPages(from, to))
    BY Zenon
<1>3. newdir' = [newdir EXCEPT ![p] = @ \cup need] /\ newsz' = [newsz EXCEPT ![p] = AllocSize(from, to)]
    BY Zenon, <1>2 DEF ImageAlloc
<1>4. /\ newdir'[p] = newdir[p] \cup need /\ newsz'[p] = AllocSize(from, to)
      /\ \A c \in MProcs \ {p} : newdir'[c] = newdir[c] /\ newsz'[c] = newsz[c]
    BY Zenon, <1>1, <1>3 DEF MemTypeOK
<1>5. from >= 1
    BY PageSize
<1>6. /\ AllocSize(from, to) >= from
      /\ PagesIn(PGSIZE, from) \cup AllocPages(from, to) = PagesIn(PGSIZE, AllocSize(from, to))
    BY Zenon, <1>5, GrowMaps
<1>7. UserPages(newdir[p] \cup need) = UserPages(newdir[p]) \cup AllocPages(from, to)
    BY Zenon, <1>1, <1>2, AllocPagesVpn, UserMissing
<1>8. UserPages(newdir'[p]) = PagesIn(PGSIZE, newsz'[p])
    BY Zenon, <1>1, <1>4, <1>6, <1>7
<1>9. newsz'[p] >= PGSIZE
  <2>1. AllocSize(from, to) \in Nat
    BY Zenon, SizesTyped
  <2> QED
    BY <1>4, <1>6, <2>1, PageSize
<1>10. newdir'[p] # {}
    BY Zenon, <1>4
<1> QED
    BY Zenon, <1>4, <1>8, <1>9, <1>10

LEMMA LoadSized == ASSUME SizeInv, MemInv', NEW p \in MProcs, NEW top \in Tops, exec_load(p, top) PROVE SizeInv'
<1>1. /\ newsz[p] \in Nat /\ top \in Nat /\ newdir[p] # {} /\ newsp[p] = 0 /\ Sized(p)
      /\ AllocSize(newsz[p], top) # 0
    BY Zenon, MemoryAssumption DEF SizeInv, MemInv, MemTypeOK, exec_load
<1>2. newsz[p] >= PGSIZE
    BY Zenon, <1>1 DEF Sized
<1>3. CASE ImageFits(p, newsz[p], top)
  <2>1. ImageAlloc(p, newsz[p], top) /\ UNCHANGED <<mstate, pgdir, sz, newsp, emptied>>
    BY Zenon, <1>3 DEF exec_load
  <2>2. /\ newdir'[p] # {} /\ newsz'[p] >= PGSIZE
        /\ UserPages(newdir'[p]) = PagesIn(PGSIZE, newsz'[p])
        /\ \A c \in MProcs \ {p} : newdir'[c] = newdir[c] /\ newsz'[c] = newsz[c]
    BY Zenon, <1>1, <1>2, <2>1, ImageSized
  <2>3. Sized(p)'
    BY Zenon, <1>1, <2>1, <2>2 DEF Sized
  <2> QED
    BY Zenon, <2>1, <2>2, <2>3, OneSized
<1>4. CASE ~ImageFits(p, newsz[p], top)
    BY Zenon, <1>4, PanicSized DEF exec_load
<1> QED
    BY Zenon, <1>3, <1>4

LEMMA StackSized == ASSUME SizeInv, MemInv', NEW p \in MProcs, exec_stack(p) PROVE SizeInv'
<1>1. PICK from, to : from = PGROUNDUP(newsz[p]) /\ to = from + 2 * PGSIZE
    BY Zenon
<1>2. MemTypeOK /\ newsz[p] \in Nat /\ newdir[p] # {} /\ Sized(p) /\ to < KERNBASE
    BY Zenon, <1>1 DEF SizeInv, MemInv, MemTypeOK, exec_stack
<1>3. newsz[p] >= PGSIZE
    BY Zenon, <1>2 DEF Sized
<1>4. PICK q \in Nat : from = q * PGSIZE
    BY Zenon, <1>1, <1>2, RoundAbove
<1>5. from \in Nat /\ newsz[p] <= from /\ PagesIn(PGSIZE, from) = PagesIn(PGSIZE, newsz[p])
    BY Zenon, <1>1, <1>2, RoundTyped, RoundAbove, RoundMaps
<1>6. from >= PGSIZE /\ to \in Nat /\ to >= from
    BY <1>1, <1>2, <1>3, <1>5, PageSize
<1>7. Stacked(to)
  <2>1. PICK P : P = PGSIZE
    BY Zenon
  <2>2. P \in Nat /\ P >= 1 /\ from = q * P /\ from >= P /\ to = from + 2 * P
    BY Zenon, <1>1, <1>4, <1>6, <2>1, PageSize
  <2>3. q >= 1
    BY <2>2
  <2>4. q + 2 \in Nat /\ q + 2 >= 3 /\ to = (q + 2) * P
    BY <2>2, <2>3
  <2> QED
    BY Zenon, <2>1, <2>4 DEF Stacked
<1>8. AllocSize(from, to) = to
  <2>1. KERNBASE \in Nat
    BY Zenon, MemoryAssumption
  <2>2. ~(to >= KERNBASE) /\ ~(to < from)
    BY <1>2, <1>5, <1>6, <2>1
  <2> QED
    BY Zenon, <2>2 DEF AllocSize
<1>9. to # 0
    BY <1>5, <1>6, PageSize
<1>10. CASE ImageFits(p, from, to)
  <2>1. ImageAlloc(p, from, to) /\ newsp' = [newsp EXCEPT ![p] = to] /\ UNCHANGED <<mstate, pgdir, sz, emptied>>
    BY Zenon, <1>1, <1>10 DEF exec_stack
  <2>2. /\ newdir'[p] # {} /\ newsz'[p] = AllocSize(from, to) /\ newsz'[p] >= PGSIZE
        /\ UserPages(newdir'[p]) = PagesIn(PGSIZE, newsz'[p])
        /\ \A c \in MProcs \ {p} : newdir'[c] = newdir[c] /\ newsz'[c] = newsz[c]
    BY Zenon, <1>2, <1>5, <1>6, <1>8, <1>9, <2>1, ImageSized
  <2>3. newsp'[p] = to /\ \A c \in MProcs \ {p} : newsp'[c] = newsp[c]
    BY Zenon, <1>2, <2>1 DEF MemTypeOK
  <2>4. to >= to - PGSIZE
    BY <1>6, PageSize
  <2>5. Sized(p)'
    BY Zenon, <1>2, <1>7, <1>8, <2>1, <2>2, <2>3, <2>4 DEF Sized
  <2> QED
    BY Zenon, <2>1, <2>2, <2>3, <2>5, OneSized
<1>11. CASE ~ImageFits(p, from, to)
    BY Zenon, <1>1, <1>11, PanicSized DEF exec_stack
<1> QED
    BY Zenon, <1>10, <1>11


\* copyout() stops at the guard page: exec() cannot push below its stack.
LEMMA FaultSized == ASSUME SizeInv, MemInv', NEW p \in MProcs, NEW n \in Pushes, exec_push_fault(p, n) PROVE SizeInv'
    BY Zenon, PanicSized DEF exec_push_fault

LEMMA PushSized == ASSUME SizeInv, MemInv', NEW p \in MProcs, NEW n \in Pushes, exec_push(p, n) PROVE SizeInv'
<1>1. /\ newsp[p] # 0 /\ newsp' = [newsp EXCEPT ![p] = @ - n] /\ copyout(p, newsp[p] - n, n)
      /\ UNCHANGED <<mstate, pgdir, sz, newdir, newsz, emptied>>
    BY Zenon DEF exec_push
<1>2. MemTypeOK /\ Sized(p) /\ Stacked(newsz[p]) /\ newsp[p] >= newsz[p] - PGSIZE /\ newsp[p] \in Int /\ newsz[p] \in Nat
    BY Zenon, <1>1 DEF SizeInv, MemInv, MemTypeOK, Sized
<1>3. newsp'[p] = newsp[p] - n /\ \A c \in MProcs \ {p} : newsp'[c] = newsp[c]
    BY Zenon, <1>1, <1>2 DEF MemTypeOK
<1>4. PICK q, P, top, sp : q \in Nat /\ q >= 3 /\ newsz[p] = q * PGSIZE /\ P = PGSIZE /\ top = newsz[p] /\ sp = newsp[p]
    BY Zenon, <1>2 DEF Stacked
<1>5. P \in Nat /\ P >= 1 /\ n \in Nat /\ top = q * P /\ top \in Nat /\ sp \in Int /\ sp >= top - P
    BY Zenon, <1>2, <1>4, MemoryAssumption, PageSize
<1>6. sp - n >= top - P
  <2> SUFFICES ASSUME sp - n < top - P
               PROVE  FALSE
    BY <1>5
  <2>1. PICK x, k : x = top - P - 1 /\ k = q - 2
    BY Zenon
  <2>2. k \in Nat /\ q = k + 2
    BY <1>4, <2>1
  <2>3. k * P \in Nat /\ top = k * P + 2 * P
    BY <1>5, <2>2
  <2>4. x \in Nat /\ k * P <= x /\ x < k * P + P
    BY <1>5, <2>1, <2>3
  <2>5. x \div P = k
    BY Zenon, <1>5, <2>2, <2>4, DivIs
  <2>6. top \div P = q
    <3>1. q * P <= top /\ top < q * P + P
      BY <1>5
    <3> QED
      BY Zenon, <1>4, <1>5, <3>1, DivIs
  <2>7. x \in (sp - n) .. ((sp - n) + n - 1)
    BY <1>5, <2>1, <2>4
  <2>8. uva2ka(p, x \div P)
    BY Zenon, <1>1, <1>4, <2>7 DEF copyout
  <2>9. x \div P # top \div P - 2
    BY Zenon, <1>4, <2>8 DEF uva2ka, clearpteu
  <2> QED
    BY Zenon, <2>1, <2>5, <2>6, <2>9
<1>7. newsp'[p] >= newsz[p] - PGSIZE
    BY Zenon, <1>3, <1>4, <1>6
<1>8. Sized(p)'
    BY Zenon, <1>1, <1>2, <1>7 DEF Sized
<1> QED
    BY Zenon, <1>1, <1>3, <1>8, OneSized

LEMMA CommitSized == ASSUME SizeInv, MemInv', NEW p \in MProcs, exec_commit(p) PROVE SizeInv'
<1>1. MemTypeOK /\ newdir[p] # {} /\ Sized(p) /\ newsz[p] \in Nat
    BY Zenon DEF SizeInv, MemInv, MemTypeOK, SlotInv, exec_commit
<1>2. /\ pgdir' = [pgdir EXCEPT ![p] = newdir[p]] /\ sz' = [sz EXCEPT ![p] = newsz[p]]
      /\ newdir' = [newdir EXCEPT ![p] = {}] /\ newsz' = [newsz EXCEPT ![p] = 0] /\ newsp' = [newsp EXCEPT ![p] = 0]
      /\ emptied' = emptied \ {p} /\ mstate' = mstate
    BY Zenon DEF exec_commit, NoImage
<1>3. pgdir'[p] = newdir[p] /\ sz'[p] = newsz[p] /\ newdir'[p] = {} /\ newsp'[p] = 0
    BY Zenon, <1>1, <1>2 DEF MemTypeOK
<1>4. \A c \in MProcs \ {p} : /\ pgdir'[c] = pgdir[c] /\ sz'[c] = sz[c] /\ newdir'[c] = newdir[c]
                              /\ newsz'[c] = newsz[c] /\ newsp'[c] = newsp[c] /\ (c \in emptied' <=> c \in emptied)
    BY Zenon, <1>1, <1>2 DEF MemTypeOK
<1>5. newsz[p] >= PGSIZE /\ UserPages(newdir[p]) = PagesIn(PGSIZE, newsz[p])
    BY Zenon, <1>1 DEF Sized
<1>6. newsz[p] >= 1
    BY <1>1, <1>5, PageSize
<1>7. Sized(p)'
    BY Zenon, <1>3, <1>5, <1>6 DEF Sized
<1>8. \A c \in MProcs \ {p} :
         /\ mstate'[c] = mstate[c] /\ pgdir'[c] = pgdir[c] /\ sz'[c] = sz[c]
         /\ newdir'[c] = newdir[c] /\ newsz'[c] = newsz[c] /\ newsp'[c] = newsp[c]
         /\ c \in emptied' <=> c \in emptied
    BY Zenon, <1>2, <1>4
<1> QED
    BY Zenon, <1>7, <1>8, OneSized

LEMMA BadSized == ASSUME SizeInv, MemInv', NEW p \in MProcs, exec_bad(p) PROVE SizeInv'
<1>1. MemTypeOK /\ Sized(p)
    BY Zenon DEF SizeInv, MemInv
<1>2. /\ newdir' = [newdir EXCEPT ![p] = {}] /\ newsz' = [newsz EXCEPT ![p] = 0] /\ newsp' = [newsp EXCEPT ![p] = 0]
      /\ UNCHANGED <<mstate, pgdir, sz, emptied>>
    BY Zenon DEF exec_bad, NoImage
<1>3. /\ newdir'[p] = {} /\ newsp'[p] = 0
      /\ \A c \in MProcs \ {p} : newdir'[c] = newdir[c] /\ newsz'[c] = newsz[c] /\ newsp'[c] = newsp[c]
    BY Zenon, <1>1, <1>2 DEF MemTypeOK
<1>4. Sized(p)'
    BY Zenon, <1>1, <1>2, <1>3 DEF Sized
<1> QED
    BY Zenon, <1>2, <1>3, <1>4, OneSized

LEMMA ExitSized == ASSUME SizeInv, MemInv', NEW p \in MProcs, exit(p) PROVE SizeInv'
<1>1. /\ MemTypeOK /\ Sized(p) /\ mstate[p] = "running" /\ mstate' = [mstate EXCEPT ![p] = "zombie"]
      /\ UNCHANGED <<pgdir, sz, newdir, newsz, newsp, emptied>>
    BY Zenon DEF SizeInv, MemInv, exit, InUserM
<1>2. mstate'[p] = "zombie" /\ \A c \in MProcs \ {p} : mstate'[c] = mstate[c]
    BY Zenon, <1>1 DEF MemTypeOK
<1>3. "running" # "unused"
    BY Zenon
<1>4. Sized(p)'
    BY Zenon, <1>1, <1>2, <1>3 DEF Sized
<1> QED
    BY Zenon, <1>1, <1>2, <1>4, OneSized

LEMMA WaitSized == ASSUME SizeInv, MemInv', NEW c \in MProcs, wait(c) PROVE SizeInv'
<1>1. /\ mstate[c] = "zombie" /\ mstate' = [mstate EXCEPT ![c] = "unused"]
      /\ pgdir' = [pgdir EXCEPT ![c] = {}] /\ sz' = [sz EXCEPT ![c] = 0]
      /\ emptied' = emptied \ {c} /\ UNCHANGED <<newdir, newsz, newsp>>
    BY Zenon DEF wait
<1>2. "zombie" # "running"
    BY Zenon
<1>3. MemTypeOK /\ newdir[c] = {} /\ newsp[c] = 0
    BY Zenon, <1>1, <1>2 DEF SizeInv, MemInv, SlotInv
<1>4. /\ mstate'[c] = "unused"
      /\ \A q \in MProcs \ {c} : /\ mstate'[q] = mstate[q] /\ pgdir'[q] = pgdir[q] /\ sz'[q] = sz[q]
                                 /\ q \in emptied' <=> q \in emptied
    BY Zenon, <1>1, <1>3 DEF MemTypeOK
<1>5. Sized(c)'
    BY Zenon, <1>1, <1>3, <1>4 DEF Sized
<1> QED
    BY Zenon, <1>1, <1>4, <1>5, OneSized

LEMMA SizeInitInv == MemInit => SizeInv
<1> SUFFICES ASSUME MemInit
             PROVE  SizeInv
    BY Zenon
<1>1. PICK first, vm :
         /\ first \in MProcs /\ vm = Missing({}, {1})
         /\ mstate = [p \in MProcs |-> IF p = first THEN "running" ELSE "unused"]
         /\ pgdir = [p \in MProcs |-> IF p = first THEN vm ELSE {}]
         /\ sz = [p \in MProcs |-> IF p = first THEN 2 * PGSIZE ELSE 0]
         /\ newdir = [p \in MProcs |-> {}] /\ newsp = [p \in MProcs |-> 0]
    BY Zenon, MemoryAssumption DEF MemInit
<1>2. UserPages(vm) = {1}
  <2>1. {1} \in SUBSET Vpn /\ {} \in SUBSET AllSlots /\ UserPages({}) = {}
    BY Zenon, VpnFacts DEF UserPages
  <2>2. UserPages({} \cup Missing({}, {1})) = UserPages({}) \cup {1}
    BY Zenon, <2>1, UserMissing
  <2>3. {} \cup Missing({}, {1}) = Missing({}, {1}) /\ {} \cup {1} = {1}
    BY Zenon
  <2> QED
    BY Zenon, <1>1, <2>1, <2>2, <2>3
<1>3. PagesIn(PGSIZE, 2 * PGSIZE) = {1}
  <2>1. PagesIn(PGSIZE, 2 * PGSIZE) = {v \in Vpn : PGSIZE <= v * PGSIZE /\ v * PGSIZE < 2 * PGSIZE}
    BY Zenon, PageSize, PagesInAre
  <2>2. ASSUME NEW v \in Vpn
        PROVE  (PGSIZE <= v * PGSIZE /\ v * PGSIZE < 2 * PGSIZE) <=> v = 1
    <3>1. PICK P : P = PGSIZE
      BY Zenon
    <3>2. P \in Nat /\ P >= 1 /\ v \in Nat /\ v * P \in Nat /\ 2 \in Nat
      BY <3>1, PageSize, VpnFacts
    <3>3. CASE v = 0 \/ v = 1
      BY <3>1, <3>2, <3>3
    <3>4. CASE ~(v = 0 \/ v = 1)
      <4>1. 2 <= v
        BY <3>2, <3>4
      <4>2. 2 * P <= v * P
        BY Zenon, <3>2, <4>1, TimesMono
      <4> QED
        BY <3>1, <3>2, <3>4, <4>2
    <3> QED
      BY Zenon, <3>3, <3>4
  <2> QED
    BY Zenon, <2>1, <2>2, VpnFacts
<1>4. 2 * PGSIZE >= 1
    BY PageSize
<1>5. "running" # "unused"
    BY Zenon
<1>6. \A p \in MProcs : Sized(p)
  <2> SUFFICES ASSUME NEW p \in MProcs
               PROVE  Sized(p)
    BY Zenon
  <2>1. newdir[p] = {} /\ newsp[p] = 0
    BY Zenon, <1>1
  <2>2. CASE p = first
    <3>1. pgdir[p] = vm /\ sz[p] = 2 * PGSIZE
      BY Zenon, <1>1, <2>2
    <3> QED
      BY Zenon, <1>2, <1>3, <1>4, <2>1, <3>1 DEF Sized
  <2>3. CASE p # first
    <3>1. mstate[p] = "unused"
      BY Zenon, <1>1, <2>3
    <3> QED
      BY Zenon, <2>1, <3>1 DEF Sized
  <2> QED
    BY Zenon, <2>2, <2>3
<1> QED
    BY Zenon, <1>6, MemInitInv DEF SizeInv

LEMMA SizeNextInv == SizeInv /\ [MemNext]_memVars => SizeInv'
<1> SUFFICES ASSUME SizeInv, [MemNext]_memVars
             PROVE  SizeInv'
    BY Zenon
<1>1. MemInv'
    BY Zenon, MemNextInv DEF SizeInv
<1>2. CASE UNCHANGED memVars
    BY Zenon, <1>1, <1>2 DEF memVars, SizeInv, Sized
<1>3. CASE MemNext
    BY Zenon, <1>1, <1>3, GrowSized, ShrinkSized, ForkSized, ExecSized, StackSized, CommitSized, BadSized,
       LoadSized, PushSized, FaultSized, ExitSized, WaitSized DEF MemNext
<1> QED
    BY Zenon, <1>2, <1>3

LEMMA SizeImplies == SizeInv => SizeMapped
<1> SUFFICES ASSUME SizeInv
             PROVE  SizeMapped
    BY Zenon
<1>1. "running" # "unused" /\ "zombie" # "unused"
    BY Zenon
<1>2. \A p \in MProcs : mstate[p] \in {"running", "zombie"} /\ p \notin emptied
          => {x[2] : x \in {y \in pgdir[p] : y[1] = 0}} = PagesIn(PGSIZE, sz[p])
    BY Zenon, <1>1 DEF SizeInv, Sized, UserPages
<1>3. \A p \in MProcs : newsp[p] # 0 => newsp[p] >= newsz[p] - PGSIZE
    BY Zenon DEF SizeInv, Sized
<1> QED
    BY Zenon, <1>2, <1>3 DEF SizeMapped

(* The mapped user pages are those from PGSIZE up to proc->sz, whatever    *)
(* sbrk() adds, takes or refuses, through fork() and exec(); the one       *)
(* exception is sbrk(-sz) (growproc(), proc.c).  And exec() never pushes   *)
(* below the page it made for the stack, since copyout() fails at the      *)
(* guard page (exec.c, vm.c).                                              *)
THEOREM SizesMapped == MemSpec => []SizeMapped
    BY SizeImplies, SizeInitInv, SizeNextInv, PTL DEF MemSpec


CopyPanics == vmpanic = "copyuvm" => emptied # {}

LEMMA CopyPanicsStep == SizeInv /\ CopyPanics /\ [MemNext]_memVars => CopyPanics'
<1> SUFFICES ASSUME SizeInv, CopyPanics, [MemNext]_memVars
             PROVE  CopyPanics'
    BY Zenon
<1>1. CASE UNCHANGED memVars
    BY Zenon, <1>1 DEF memVars, CopyPanics
<1>2. CASE MemNext
  <2>1. "none" # "copyuvm" /\ "kalloc" # "copyuvm" /\ "trap" # "copyuvm" /\ "running" # "unused"
    BY Zenon
  <2>2. vmpanic = "none"
    BY Zenon, <1>2 DEF MemNext
  <2>3. ASSUME Panic("kalloc") \/ Panic("trap") \/ UNCHANGED vmpanic
        PROVE  CopyPanics'
    BY Zenon, <2>1, <2>2, <2>3 DEF Panic, CopyPanics
  <2>4. PICK p \in MProcs :
           \/ \E n \in Deltas : growproc(p, n) \/ growproc_shrink(p, n)
           \/ \E c \in MProcs : fork(p, c)
           \/ exec(p) \/ exec_stack(p) \/ exec_commit(p) \/ exec_bad(p)
           \/ \E top \in Tops : exec_load(p, top)
           \/ \E n \in Pushes : exec_push(p, n) \/ exec_push_fault(p, n)
           \/ exit(p) \/ wait(p)
    BY Zenon, <1>2 DEF MemNext
  <2>5. CASE \E c \in MProcs : fork(p, c)
    <3>1. CASE \E v \in CopyPages(sz[p]) : <<0, v>> \notin pgdir[p]
      <4>1. p \in emptied
        <5> SUFFICES ASSUME p \notin emptied
                     PROVE  FALSE
          BY Zenon
        <5>1. mstate[p] = "running"
          BY Zenon, <2>5 DEF fork, InUserM
        <5>2. UserPages(pgdir[p]) = CopyPages(sz[p]) /\ pgdir[p] \in SUBSET AllSlots
          BY Zenon, <2>1, <5>1 DEF SizeInv, Sized, CopyPages, MemInv, MemTypeOK
        <5> QED
          BY Zenon, <3>1, <5>2, UserPagesAre
      <4>2. UNCHANGED emptied
        BY Zenon, <2>5, <3>1 DEF fork, Panic
      <4> QED
        BY Zenon, <4>1, <4>2 DEF CopyPanics
    <3>2. CASE ~\E v \in CopyPages(sz[p]) : <<0, v>> \notin pgdir[p]
      <4>1. Panic("kalloc") \/ UNCHANGED vmpanic
        BY Zenon, <2>5, <3>2 DEF fork
      <4> QED
        BY Zenon, <2>3, <4>1
    <3> QED
      BY Zenon, <3>1, <3>2
  <2>6. CASE \E n \in Deltas : growproc(p, n)
    BY Zenon, <2>3, <2>6 DEF growproc
  <2>7. CASE \E n \in Deltas : growproc_shrink(p, n)
    BY Zenon, <2>3, <2>7 DEF growproc_shrink
  <2>8. CASE exec(p) \/ exec_stack(p)
    BY Zenon, <2>3, <2>8 DEF exec, exec_stack
  <2>9. CASE exec_commit(p) \/ exec_bad(p) \/ exit(p) \/ wait(p)
    BY Zenon, <2>3, <2>9 DEF exec_commit, exec_bad, exit, wait
  <2>10. CASE \/ \E top \in Tops : exec_load(p, top)
              \/ \E n \in Pushes : exec_push(p, n) \/ exec_push_fault(p, n)
    BY Zenon, <2>3, <2>10 DEF exec_load, exec_push, exec_push_fault
  <2> QED
    BY Zenon, <2>4, <2>5, <2>6, <2>7, <2>8, <2>9, <2>10
<1> QED
    BY Zenon, <1>1, <1>2

(* copyuvm() finds every page it copies, so fork() does not panic over a   *)
(* page that is not present (vm.c), unless some process emptied its        *)
(* address space with sbrk(-sz).                                           *)
THEOREM ForkFindsPages == MemSpec => []CopyPanics
<1>1. MemInit => CopyPanics
  <2>1. "none" # "copyuvm"
    BY Zenon
  <2> QED
    BY Zenon, <2>1 DEF MemInit, CopyPanics
<1> QED
    BY <1>1, SizeInitInv, SizeNextInv, CopyPanicsStep, PTL DEF MemSpec

=============================================================================
