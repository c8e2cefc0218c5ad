------------------------------ MODULE FsProofs -------------------------------
(* The inode cache and the directory tree.                                 *)
EXTENDS Inode, Dirs, FiniteSetTheorems, TLAPS

(***************************************************************************)
(* The reference counts of the inode cache are exact, whatever the number  *)
(* of processes, names, inodes and entries.                                *)
(***************************************************************************)

\* The places of a call at which it has an entry, and those at which it has
\* none.  A panic is in neither: nothing follows it.
HasEntry(x) == x[1] = "iput" \/ x[2] \in {"ilock", "read", "locked", "dirlink", "dec"}
NoEntry(x) == x[1] = "idle" \/ x[2] \in {"start", "ialloc", "iget"}

\* The calls that give the process its open file.
Opening(x) == x[1] \in {"open", "reopen", "create"}

Pointers == [Procs -> Slots \cup {None}]
Holders(f, s) == {q \in Procs : f[q] = s}

\* Every entry of the cache has a reference count.
Entries == DOMAIN icache = Slots /\ \A s \in Slots : "ref" \in DOMAIN icache[s]

Counted == \A s \in Slots : icache[s].ref = Cardinality(Holders(ip, s)) + Cardinality(Holders(fd, s))

\* A call has an entry exactly at the places that count on one.
CallOK(x, e, f) ==
    /\ HasEntry(x) => e \in Slots
    /\ NoEntry(x) => e = None
    /\ Opening(x) => f = None

EntryInv ==
    /\ Entries
    /\ DOMAIN pc = Procs /\ ip \in Pointers /\ fd \in Pointers
    /\ \A q \in Procs : CallOK(pc[q], ip[q], fd[q])

RefInv == EntryInv /\ Counted

-----------------------------------------------------------------------------
(* How the holders of an entry change with one process's pointer.          *)

LEMMA HoldersFinite == ASSUME NEW f, NEW s
                       PROVE  IsFiniteSet(Holders(f, s)) /\ Cardinality(Holders(f, s)) \in Nat
  <1>1. Holders(f, s) \subseteq Procs BY Zenon DEF Holders
  <1>2. IsFiniteSet(Holders(f, s)) BY Zenon, <1>1, InodeAssumption, FS_Subset
  <1> QED BY Zenon, <1>2, FS_CardinalityType

\* No process is a slot of the cache, and neither is None.
LEMMA NoneNoSlot == None \notin Slots
  BY InodeAssumption DEF Slots

Takes(f, g, p, s) == f \in Pointers /\ f[p] = None /\ g = [f EXCEPT ![p] = s]
LetsGo(f, g, p, s) == f \in Pointers /\ f[p] = s /\ g = [f EXCEPT ![p] = None]

\* One more, or one less, holds entry s.
More(f, g, s) ==
    \A t \in Slots : /\ t = s => Cardinality(Holders(g, t)) = Cardinality(Holders(f, t)) + 1
                     /\ t # s => Cardinality(Holders(g, t)) = Cardinality(Holders(f, t))
Less(f, g, s) ==
    \A t \in Slots : /\ t = s => Cardinality(Holders(g, t)) = Cardinality(Holders(f, t)) - 1
                     /\ t # s => Cardinality(Holders(g, t)) = Cardinality(Holders(f, t))

LEMMA OneLess == \A m, n \in Nat : (m + n) - 1 = (m - 1) + n
  OBVIOUS

LEMMA PointerTaken ==
    ASSUME NEW f, NEW g, NEW p \in Procs, NEW s \in Slots, Takes(f, g, p, s)
    PROVE  g \in Pointers /\ More(f, g, s)
  <1>0. g \in Pointers BY Zenon DEF Pointers, Takes
  <1>1. ASSUME NEW t \in Slots, t = s
        PROVE  Cardinality(Holders(g, t)) = Cardinality(Holders(f, t)) + 1
    <2>1. Holders(g, t) = Holders(f, t) \cup {p} BY Zenon, <1>1 DEF Holders, Pointers, Takes
    <2>2. p \notin Holders(f, t) BY Zenon, NoneNoSlot DEF Holders, Takes
    <2> QED BY Zenon, <2>1, <2>2, HoldersFinite, FS_AddElement
  <1>2. ASSUME NEW t \in Slots, t # s
        PROVE  Cardinality(Holders(g, t)) = Cardinality(Holders(f, t))
    <2>1. Holders(g, t) = Holders(f, t) BY Zenon, <1>2, NoneNoSlot DEF Holders, Pointers, Takes
    <2> QED BY Zenon, <2>1
  <1> QED BY Zenon, <1>0, <1>1, <1>2 DEF More

LEMMA PointerDropped ==
    ASSUME NEW f, NEW g, NEW p \in Procs, NEW s \in Slots, LetsGo(f, g, p, s)
    PROVE  g \in Pointers /\ Less(f, g, s)
  <1>0. g \in Pointers BY Zenon DEF Pointers, LetsGo
  <1>1. ASSUME NEW t \in Slots, t = s
        PROVE  Cardinality(Holders(g, t)) = Cardinality(Holders(f, t)) - 1
    <2> DEFINE H == Holders(f, t)
    <2>1. Holders(g, t) = H \ {p} BY Zenon, <1>1, NoneNoSlot DEF Holders, Pointers, LetsGo
    <2>2. p \in H BY Zenon, <1>1 DEF Holders, LetsGo
    <2>3. IsFiniteSet(H) BY Zenon, HoldersFinite
    <2> HIDE DEF H
    <2>4. Cardinality(H \ {p}) = Cardinality(H) - 1 BY Zenon, <2>2, <2>3, FS_RemoveElement
    <2> QED BY Zenon, <2>1, <2>4 DEF H
  <1>2. ASSUME NEW t \in Slots, t # s
        PROVE  Cardinality(Holders(g, t)) = Cardinality(Holders(f, t))
    <2>1. Holders(g, t) = Holders(f, t) BY Zenon, <1>2, NoneNoSlot DEF Holders, Pointers, LetsGo
    <2> QED BY Zenon, <2>1
  <1> QED BY Zenon, <1>0, <1>1, <1>2 DEF Less

-----------------------------------------------------------------------------
(* The steps, by what they do to the pointers of the process.              *)

\* Only process p moves, and only its pointers change.
Moves(p) == DOMAIN pc' = Procs /\ \A q \in Procs \ {p} : pc'[q] = pc[q]
OnlyOf(p) == \A q \in Procs \ {p} : ip'[q] = ip[q] /\ fd'[q] = fd[q]

LEMMA Place == ASSUME NEW p, NEW call, NEW place, At(p, call, place)
               PROVE  pc[p][1] = call /\ pc[p][2] = place
  BY DEF At

LEMMA Goes == ASSUME RefInv, NEW p \in Procs, NEW call, NEW place, Goto(p, call, place)
              PROVE  Moves(p) /\ pc'[p] = <<call, place>>
  BY Zenon DEF Goto, Moves, RefInv, EntryInv

\* A process between calls has no entry, one that puts its inode has one.
LEMMA IdleOK == ASSUME NEW f PROVE CallOK(<<"idle", "">>, None, f)
  BY Zenon DEF CallOK, HasEntry, Opening

LEMMA PutOK == ASSUME NEW s \in Slots, NEW f PROVE CallOK(<<"iput", "">>, s, f)
  BY Zenon DEF CallOK, NoEntry, Opening

LEMMA CallKeeps ==
    ASSUME RefInv, NEW p \in Procs, Moves(p), OnlyOf(p), Entries', ip' \in Pointers, fd' \in Pointers,
           CallOK(pc'[p], ip'[p], fd'[p])
    PROVE  EntryInv'
  <1>1. ASSUME NEW q \in Procs PROVE CallOK(pc'[q], ip'[q], fd'[q])
    <2>1. CASE q = p BY Zenon, <2>1
    <2>2. CASE q # p BY Zenon, <2>2 DEF RefInv, EntryInv, Moves, OnlyOf
    <2> QED BY Zenon, <2>1, <2>2
  <1> QED BY Zenon, <1>1 DEF EntryInv, Moves

\* The counts as they were, but for entry s, whose count is n.
Counts(s, n) ==
    /\ Entries' /\ icache'[s].ref = n
    /\ \A t \in Slots \ {s} : icache'[t].ref = icache[t].ref
SameCounts == Entries' /\ \A t \in Slots : icache'[t].ref = icache[t].ref

\* A step of process p that leaves the pointers and the counts alone.
LEMMA StaysKeeps ==
    ASSUME RefInv, NEW p \in Procs, NEW c, NEW a, Moves(p), pc'[p] = <<c, a>>,
           UNCHANGED <<ip, fd>>, SameCounts, CallOK(<<c, a>>, ip[p], fd[p])
    PROVE  RefInv'
  <1>1. OnlyOf(p) BY Zenon DEF OnlyOf
  <1>2. EntryInv'
    BY Zenon, <1>1, CallKeeps DEF RefInv, EntryInv, SameCounts
  <1>3. Counted' BY Zenon DEF RefInv, Counted, SameCounts
  <1> QED BY Zenon, <1>2, <1>3 DEF RefInv

LEMMA TakesKeeps ==
    ASSUME RefInv, NEW p \in Procs, NEW s \in Slots, NEW c, Moves(p), pc'[p] = <<c, "ilock">>,
           ip[p] = None, ip' = [ip EXCEPT ![p] = s], fd' = fd, Counts(s, icache[s].ref + 1),
           Opening(<<c, "ilock">>) => fd[p] = None, c # "idle"
    PROVE  RefInv'
  <1>1. Takes(ip, ip', p, s) BY Zenon DEF Takes, RefInv, EntryInv
  <1>2. ip' \in Pointers BY Zenon, <1>1, PointerTaken
  <1>3. More(ip, ip', s) BY Zenon, <1>1, PointerTaken
  <1>4. OnlyOf(p) /\ ip'[p] = s BY Zenon DEF OnlyOf, RefInv, EntryInv, Pointers
  <1>5. CallOK(pc'[p], ip'[p], fd'[p]) BY <1>4 DEF CallOK, NoEntry
  <1>6. EntryInv' BY Zenon, <1>2, <1>4, <1>5, CallKeeps DEF RefInv, EntryInv, Counts
  <1>7. ASSUME NEW t \in Slots
        PROVE  icache'[t].ref = Cardinality(Holders(ip', t)) + Cardinality(Holders(fd', t))
    <2>1. Cardinality(Holders(ip, t)) \in Nat /\ Cardinality(Holders(fd, t)) \in Nat
      BY Zenon, HoldersFinite
    <2>2. icache[t].ref = Cardinality(Holders(ip, t)) + Cardinality(Holders(fd, t))
      BY Zenon DEF RefInv, Counted
    <2>3. Holders(fd', t) = Holders(fd, t) BY Zenon
    <2>4. CASE t = s
      <3>1. Cardinality(Holders(ip', t)) = Cardinality(Holders(ip, t)) + 1 BY Zenon, <1>3, <2>4 DEF More
      <3>2. icache'[t].ref = icache[t].ref + 1 BY Zenon, <2>4 DEF Counts
      <3> QED BY <2>1, <2>2, <2>3, <3>1, <3>2
    <2>5. CASE t # s
      <3>1. Cardinality(Holders(ip', t)) = Cardinality(Holders(ip, t)) BY Zenon, <1>3, <2>5 DEF More
      <3>2. icache'[t].ref = icache[t].ref BY Zenon, <2>5 DEF Counts
      <3> QED BY Zenon, <2>2, <2>3, <3>1, <3>2
    <2> QED BY Zenon, <2>4, <2>5
  <1> QED BY Zenon, <1>6, <1>7 DEF RefInv, Counted

\* The pointer of a call is dropped, and counted down.
LEMMA DropsKeeps ==
    ASSUME RefInv, NEW p \in Procs, NEW s \in Slots, Moves(p), pc'[p] = <<"idle", "">>,
           ip[p] = s, ip' = [ip EXCEPT ![p] = None], fd' = fd, Counts(s, icache[s].ref - 1)
    PROVE  RefInv'
  <1>1. LetsGo(ip, ip', p, s) BY Zenon DEF LetsGo, RefInv, EntryInv
  <1>2. ip' \in Pointers BY Zenon, <1>1, PointerDropped
  <1>3. Less(ip, ip', s) BY Zenon, <1>1, PointerDropped
  <1>4. OnlyOf(p) /\ ip'[p] = None BY Zenon DEF OnlyOf, RefInv, EntryInv, Pointers
  <1>5. CallOK(pc'[p], ip'[p], fd'[p]) BY Zenon, <1>4, IdleOK
  <1>6. EntryInv' BY Zenon, <1>2, <1>4, <1>5, CallKeeps DEF RefInv, EntryInv, Counts
  <1>7. ASSUME NEW t \in Slots
        PROVE  icache'[t].ref = Cardinality(Holders(ip', t)) + Cardinality(Holders(fd', t))
    <2>1. Cardinality(Holders(ip, t)) \in Nat /\ Cardinality(Holders(fd, t)) \in Nat
      BY Zenon, HoldersFinite
    <2>2. icache[t].ref = Cardinality(Holders(ip, t)) + Cardinality(Holders(fd, t))
      BY Zenon DEF RefInv, Counted
    <2>3. Holders(fd', t) = Holders(fd, t) BY Zenon
    <2>4. CASE t = s
      <3>1. Cardinality(Holders(ip', t)) = Cardinality(Holders(ip, t)) - 1 BY Zenon, <1>3, <2>4 DEF Less
      <3>2. icache'[t].ref = icache[t].ref - 1 BY Zenon, <2>4 DEF Counts
      <3> DEFINE a == Cardinality(Holders(ip, t))
                 b == Cardinality(Holders(fd, t))
      <3>3. a \in Nat /\ b \in Nat /\ icache'[t].ref = (a + b) - 1 BY Zenon, <2>1, <2>2, <3>2
      <3>4. Cardinality(Holders(ip', t)) = a - 1 /\ Cardinality(Holders(fd', t)) = b BY Zenon, <2>3, <3>1
      <3> HIDE DEF a, b
      <3> QED BY <3>3, <3>4, OneLess, Zenon
    <2>5. CASE t # s
      <3>1. Cardinality(Holders(ip', t)) = Cardinality(Holders(ip, t)) BY Zenon, <1>3, <2>5 DEF Less
      <3>2. icache'[t].ref = icache[t].ref BY Zenon, <2>5 DEF Counts
      <3> QED BY Zenon, <2>2, <2>3, <3>1, <3>2
    <2> QED BY Zenon, <2>4, <2>5
  <1> QED BY Zenon, <1>6, <1>7 DEF RefInv, Counted

\* A reference passes between the call and the open file.
LEMMA OpenedKeeps == ASSUME RefInv, NEW p \in Procs, opened(p) PROVE RefInv'
  <1>0. CallOK(pc[p], ip[p], fd[p]) BY Zenon DEF RefInv, EntryInv
  <1>1. PICK s \in Slots : s = ip[p]
    BY Zenon, <1>0, Place DEF opened, CallOK, HasEntry
  <1>2. fd[p] = None BY Zenon, <1>0, Place DEF opened, CallOK, Opening
  <1>3. LetsGo(ip, ip', p, s) /\ Takes(fd, fd', p, s)
    BY Zenon, <1>1, <1>2 DEF LetsGo, Takes, opened, RefInv, EntryInv
  <1>4. ip' \in Pointers /\ fd' \in Pointers BY Zenon, <1>3, PointerDropped, PointerTaken
  <1>5. Less(ip, ip', s) BY Zenon, <1>3, PointerDropped
  <1>6. More(fd, fd', s) BY Zenon, <1>3, PointerTaken
  <1>7. Entries' /\ \A t \in Slots : icache'[t].ref = icache[t].ref
    BY Zenon, <1>1 DEF opened, RefInv, EntryInv, Entries
  <1>8. OnlyOf(p) /\ ip'[p] = None BY Zenon DEF opened, OnlyOf, RefInv, EntryInv, Pointers
  <1>9. Moves(p) /\ pc'[p] = <<"idle", "">> BY Zenon, Goes DEF opened
  <1>10. CallOK(pc'[p], ip'[p], fd'[p]) BY Zenon, <1>8, <1>9, IdleOK
  <1>11. EntryInv' BY Zenon, <1>4, <1>7, <1>8, <1>9, <1>10, CallKeeps
  <1>12. ASSUME NEW t \in Slots
         PROVE  icache'[t].ref = Cardinality(Holders(ip', t)) + Cardinality(Holders(fd', t))
    <2>1. Cardinality(Holders(ip, t)) \in Nat /\ Cardinality(Holders(fd, t)) \in Nat
      BY Zenon, HoldersFinite
    <2>2. icache'[t].ref = Cardinality(Holders(ip, t)) + Cardinality(Holders(fd, t))
      BY Zenon, <1>7 DEF RefInv, Counted
    <2>3. CASE t = s BY <1>5, <1>6, <2>1, <2>2, <2>3 DEF More, Less
    <2>4. CASE t # s BY Zenon, <1>5, <1>6, <2>2, <2>4 DEF More, Less
    <2> QED BY Zenon, <2>3, <2>4
  <1> QED BY Zenon, <1>11, <1>12 DEF RefInv, Counted

LEMMA CloseKeeps == ASSUME RefInv, NEW p \in Procs, close(p) PROVE RefInv'
  <1>0. CallOK(pc[p], ip[p], fd[p]) BY Zenon DEF RefInv, EntryInv
  <1>1. PICK s \in Slots : s = fd[p] BY Zenon DEF close, RefInv, EntryInv, Pointers
  <1>2. ip[p] = None BY Zenon, <1>0, Place DEF close, CallOK, NoEntry
  <1>3. LetsGo(fd, fd', p, s) /\ Takes(ip, ip', p, s)
    BY Zenon, <1>1, <1>2 DEF LetsGo, Takes, close, RefInv, EntryInv
  <1>4. ip' \in Pointers /\ fd' \in Pointers BY Zenon, <1>3, PointerDropped, PointerTaken
  <1>5. Less(fd, fd', s) BY Zenon, <1>3, PointerDropped
  <1>6. More(ip, ip', s) BY Zenon, <1>3, PointerTaken
  <1>7. OnlyOf(p) /\ ip'[p] = s /\ fd'[p] = None
    BY Zenon, <1>1 DEF close, OnlyOf, RefInv, EntryInv, Pointers
  <1>8. Moves(p) /\ pc'[p] = <<"iput", "">> BY Zenon, Goes DEF close
  <1>9. CallOK(pc'[p], ip'[p], fd'[p]) BY Zenon, <1>7, <1>8, PutOK
  <1>10. icache' = icache BY Zenon DEF close
  <1>11. EntryInv' BY Zenon, <1>4, <1>7, <1>8, <1>9, <1>10, CallKeeps DEF RefInv, EntryInv, Entries
  <1>12. ASSUME NEW t \in Slots
         PROVE  icache'[t].ref = Cardinality(Holders(ip', t)) + Cardinality(Holders(fd', t))
    <2>1. Cardinality(Holders(ip, t)) \in Nat /\ Cardinality(Holders(fd, t)) \in Nat
      BY Zenon, HoldersFinite
    <2>2. icache'[t].ref = Cardinality(Holders(ip, t)) + Cardinality(Holders(fd, t))
      BY Zenon, <1>10 DEF RefInv, Counted
    <2>3. CASE t = s BY <1>5, <1>6, <2>1, <2>2, <2>3 DEF More, Less
    <2>4. CASE t # s BY Zenon, <1>5, <1>6, <2>2, <2>4 DEF More, Less
    <2> QED BY Zenon, <2>3, <2>4
  <1> QED BY Zenon, <1>11, <1>12 DEF RefInv, Counted

\* iget() for a call that has no entry yet.
LEMMA GetKeeps ==
    ASSUME RefInv, NEW p \in Procs, NEW i, NEW call, ip[p] = None,
           iget(p, i, call), UNCHANGED fd, call # "iput", call # "idle",
           call \in {"open", "reopen", "create"} => fd[p] = None
    PROVE  RefInv'
  <1> Entries BY Zenon DEF RefInv, EntryInv
  <1>1. Opening(<<call, "ilock">>) => fd[p] = None BY Zenon DEF Opening
  <1>2. CASE \E s \in First(Cached(i)) : /\ ip' = [ip EXCEPT ![p] = s]
                                         /\ icache' = [icache EXCEPT ![s].ref = @ + 1]
                                         /\ Goto(p, call, "ilock")
    <2>1. PICK s \in Slots : /\ ip' = [ip EXCEPT ![p] = s]
                             /\ icache' = [icache EXCEPT ![s].ref = @ + 1]
                             /\ Goto(p, call, "ilock")
      BY Zenon, <1>2 DEF First, Cached
    <2>2. Counts(s, icache[s].ref + 1) BY Zenon, <2>1 DEF Counts, Entries
    <2>3. Moves(p) /\ pc'[p] = <<call, "ilock">> BY Zenon, <2>1, Goes
    <2> QED BY Zenon, <1>1, <2>1, <2>2, <2>3, TakesKeeps
  <1>3. CASE \E s \in First(Free) :
                /\ ip' = [ip EXCEPT ![p] = s]
                /\ icache' = [icache EXCEPT ![s].inum = i, ![s].ref = 1, ![s].valid = 0]
                /\ Goto(p, call, "ilock")
    <2>1. PICK s \in First(Free) :
                /\ ip' = [ip EXCEPT ![p] = s]
                /\ icache' = [icache EXCEPT ![s].inum = i, ![s].ref = 1, ![s].valid = 0]
                /\ Goto(p, call, "ilock")
      BY Zenon, <1>3
    <2>2. s \in Slots /\ icache[s].ref = 0 BY Zenon DEF First, Free
    <2>3. Counts(s, icache[s].ref + 1) BY <2>1, <2>2 DEF Counts, Entries
    <2>4. Moves(p) /\ pc'[p] = <<call, "ilock">> BY Zenon, <2>1, Goes
    <2> QED BY Zenon, <1>1, <2>1, <2>2, <2>3, <2>4, TakesKeeps
  <1>4. CASE Goto(p, "iget", "panic") /\ UNCHANGED <<icache, ip>>
    <2>1. SameCounts BY Zenon, <1>4 DEF SameCounts, Entries
    <2>2. Moves(p) /\ pc'[p] = <<"iget", "panic">> BY Zenon, <1>4, Goes
    <2>3. CallOK(<<"iget", "panic">>, ip[p], fd[p]) BY Zenon DEF CallOK, HasEntry, Opening
    <2> QED BY Zenon, <1>4, <2>1, <2>2, <2>3, StaysKeeps
  <1> QED BY Zenon, <1>2, <1>3, <1>4 DEF iget

-----------------------------------------------------------------------------

LEMMA RefInit == InodeInit => RefInv
  <1> SUFFICES ASSUME InodeInit PROVE RefInv BY Zenon
  <1>0. \A q \in Procs : CallOK(pc[q], ip[q], fd[q])
    BY Zenon DEF InodeInit, CallOK, HasEntry, Opening
  <1>1. EntryInv BY Zenon, <1>0 DEF InodeInit, EntryInv, Entries, Pointers
  <1>2. ASSUME NEW s \in Slots PROVE Holders(ip, s) = {} /\ Holders(fd, s) = {}
    BY Zenon, NoneNoSlot DEF InodeInit, Holders
  <1>3. Cardinality({}) = 0 BY Zenon, FS_EmptySet
  <1>4. ASSUME NEW s \in Slots PROVE icache[s].ref = 0 BY Zenon DEF InodeInit
  <1>5. Counted BY <1>2, <1>3, <1>4 DEF Counted
  <1> QED BY Zenon, <1>1, <1>5 DEF RefInv

LEMMA RefStep == RefInv /\ [InodeNext]_inodeVars => RefInv'
  <1> SUFFICES ASSUME RefInv, [InodeNext]_inodeVars PROVE RefInv' BY Zenon
  <1>0. CASE UNCHANGED inodeVars
    BY <1>0 DEF inodeVars, RefInv, EntryInv, Entries, Counted, Holders
  <1>1. SUFFICES ASSUME NEW p \in Procs, Step(p) \/ Call(p) PROVE RefInv'
    BY Zenon, <1>0 DEF InodeNext
  <1> DEFINE Now == Entries /\ CallOK(pc[p], ip[p], fd[p])
  <1>n. Now BY Zenon DEF RefInv, EntryInv
  <1>2. CASE iput(p)
    <2>0. At(p, "iput", "") /\ fd' = fd BY Zenon, <1>2 DEF iput
    <2>s. PICK s \in Slots : s = ip[p] BY Zenon, <2>0, <1>n, Place DEF CallOK, HasEntry
    <2>1. CASE Goto(p, "iput", "free") /\ UNCHANGED <<icache, ip>>
      <3>1. SameCounts BY Zenon, <2>1, <1>n DEF SameCounts, Entries
      <3>2. Moves(p) /\ pc'[p] = <<"iput", "free">> BY Zenon, <2>1, Goes
      <3>3. CallOK(<<"iput", "free">>, ip[p], fd[p]) BY Zenon, <2>s DEF CallOK, NoEntry, Opening
      <3> QED BY Zenon, <2>0, <2>1, <3>1, <3>2, <3>3, StaysKeeps
    <2>2. CASE /\ icache' = [icache EXCEPT ![ip[p]].ref = @ - 1]
               /\ ip' = [ip EXCEPT ![p] = None]
               /\ Goto(p, "idle", "")
      <3>1. Counts(s, icache[s].ref - 1) BY Zenon, <2>2, <2>s, <1>n DEF Counts, Entries
      <3>2. Moves(p) /\ pc'[p] = <<"idle", "">> BY Zenon, <2>2, Goes
      <3> QED BY Zenon, <2>0, <2>s, <2>2, <3>1, <3>2, DropsKeeps
    <2> QED BY Zenon, <1>2, <2>1, <2>2 DEF iput
  <1>3. CASE iput_free(p)
    <2>1. UNCHANGED <<ip, fd>> BY Zenon, <1>3 DEF iput_free
    <2>2. SameCounts BY Zenon, <1>3, <1>n DEF iput_free, SameCounts, Entries
    <2>3. Moves(p) /\ pc'[p] = <<"iput", "end">> BY Zenon, <1>3, Goes DEF iput_free
    <2>4. CallOK(<<"iput", "end">>, ip[p], fd[p]) BY Zenon, <1>3, <1>n, Place DEF iput_free, CallOK, HasEntry, NoEntry, Opening
    <2> QED BY Zenon, <2>1, <2>2, <2>3, <2>4, StaysKeeps
  <1>4. CASE iput_end(p)
    <2>1. PICK s \in Slots : s = ip[p] BY Zenon, <1>4, <1>n, Place DEF iput_end, CallOK, HasEntry
    <2>2. Counts(s, icache[s].ref - 1) BY Zenon, <1>4, <2>1, <1>n DEF iput_end, Counts, Entries
    <2>3. Moves(p) /\ pc'[p] = <<"idle", "">> BY Zenon, <1>4, Goes DEF iput_end
    <2> QED BY Zenon, <1>4, <2>1, <2>2, <2>3, DropsKeeps DEF iput_end
  <1>5. ASSUME NEW call \in {"open", "link"}, namei(p, call) PROVE RefInv'
    <2>0. ip[p] = None /\ (call = "open" => fd[p] = None)
      BY Zenon, <1>5, <1>n, Place DEF namei, CallOK, NoEntry, Opening
    <2>1. CASE dir[Old(p)] = 0
      <3>1. UNCHANGED <<ip, fd>> BY Zenon, <1>5, <2>0, <2>1 DEF namei
      <3>2. SameCounts BY Zenon, <1>5, <2>0, <2>1, <1>n DEF namei, SameCounts, Entries
      <3>3. Moves(p) /\ pc'[p] = <<"idle", "">> BY Zenon, <1>5, <2>0, <2>1, Goes DEF namei
      <3>4. CallOK(<<"idle", "">>, ip[p], fd[p]) BY Zenon, <1>5, <2>0, <2>1, <1>n DEF namei, CallOK, HasEntry, NoEntry, Opening
      <3> QED BY Zenon, <3>1, <3>2, <3>3, <3>4, StaysKeeps
    <2>2. CASE dir[Old(p)] # 0 BY Zenon, <1>5, <2>2, <2>0, GetKeeps DEF namei
    <2> QED BY Zenon, <2>1, <2>2
  <1>6. ASSUME NEW call \in {"open", "reopen", "create", "link", "badlink", "unlink"},
               ilock(p, call) \/ ilock_read(p, call)
        PROVE  RefInv'
    <2>1. CASE ilock(p, call)
      <3> DEFINE a == IF icache[ip[p]].valid = 1 THEN "locked" ELSE "read"
      <3>1. UNCHANGED <<ip, fd>> BY Zenon, <2>1 DEF ilock
      <3>2. SameCounts BY Zenon, <2>1, <1>n DEF ilock, SameCounts, Entries
      <3>3. Moves(p) /\ pc'[p] = <<call, a>> BY <2>1, Goes DEF ilock
      <3>4. CallOK(<<call, a>>, ip[p], fd[p]) BY Zenon, <2>1, <1>n, Place DEF ilock, CallOK, HasEntry, NoEntry, Opening
      <3> QED BY Zenon, <3>1, <3>2, <3>3, <3>4, StaysKeeps
    <2>2. CASE ilock_read(p, call)
      <3> DEFINE a == IF dinode[icache[ip[p]].inum].type = 0 THEN "panic" ELSE "locked"
      <3>1. UNCHANGED <<ip, fd>> BY Zenon, <2>2 DEF ilock_read
      <3>2. SameCounts BY Zenon, <2>2, <1>n DEF ilock_read, SameCounts, Entries
      <3>3. Moves(p) /\ pc'[p] = <<call, a>> BY Zenon, <2>2, Goes DEF ilock_read
      <3>4. CallOK(<<call, a>>, ip[p], fd[p]) BY Zenon, <2>2, <1>n, Place DEF ilock_read, CallOK, HasEntry, NoEntry, Opening
      <3> QED BY Zenon, <3>1, <3>2, <3>3, <3>4, StaysKeeps
    <2> QED BY Zenon, <1>6, <2>1, <2>2
  <1>7. CASE opened(p) BY Zenon, <1>7, OpenedKeeps
  <1>8. CASE open_fails(p)
    <2>1. UNCHANGED <<ip, fd>> BY Zenon, <1>8 DEF open_fails
    <2>2. SameCounts BY Zenon, <1>8, <1>n DEF open_fails, SameCounts, Entries
    <2>3. Moves(p) /\ pc'[p] = <<"iput", "">> BY Zenon, <1>8, Goes DEF open_fails
    <2>4. CallOK(<<"iput", "">>, ip[p], fd[p]) BY Zenon, <1>8, <1>n, Place DEF open_fails, CallOK, HasEntry, NoEntry, Opening
    <2> QED BY Zenon, <2>1, <2>2, <2>3, <2>4, StaysKeeps
  <1>9. CASE create(p)
    <2>0. ip[p] = None /\ fd[p] = None
      BY Zenon, <1>9, <1>n, Place DEF create, CallOK, NoEntry, Opening
    <2>1. CASE dir[Old(p)] = 0
      <3>1. UNCHANGED <<ip, fd>> BY Zenon, <1>9, <2>0, <2>1 DEF create
      <3>2. SameCounts BY Zenon, <1>9, <2>0, <2>1, <1>n DEF create, SameCounts, Entries
      <3>3. Moves(p) /\ pc'[p] = <<"create", "ialloc">>
        BY Zenon, <1>9, <2>1 DEF create, Moves, RefInv, EntryInv
      <3>4. CallOK(<<"create", "ialloc">>, ip[p], fd[p]) BY Zenon, <1>9, <2>0, <2>1, <1>n DEF create, CallOK, HasEntry, NoEntry, Opening
      <3> QED BY Zenon, <3>1, <3>2, <3>3, <3>4, StaysKeeps
    <2>2. CASE dir[Old(p)] # 0 BY Zenon, <1>9, <2>2, <2>0, GetKeeps DEF create
    <2> QED BY Zenon, <2>1, <2>2
  <1>10. CASE ialloc(p)
    <2>0. ip[p] = None /\ fd[p] = None
      BY Zenon, <1>10, <1>n, Place DEF ialloc, CallOK, NoEntry, Opening
    <2>1. UNCHANGED <<ip, fd>> BY Zenon, <1>10 DEF ialloc
    <2>2. SameCounts BY Zenon, <1>10, <1>n DEF ialloc, SameCounts, Entries
    <2>3. CASE Goto(p, "ialloc", "panic")
      <3>1. Moves(p) /\ pc'[p] = <<"ialloc", "panic">> BY Zenon, <2>3, Goes
      <3>2. CallOK(<<"ialloc", "panic">>, ip[p], fd[p]) BY Zenon, <2>0 DEF CallOK, HasEntry
      <3> QED BY Zenon, <2>1, <2>2, <3>1, <3>2, StaysKeeps
    <2>4. CASE UNCHANGED pc
      <3>1. Moves(p) /\ pc'[p] = <<"create", "ialloc">>
        BY Zenon, <1>10, <2>4 DEF ialloc, At, Moves, RefInv, EntryInv
      <3>2. CallOK(<<"create", "ialloc">>, ip[p], fd[p]) BY Zenon, <2>0 DEF CallOK, HasEntry
      <3> QED BY Zenon, <2>1, <2>2, <3>1, <3>2, StaysKeeps
    <2>5. CASE Goto(p, "create", "iget")
      <3>1. Moves(p) /\ pc'[p] = <<"create", "iget">> BY Zenon, <2>5, Goes
      <3>2. CallOK(<<"create", "iget">>, ip[p], fd[p]) BY Zenon, <2>0 DEF CallOK, HasEntry
      <3> QED BY Zenon, <2>1, <2>2, <3>1, <3>2, StaysKeeps
    <2> QED BY Zenon, <1>10, <2>3, <2>4, <2>5 DEF ialloc
  <1>11. CASE ialloc_iget(p)
    <2>1. ip[p] = None /\ fd[p] = None
      BY Zenon, <1>11, <1>n, Place DEF ialloc_iget, CallOK, NoEntry, Opening
    <2> QED BY Zenon, <1>11, <2>1, GetKeeps DEF ialloc_iget
  <1>12. CASE created(p)
    <2>1. UNCHANGED <<ip, fd>> BY Zenon, <1>12 DEF created
    <2>2. SameCounts BY Zenon, <1>12, <1>n DEF created, SameCounts, Entries
    <2>3. Moves(p) /\ pc'[p] = <<"open", "locked">> BY Zenon, <1>12, Goes DEF created
    <2>4. CallOK(<<"open", "locked">>, ip[p], fd[p]) BY Zenon, <1>12, <1>n, Place DEF created, CallOK, HasEntry, NoEntry, Opening
    <2> QED BY Zenon, <2>1, <2>2, <2>3, <2>4, StaysKeeps
  <1>13. CASE link_inc(p)
    <2>1. UNCHANGED <<ip, fd>> BY Zenon, <1>13 DEF link_inc
    <2>2. SameCounts BY Zenon, <1>13, <1>n DEF link_inc, SameCounts, Entries
    <2>3. Moves(p) /\ pc'[p] = <<"link", "dirlink">> BY Zenon, <1>13, Goes DEF link_inc
    <2>4. CallOK(<<"link", "dirlink">>, ip[p], fd[p]) BY Zenon, <1>13, <1>n, Place DEF link_inc, CallOK, HasEntry, NoEntry, Opening
    <2> QED BY Zenon, <2>1, <2>2, <2>3, <2>4, StaysKeeps
  <1>14. CASE dirlink(p)
    <2>0. ip[p] \in Slots BY Zenon, <1>14, <1>n, Place DEF dirlink, CallOK, HasEntry
    <2>1. UNCHANGED <<ip, fd>> /\ SameCounts BY Zenon, <1>14, <1>n DEF dirlink, SameCounts, Entries
    <2>2. CASE Goto(p, "badlink", "ilock")
      <3>1. Moves(p) /\ pc'[p] = <<"badlink", "ilock">> BY Zenon, <2>2, Goes
      <3>2. CallOK(<<"badlink", "ilock">>, ip[p], fd[p]) BY Zenon, <2>0 DEF CallOK, NoEntry, Opening
      <3> QED BY Zenon, <2>1, <3>1, <3>2, StaysKeeps
    <2>3. CASE Goto(p, "iput", "")
      <3>1. Moves(p) /\ pc'[p] = <<"iput", "">> BY Zenon, <2>3, Goes
      <3>2. CallOK(<<"iput", "">>, ip[p], fd[p]) BY Zenon, <2>0 DEF CallOK, NoEntry, Opening
      <3> QED BY Zenon, <2>1, <3>1, <3>2, StaysKeeps
    <2>4. CASE Goto(p, "iget", "panic")
      <3>1. Moves(p) /\ pc'[p] = <<"iget", "panic">> BY Zenon, <2>4, Goes
      <3>2. CallOK(<<"iget", "panic">>, ip[p], fd[p]) BY Zenon DEF CallOK, HasEntry, NoEntry, Opening
      <3> QED BY Zenon, <2>1, <3>1, <3>2, StaysKeeps
    <2> QED BY Zenon, <1>14, <2>2, <2>3, <2>4 DEF dirlink
  <1>15. CASE nlink_dec(p)
    <2>1. UNCHANGED <<ip, fd>> BY Zenon, <1>15 DEF nlink_dec
    <2>2. SameCounts BY Zenon, <1>15, <1>n DEF nlink_dec, SameCounts, Entries
    <2>3. Moves(p) /\ pc'[p] = <<"iput", "">> BY Zenon, <1>15, Goes DEF nlink_dec
    <2>4. CallOK(<<"iput", "">>, ip[p], fd[p]) BY Zenon, <1>15, <1>n, Place DEF nlink_dec, CallOK, HasEntry, NoEntry, Opening
    <2> QED BY Zenon, <2>1, <2>2, <2>3, <2>4, StaysKeeps
  <1>16. CASE unlink(p)
    <2>0. ip[p] = None BY Zenon, <1>16, <1>n, Place DEF unlink, CallOK, NoEntry
    <2>1. CASE dir[Old(p)] = 0
      <3>1. UNCHANGED <<ip, fd>> BY Zenon, <1>16, <2>0, <2>1 DEF unlink
      <3>2. SameCounts BY Zenon, <1>16, <2>0, <2>1, <1>n DEF unlink, SameCounts, Entries
      <3>3. Moves(p) /\ pc'[p] = <<"idle", "">> BY Zenon, <1>16, <2>0, <2>1, Goes DEF unlink
      <3>4. CallOK(<<"idle", "">>, ip[p], fd[p]) BY Zenon, <1>16, <2>0, <2>1, <1>n DEF unlink, CallOK, HasEntry, NoEntry, Opening
      <3> QED BY Zenon, <3>1, <3>2, <3>3, <3>4, StaysKeeps
    <2>2. CASE dir[Old(p)] # 0 BY Zenon, <1>16, <2>2, <2>0, GetKeeps DEF unlink
    <2> QED BY Zenon, <2>1, <2>2
  <1>17. CASE unlink_entry(p)
    <2>0. ip[p] \in Slots BY Zenon, <1>17, <1>n, Place DEF unlink_entry, CallOK, HasEntry
    <2>1. UNCHANGED <<ip, fd>> /\ SameCounts BY Zenon, <1>17, <1>n DEF unlink_entry, SameCounts, Entries
    <2>2. PICK a \in {"panic", "dec"} : Moves(p) /\ pc'[p] = <<"unlink", a>>
      BY Zenon, <1>17, Goes DEF unlink_entry
    <2>3. CallOK(<<"unlink", a>>, ip[p], fd[p]) BY Zenon, <2>0 DEF CallOK, NoEntry, Opening
    <2> QED BY Zenon, <2>1, <2>2, <2>3, StaysKeeps
  <1>18. CASE close(p) BY Zenon, <1>18, CloseKeeps
  <1>19. ASSUME NEW call \in Calls \ {"close"}, NEW m, NEW n, syscall(p, call, m, n) PROVE RefInv'
    <2>1. UNCHANGED <<ip, fd>> /\ SameCounts BY Zenon, <1>19, <1>n DEF syscall, SameCounts, Entries
    <2>2. Moves(p) /\ pc'[p] = <<call, "start">> BY Zenon, <1>19 DEF syscall, Moves, RefInv, EntryInv
    <2>3. ip[p] = None BY Zenon, <1>19, <1>n, Place DEF syscall, CallOK, NoEntry
    <2>4. Opening(<<call, "start">>) => fd[p] = None
      BY Zenon, <1>19, InodeAssumption DEF syscall, Opening
    <2>5. ~HasEntry(<<call, "start">>) BY Zenon, <1>19, InodeAssumption DEF HasEntry
    <2>6. CallOK(<<call, "start">>, ip[p], fd[p]) BY Zenon, <2>3, <2>4, <2>5 DEF CallOK
    <2> QED BY Zenon, <2>1, <2>2, <2>6, StaysKeeps
  <1>20. CASE Step(p)
    BY Zenon, <1>20, <1>2, <1>3, <1>4, <1>5, <1>6, <1>7, <1>8, <1>9, <1>10, <1>11, <1>12, <1>13, <1>14,
       <1>15, <1>16, <1>17 DEF Step
  <1>21. CASE Call(p) BY Zenon, <1>21, <1>18, <1>19 DEF Call
  <1> QED BY Zenon, <1>1, <1>20, <1>21

\* The ref of an entry of the inode cache is the number of pointers to it,
\* of calls under way and of open files, so that iget() never takes an
\* entry that somebody uses for another inode: fs.c's comment on ip->ref.
THEOREM InodeRefs == InodeSpec => []RefsCounted
  <1>1. RefInv => RefsCounted BY Zenon DEF RefInv, Counted, Holders, RefsCounted
  <1> QED BY <1>1, RefInit, RefStep, PTL DEF InodeSpec

-----------------------------------------------------------------------------
(***************************************************************************)
(* The directory tree, for any number of processes, names and inodes and   *)
(* for paths of any length: a process keeps its working directory, a walk  *)
(* lands on inodes in use, and link counts are exact.                      *)
(*                                                                         *)
(* WorkingDirKept needs, besides types, that a walk is at an inode as long *)
(* as its call lasts.  Every call ends in the iput() of what it no longer  *)
(* refers to, which spares the working directories; create() takes an      *)
(* inode that is free, so no working directory; and chdir() looks at the   *)
(* type of the directory, which it has locked, before it moves there.      *)
(*                                                                         *)
(* WalkFindsInode needs the whole tree: a hop is safe because an entry, or *)
(* the "..", of a directory that still has a link names an inode with a    *)
(* link, which follows from exact counts, unique names, and removed        *)
(* directories being empty.                                                *)
(***************************************************************************)

Types == {"free", "dir", "file"}
Walks == [op : {"none", "mkdir", "create", "unlink", "chdir"}, at : 0 .. NDirInodes,
          path : Seq(Elements), gone : BOOLEAN]

DirInv == /\ cwd \in [DirProcs -> Inum]
          /\ type \in [Inum -> Types]
          /\ entry \in [Inum -> [DirNames -> 0 .. NDirInodes]]
          /\ dotdot \in [Inum -> 0 .. NDirInodes]
          /\ walk \in [DirProcs -> Walks]
          /\ \A p \in DirProcs : walk[p].op # "none" => walk[p].at \in Inum
          /\ WorkingDirKept

\* The end of a step: what is typed stays so, and a working directory keeps
\* the type the step gave it.
LEMMA PutKeeps ==
    ASSUME NEW ty \in [Inum -> Types], NEW nl,
           NEW en \in [Inum -> [DirNames -> 0 .. NDirInodes]], NEW dd \in [Inum -> 0 .. NDirInodes],
           cwd' \in [DirProcs -> Inum], \A p \in DirProcs : ty[cwd'[p]] = "dir", Put(ty, nl, en, dd)
    PROVE  /\ type' \in [Inum -> Types]
           /\ entry' \in [Inum -> [DirNames -> 0 .. NDirInodes]]
           /\ dotdot' \in [Inum -> 0 .. NDirInodes]
           /\ WorkingDirKept'
<1> DEFINE dead == {i \in Inum : ty[i] # "free" /\ Unused(i, Referenced(cwd', walk'), nl)}
<1>1. /\ type' = [i \in Inum |-> IF i \in dead THEN "free" ELSE ty[i]]
      /\ entry' = [i \in Inum |-> IF i \in dead THEN NoEntries ELSE en[i]]
      /\ dotdot' = [i \in Inum |-> IF i \in dead THEN 0 ELSE dd[i]]
    BY Zenon DEF Put
<1>2. \A p \in DirProcs : cwd'[p] \notin dead
    BY Zenon DEF Unused, Referenced
<1> HIDE DEF dead
<1>3. type' \in [Inum -> Types] /\ dotdot' \in [Inum -> 0 .. NDirInodes]
    BY <1>1, DirsAssumption DEF Types
<1>4. entry' \in [Inum -> [DirNames -> 0 .. NDirInodes]]
    BY <1>1, DirsAssumption DEF NoEntries
<1>5. WorkingDirKept'
    BY Zenon, <1>1, <1>2 DEF WorkingDirKept
<1> QED
    BY Zenon, <1>3, <1>4, <1>5

LEMMA ReturnKeeps ==
    ASSUME DirInv, NEW p \in DirProcs, Return(p)
    PROVE  /\ walk' \in [DirProcs -> Walks]
           /\ \A q \in DirProcs : walk'[q].op # "none" => walk'[q].at \in Inum
<1>1. NoWalk \in Walks
    BY DirsAssumption DEF NoWalk, Walks
<1>2. walk' = [walk EXCEPT ![p] = NoWalk]
    BY Zenon DEF Return
<1> QED
    BY Zenon, <1>1, <1>2 DEF DirInv, NoWalk

LEMMA PathCallPreserves ==
    ASSUME DirInv, NEW p \in DirProcs, NEW op \in {"mkdir", "create", "unlink", "chdir"},
           NEW d \in Inum, NEW path \in Paths, path_call(p, op, d, path)
    PROVE  DirInv'
<1> DEFINE w == [op |-> op, at |-> d, path |-> path, gone |-> FALSE]
<1>1. w \in Walks
    BY DirsAssumption DEF Walks, Inum
<1>2. walk' = [walk EXCEPT ![p] = w] /\ UNCHANGED <<type, entry, dotdot, cwd>>
    BY Zenon DEF path_call
<1>3. walk' \in [DirProcs -> Walks]
    BY Zenon, <1>1, <1>2 DEF DirInv
<1>4. \A q \in DirProcs : walk'[q].op # "none" => walk'[q].at \in Inum
    BY Zenon, <1>2 DEF DirInv
<1> QED
    BY Zenon, <1>2, <1>3, <1>4 DEF DirInv, WorkingDirKept

\* dirlookup() finds an inum or nothing.
LEMMA FoundTyped ==
    ASSUME DirInv, NEW p \in DirProcs, walk[p].op # "none", walk[p].path # <<>>
    PROVE  Found(walk[p]) \in 0 .. NDirInodes
<1>1. walk[p] \in Walks /\ walk[p].at \in Inum
    BY Zenon DEF DirInv
<1>2. Head(walk[p].path) \in Elements
    BY <1>1 DEF Walks
<1>3. walk[p].at \in 0 .. NDirInodes /\ dotdot[walk[p].at] \in 0 .. NDirInodes
    BY <1>1 DEF DirInv, Inum
<1>4. \A n \in DirNames : entry[walk[p].at][n] \in 0 .. NDirInodes
    BY Zenon, <1>1 DEF DirInv
<1> QED
    BY Zenon, <1>2, <1>3, <1>4 DEF Found, skipelem, dirlookup, Elements

LEMMA HopsLeft ==
    ASSUME DirInv, NEW p \in DirProcs, Hops(walk[p]) > 0
    PROVE  walk[p].path # <<>>
<1> DEFINE w == walk[p]
<1>1. w.path \in Seq(Elements) /\ Len(w.path) \in Nat
    BY DEF DirInv, Walks
<1>2. Len(w.path) > 0
  <2>1. CASE w.op = "chdir"
    BY <2>1, <1>1 DEF Hops
  <2>2. CASE w.op # "chdir"
    BY <2>2, <1>1 DEF Hops
  <2> QED
    BY Zenon, <2>1, <2>2
<1> QED
    BY <1>1, <1>2

LEMMA NamexPreserves ==
    ASSUME DirInv, NEW p \in DirProcs, namex(p)
    PROVE  DirInv'
<1> DEFINE w == walk[p]
<1>1. w \in Walks /\ w.op # "none" /\ cwd' = cwd /\ Put(type, nlink, entry, dotdot)
    BY Zenon DEF namex, ilock_ok, DirInv
<1>2. w.path # <<>> /\ w.path \in Seq(Elements)
  <2>1. Hops(w) > 0
    BY Zenon DEF namex
  <2> QED
    BY Zenon, <2>1, <1>1, HopsLeft DEF Walks
<1>3. /\ walk' \in [DirProcs -> Walks]
      /\ \A q \in DirProcs : walk'[q].op # "none" => walk'[q].at \in Inum
  <2>1. CASE type[w.at] = "dir" /\ Found(w) # 0
    <3> DEFINE w2 == [w EXCEPT !.at = Found(w), !.path = skipelem(@).rest, !.gone = nlink[w.at] = 0]
    <3>1. Found(w) \in Inum
      BY <2>1, <1>1, <1>2, FoundTyped DEF Inum
    <3>2. walk' = [walk EXCEPT ![p] = w2]
      BY Zenon, <2>1 DEF namex
    <3>3. Tail(w.path) \in Seq(Elements) /\ Found(w) \in 0 .. NDirInodes
      BY <3>1, <1>2 DEF Inum
    <3>4. w2 \in Walks /\ w2.at = Found(w)
      BY Zenon, <3>3, <1>1 DEF Walks, skipelem
    <3> HIDE DEF w2
    <3>5. walk' \in [DirProcs -> Walks]
      BY Zenon, <3>2, <3>4 DEF DirInv
    <3>6. \A q \in DirProcs : walk'[q].op # "none" => walk'[q].at \in Inum
      BY Zenon, <3>1, <3>2, <3>4 DEF DirInv
    <3> QED
      BY Zenon, <3>5, <3>6
  <2>2. CASE ~(type[w.at] = "dir" /\ Found(w) # 0)
    BY Zenon, <2>2, ReturnKeeps DEF namex
  <2> QED
    BY Zenon, <2>1, <2>2
<1>4. /\ type' \in [Inum -> Types] /\ entry' \in [Inum -> [DirNames -> 0 .. NDirInodes]]
      /\ dotdot' \in [Inum -> 0 .. NDirInodes] /\ WorkingDirKept'
    BY Zenon, <1>1, PutKeeps DEF DirInv, WorkingDirKept
<1> QED
    BY Zenon, <1>1, <1>3, <1>4 DEF DirInv

\* The steps that return, given what they leave to Put.
LEMMA ReturnPreserves ==
    ASSUME DirInv, NEW p \in DirProcs, Return(p), cwd' \in [DirProcs -> Inum],
           NEW ty \in [Inum -> Types], \A q \in DirProcs : ty[cwd'[q]] = "dir", NEW nl,
           NEW en \in [Inum -> [DirNames -> 0 .. NDirInodes]], NEW dd \in [Inum -> 0 .. NDirInodes],
           Put(ty, nl, en, dd)
    PROVE  DirInv'
<1>1. /\ type' \in [Inum -> Types] /\ entry' \in [Inum -> [DirNames -> 0 .. NDirInodes]]
      /\ dotdot' \in [Inum -> 0 .. NDirInodes] /\ WorkingDirKept'
    BY Zenon, PutKeeps
<1> QED
    BY Zenon, <1>1, ReturnKeeps DEF DirInv

\* An entry is written.
LEMMA EntryTyped ==
    ASSUME DirInv, NEW d \in Inum, NEW n, NEW i \in 0 .. NDirInodes
    PROVE  [entry EXCEPT ![d][n] = i] \in [Inum -> [DirNames -> 0 .. NDirInodes]]
<1>1. [entry[d] EXCEPT ![n] = i] \in [DirNames -> 0 .. NDirInodes]
    BY Zenon DEF DirInv
<1> QED
    BY Zenon, <1>1 DEF DirInv

LEMMA CreatePreserves ==
    ASSUME DirInv, NEW p \in DirProcs, create_found(p) \/ create_new(p)
    PROVE  DirInv'
<1>1. CASE create_found(p)
    BY Zenon, <1>1, ReturnPreserves DEF create_found, DirInv, WorkingDirKept
<1>2. CASE create_new(p)
  <2> DEFINE w == walk[p]
             kind == IF w.op = "mkdir" THEN "dir" ELSE "file"
             ty(new) == [type EXCEPT ![new] = kind]
             en(new) == [entry EXCEPT ![w.at][skipelem(w.path).name] = new]
             dd(new) == [dotdot EXCEPT ![new] = IF kind = "dir" THEN w.at ELSE 0]
  <2>1. Return(p) /\ cwd' = cwd /\ w.at \in Inum
    BY Zenon, <1>2 DEF create_new, AtParent, ilock_ok, DirInv
  <2>2. PICK new, nl : new \in Inum /\ type[new] = "free" /\ Put(ty(new), nl, en(new), dd(new))
    BY Zenon, <1>2 DEF create_new
  <2>3. kind \in Types
    BY Zenon DEF Types
  <2> HIDE DEF kind
  <2>4. ty(new) \in [Inum -> Types] /\ dd(new) \in [Inum -> 0 .. NDirInodes]
    BY <2>1, <2>2, <2>3, DirsAssumption DEF DirInv, Inum
  <2>5. en(new) \in [Inum -> [DirNames -> 0 .. NDirInodes]]
    <3>1. new \in 0 .. NDirInodes
      BY <2>2 DEF Inum
    <3> QED
      BY Zenon, <3>1, <2>1, EntryTyped
  <2>6. \A q \in DirProcs : ty(new)[cwd'[q]] = "dir"
    BY Zenon, <2>1, <2>2 DEF DirInv, WorkingDirKept
  <2> QED
    BY Zenon, <2>1, <2>2, <2>4, <2>5, <2>6, ReturnPreserves DEF DirInv
<1> QED
    BY Zenon, <1>1, <1>2

LEMMA UnlinkPreserves ==
    ASSUME DirInv, NEW p \in DirProcs, sys_unlink(p)
    PROVE  DirInv'
<1> DEFINE w == walk[p]
           en == [entry EXCEPT ![w.at][skipelem(w.path).name] = 0]
<1>1. Return(p) /\ cwd' = cwd /\ w.at \in Inum
    BY Zenon DEF sys_unlink, AtParent, ilock_ok, DirInv
<1>2. en \in [Inum -> [DirNames -> 0 .. NDirInodes]]
  <2>1. 0 \in 0 .. NDirInodes
    BY DirsAssumption
  <2> QED
    BY Zenon, <2>1, <1>1, EntryTyped
<1>3. PICK nl, e : e \in {entry, en} /\ Put(type, nl, e, dotdot)
    BY Zenon DEF sys_unlink
<1> QED
    BY ZenonT(30), <1>1, <1>2, <1>3, ReturnPreserves DEF DirInv, WorkingDirKept

LEMMA ChdirPreserves ==
    ASSUME DirInv, NEW p \in DirProcs, sys_chdir(p)
    PROVE  DirInv'
<1>1. /\ Return(p) /\ Put(type, nlink, entry, dotdot) /\ walk[p].at \in Inum
      /\ cwd' = IF type[walk[p].at] = "dir" THEN [cwd EXCEPT ![p] = walk[p].at] ELSE cwd
    BY Zenon DEF sys_chdir, AtParent, ilock_ok, DirInv
<1>2. cwd' \in [DirProcs -> Inum] /\ \A q \in DirProcs : type[cwd'[q]] = "dir"
    BY Zenon, <1>1 DEF DirInv, WorkingDirKept
<1> QED
    BY Zenon, <1>1, <1>2, ReturnPreserves DEF DirInv

LEMMA DirInvInit == DirInit => DirInv
<1> SUFFICES ASSUME DirInit PROVE DirInv
    BY Zenon
<1>1. ROOTINO \in Inum /\ NoWalk \in Walks
    BY DirsAssumption DEF Inum, ROOTINO, NoWalk, Walks
<1>2. cwd \in [DirProcs -> Inum] /\ type \in [Inum -> Types]
    BY Zenon, <1>1 DEF DirInit, Types
<1>3. entry \in [Inum -> [DirNames -> 0 .. NDirInodes]] /\ dotdot \in [Inum -> 0 .. NDirInodes]
    BY <1>1, DirsAssumption DEF DirInit, NoEntries, Inum
<1>4. /\ walk \in [DirProcs -> Walks]
      /\ \A p \in DirProcs : walk[p].op # "none" => walk[p].at \in Inum
    BY Zenon, <1>1 DEF DirInit, NoWalk
<1>5. WorkingDirKept
    BY Zenon, <1>1 DEF DirInit, WorkingDirKept
<1> QED
    BY Zenon, <1>2, <1>3, <1>4, <1>5 DEF DirInv

LEMMA DirInvStep == DirInv /\ [DirNext]_dirVars => DirInv'
<1> SUFFICES ASSUME DirInv, [DirNext]_dirVars PROVE DirInv'
    BY Zenon
<1>1. CASE UNCHANGED dirVars
    BY Zenon, <1>1 DEF dirVars, DirInv, WorkingDirKept
<1>2. ASSUME NEW p \in DirProcs, NEW d \in Inum, NEW path \in Paths,
             \/ sys_mkdir(p, d, path) \/ sys_mknod(p, d, path)
             \/ path_call(p, "unlink", d, path) \/ path_call(p, "chdir", d, path)
      PROVE  DirInv'
    BY Zenon, <1>2, PathCallPreserves DEF sys_mkdir, sys_mknod
<1>3. ASSUME NEW p \in DirProcs, ilock_panic(p) PROVE DirInv'
    BY Zenon, <1>3 DEF ilock_panic, DirInv, WorkingDirKept
<1>4. ASSUME NEW p \in DirProcs,
             namex(p) \/ create_found(p) \/ create_new(p) \/ sys_unlink(p) \/ sys_chdir(p)
      PROVE  DirInv'
    BY Zenon, <1>4, NamexPreserves, CreatePreserves, UnlinkPreserves, ChdirPreserves
<1> QED
    BY Zenon, <1>1, <1>2, <1>3, <1>4 DEF DirNext

(* Whatever directories are removed, and by whom, every process's working  *)
(* directory stays one: sys_chdir() takes a reference to it, and iput()    *)
(* frees no inode to which there is one.                                   *)
THEOREM WorkingDir == DirSpec => []WorkingDirKept
<1>1. DirInv => WorkingDirKept
    BY Zenon DEF DirInv
<1> QED
    BY <1>1, DirInvInit, DirInvStep, PTL DEF DirSpec

-----------------------------------------------------------------------------
(* The tree.  Types, links, entries and ".." are parameters, since a call  *)
(* has two of each: what it leaves, and what remains after the iput() of   *)
(* what it no longer refers to.                                            *)
IsNamed(en, i) == \E d \in Inum, n \in DirNames : en[d][n] = i
Kids(ty, en, i) == {c \in Inum : ty[c] = "dir" /\ \E n \in DirNames : en[i][n] = c}

\* Names are unique, ".." is the inverse of a name, and what has lost its
\* name has no entries.
Shape(ty, en, dd) ==
    /\ ty[ROOTINO] = "dir" /\ dd[ROOTINO] = ROOTINO
    /\ \A i \in Inum : ty[i] = "dir" => dd[i] \in Inum
    /\ \A i \in Inum : ty[i] # "dir" => \A n \in DirNames : en[i][n] = 0
    /\ \A i \in Inum \ {ROOTINO} : ~IsNamed(en, i) => \A n \in DirNames : en[i][n] = 0
    /\ \A d \in Inum, n \in DirNames : en[d][n] # 0 =>
          /\ ty[en[d][n]] # "free" /\ en[d][n] \notin {d, ROOTINO}
          /\ ty[en[d][n]] = "dir" => dd[en[d][n]] = d
          /\ \A e \in Inum, m \in DirNames : en[e][m] = en[d][n] => e = d /\ m = n

\* Who counts as a link to inode i.
LinksTo(ty, en, i) ==
    (IF IsNamed(en, i) \/ i = ROOTINO THEN 1 ELSE 0) + Cardinality(Kids(ty, en, i))

Links(ty, nl, en) ==
    /\ nl \in [Inum -> Int]
    /\ \A i \in Inum : nl[i] = IF ty[i] = "free" THEN 0 ELSE LinksTo(ty, en, i)

TreeInv == ~late => Shape(type, entry, dotdot) /\ Links(type, nlink, entry) /\ WalkFindsInode

LEMMA KidsFinite ==
    ASSUME NEW ty, NEW en, NEW i
    PROVE  /\ IsFiniteSet(Kids(ty, en, i)) /\ Cardinality(Kids(ty, en, i)) \in Nat
           /\ Cardinality(Kids(ty, en, i)) = 0 <=> Kids(ty, en, i) = {}
<1>1. IsFiniteSet(Inum)
    BY FS_Interval, DirsAssumption DEF Inum
<1>2. IsFiniteSet(Kids(ty, en, i))
    BY Zenon, <1>1, FS_Subset DEF Kids
<1> QED
    BY Zenon, <1>2, FS_CardinalityType, FS_EmptySet

Typed(ty, en, dd) == /\ ty \in [Inum -> Types]
                     /\ en \in [Inum -> [DirNames -> 0 .. NDirInodes]]
                     /\ dd \in [Inum -> 0 .. NDirInodes]

\* An inode without links has no name and no entries.
LEMMA LinklessIsBare ==
    ASSUME NEW ty, NEW nl, NEW en, NEW dd, Typed(ty, en, dd), Shape(ty, en, dd), Links(ty, nl, en),
           NEW i \in Inum, ty[i] # "free", nl[i] = 0
    PROVE  i # ROOTINO /\ ~IsNamed(en, i) /\ \A n \in DirNames : en[i][n] = 0
<1>1. LinksTo(ty, en, i) = 0
    BY Zenon DEF Links
<1>2. Cardinality(Kids(ty, en, i)) \in Nat
    BY Zenon, KidsFinite
<1>3. ~IsNamed(en, i) /\ i # ROOTINO
    BY <1>1, <1>2 DEF LinksTo
<1> QED
    BY Zenon, <1>3 DEF Shape

\* An inode with links has a name.
LEMMA LinkedIsNamed ==
    ASSUME NEW ty, NEW nl, NEW en, NEW dd, Typed(ty, en, dd), Shape(ty, en, dd), Links(ty, nl, en),
           NEW i \in Inum, nl[i] # 0
    PROVE  ty[i] # "free" /\ (i = ROOTINO \/ IsNamed(en, i))
<1>1. ty[i] # "free" /\ LinksTo(ty, en, i) # 0
    BY Zenon DEF Links
<1>2. ASSUME i # ROOTINO, ~IsNamed(en, i) PROVE FALSE
  <2>1. \A n \in DirNames : en[i][n] = 0
    BY Zenon, <1>2 DEF Shape
  <2>2. Kids(ty, en, i) = {}
    BY <2>1 DEF Kids, Inum
  <2>3. Cardinality(Kids(ty, en, i)) = 0
    BY Zenon, <2>2, KidsFinite
  <2> QED
    BY <2>3, <1>1, <1>2 DEF LinksTo
<1> QED
    BY Zenon, <1>1, <1>2

\* The iput() at the end of a call leaves the tree as it is, and spares what
\* is referred to.
LEMMA PutTree ==
    ASSUME NEW ty, NEW nl, NEW en, NEW dd, Typed(ty, en, dd), Shape(ty, en, dd), Links(ty, nl, en),
           Put(ty, nl, en, dd)
    PROVE  /\ Shape(type', entry', dotdot') /\ Links(type', nlink', entry')
           /\ \A i \in Referenced(cwd', walk') \cap Inum : type'[i] = ty[i]
<1> DEFINE dead == {i \in Inum : ty[i] # "free" /\ Unused(i, Referenced(cwd', walk'), nl)}
<1>1. /\ type' = [i \in Inum |-> IF i \in dead THEN "free" ELSE ty[i]]
      /\ nlink' = nl
      /\ entry' = [i \in Inum |-> IF i \in dead THEN NoEntries ELSE en[i]]
      /\ dotdot' = [i \in Inum |-> IF i \in dead THEN 0 ELSE dd[i]]
    BY Zenon DEF Put
<1>2. \A i \in dead : i \in Inum /\ ty[i] # "free" /\ nl[i] = 0 /\ i \notin Referenced(cwd', walk')
    BY Zenon DEF Unused
<1> HIDE DEF dead
<1>3. \A i \in dead : i # ROOTINO /\ ~IsNamed(en, i) /\ \A n \in DirNames : en[i][n] = 0
    BY <1>2, LinklessIsBare
<1>4. entry' = en
  <2>1. \A i \in dead : en[i] = NoEntries
    BY Zenon, <1>2, <1>3 DEF Typed, NoEntries
  <2> QED
    BY Zenon, <1>1, <2>1 DEF Typed
<1>5. \A d \in Inum, n \in DirNames : en[d][n] \notin dead
    BY Zenon, <1>3 DEF IsNamed
<1>6. \A i \in Inum : type'[i] = IF i \in dead THEN "free" ELSE ty[i]
    BY Zenon, <1>1
<1>7. \A i \in Inum : dotdot'[i] = IF i \in dead THEN 0 ELSE dd[i]
    BY Zenon, <1>1
<1>8. ROOTINO \in Inum /\ ROOTINO \notin dead
    BY <1>3, DirsAssumption DEF ROOTINO, Inum
<1>9. \A d \in Inum, n \in DirNames : en[d][n] # 0 => en[d][n] \in Inum
    BY DEF Typed, Inum
<1>10. Shape(type', entry', dotdot')
    BY <1>3, <1>4, <1>5, <1>6, <1>7, <1>8, <1>9 DEF Shape
<1>11. \A i \in Inum : Kids(type', entry', i) = Kids(ty, en, i)
    BY Zenon, <1>4, <1>5, <1>6 DEF Kids
<1>12. Links(type', nlink', entry')
    BY Zenon, <1>1, <1>2, <1>4, <1>6, <1>11 DEF Links, LinksTo
<1> QED
    BY Zenon, <1>2, <1>6, <1>10, <1>12

\* An entry of directory a gets the value v.
Writes(en, a, n, v) ==
    \A d \in Inum, m \in DirNames : en[d][m] = IF d = a /\ m = n THEN v ELSE entry[d][m]

LEMMA EntryWrites ==
    ASSUME DirInv, NEW a \in Inum, NEW n \in DirNames, NEW v
    PROVE  Writes([entry EXCEPT ![a][n] = v], a, n, v)
    BY Zenon DEF DirInv, Writes

LEMMA EntryInum ==
    ASSUME DirInv
    PROVE  \A d \in Inum, n \in DirNames : entry[d][n] # 0 => entry[d][n] \in Inum
    BY DirsAssumption DEF DirInv, Inum

\* create() adds a leaf.
LEMMA CreateTree ==
    ASSUME DirInv, Shape(type, entry, dotdot), Links(type, nlink, entry),
           NEW a \in Inum, type[a] = "dir", nlink[a] # 0,
           NEW n \in DirNames, entry[a][n] = 0,
           NEW new \in Inum, type[new] = "free", NEW kind \in {"dir", "file"},
           NEW ty, ty = [type EXCEPT ![new] = kind],
           NEW nl, nl = [nlink EXCEPT ![new] = 1, ![a] = @ + DotDotLink(kind)],
           NEW en, Typed(ty, en, dotdot), Writes(en, a, n, new),
           NEW dd, dd = [dotdot EXCEPT ![new] = IF kind = "dir" THEN a ELSE 0]
    PROVE  Shape(ty, en, dd) /\ Links(ty, nl, en)
<1>1. /\ new # a /\ new # ROOTINO /\ new # 0 /\ ROOTINO \in Inum /\ 0 \notin Inum
      /\ ~IsNamed(entry, new) /\ \A m \in DirNames : entry[new][m] = 0
  <2>1. ~IsNamed(entry, new)
    BY DEF Shape, IsNamed, Inum
  <2> QED
    BY <2>1, DirsAssumption DEF Shape, Inum, ROOTINO
<1>2. \A i \in Inum : ty[i] = IF i = new THEN kind ELSE type[i]
    BY Zenon DEF DirInv
<1>3. \A i \in Inum : dd[i] = IF i = new THEN IF kind = "dir" THEN a ELSE 0 ELSE dotdot[i]
    BY Zenon DEF DirInv
<1>4. \A i \in Inum : IsNamed(en, i) <=> i = new \/ IsNamed(entry, i)
    BY <1>1 DEF IsNamed, Writes
<1>5. a = ROOTINO \/ IsNamed(entry, a)
    BY Zenon, LinkedIsNamed DEF Typed, DirInv
<1>6. \A d \in Inum, m \in DirNames : entry[d][m] # 0 => entry[d][m] \in Inum /\ entry[d][m] # new
    BY Zenon, <1>1, EntryInum DEF IsNamed
<1>7. Shape(ty, en, dd)
  <2>1. ty[ROOTINO] = "dir" /\ dd[ROOTINO] = ROOTINO /\ \A i \in Inum : ty[i] = "dir" => dd[i] \in Inum
    BY <1>1, <1>2, <1>3 DEF Shape
  <2>2. \A i \in Inum : ty[i] # "dir" => \A m \in DirNames : en[i][m] = 0
    BY <1>1, <1>2 DEF Shape, Writes
  <2>3. \A i \in Inum \ {ROOTINO} : ~IsNamed(en, i) => \A m \in DirNames : en[i][m] = 0
    BY <1>1, <1>4, <1>5 DEF Shape, Writes
  <2>4. ASSUME NEW d \in Inum, NEW m \in DirNames, en[d][m] # 0
        PROVE  /\ ty[en[d][m]] # "free" /\ en[d][m] \notin {d, ROOTINO}
               /\ ty[en[d][m]] = "dir" => dd[en[d][m]] = d
               /\ \A e \in Inum, k \in DirNames : en[e][k] = en[d][m] => e = d /\ k = m
    BY <2>4, <1>1, <1>2, <1>3, <1>6 DEF Shape, Writes
  <2> QED
    BY Zenon, <2>1, <2>2, <2>3, <2>4 DEF Shape
<1>8. /\ Kids(ty, en, a) = IF kind = "dir" THEN Kids(type, entry, a) \cup {new} ELSE Kids(type, entry, a)
      /\ new \notin Kids(type, entry, a) /\ Kids(ty, en, new) = {}
      /\ \A i \in Inum \ {a, new} : Kids(ty, en, i) = Kids(type, entry, i)
  <2>1. \A i \in Inum : new \notin Kids(type, entry, i)
    BY Zenon DEF Kids
  <2>2. Kids(ty, en, new) = {}
    BY <1>1 DEF Kids, Writes
  <2>3. ASSUME NEW i \in Inum \ {a, new} PROVE Kids(ty, en, i) = Kids(type, entry, i)
    <3>1. \A m \in DirNames : en[i][m] = entry[i][m] /\ entry[i][m] # new
      BY Zenon, <1>1 DEF Writes, IsNamed
    <3>2. \A c \in Inum : c \in Kids(ty, en, i) <=> c \in Kids(type, entry, i)
      BY Zenon, <3>1, <1>2 DEF Kids
    <3> QED
      BY Zenon, <3>2 DEF Kids
  <2>4. \A c \in Inum : c \in Kids(ty, en, a) <=> (c = new /\ kind = "dir") \/ c \in Kids(type, entry, a)
    BY <1>1, <1>2, <1>6 DEF Kids, Writes
  <2>5. Kids(ty, en, a) \subseteq Inum /\ Kids(type, entry, a) \subseteq Inum
    BY Zenon DEF Kids
  <2> QED
    BY Zenon, <2>1, <2>2, <2>3, <2>4, <2>5
<1>9. /\ Cardinality(Kids(ty, en, a)) = Cardinality(Kids(type, entry, a)) + DotDotLink(kind)
      /\ Cardinality(Kids(ty, en, new)) = 0
  <2>1. Cardinality(Kids(ty, en, new)) = 0
    BY Zenon, <1>8, KidsFinite
  <2>2. IsFiniteSet(Kids(type, entry, a)) /\ Cardinality(Kids(type, entry, a)) \in Nat
    BY Zenon, KidsFinite
  <2>3. CASE kind = "dir"
    <3>1. Kids(ty, en, a) = Kids(type, entry, a) \cup {new} /\ new \notin Kids(type, entry, a)
      BY Zenon, <2>3, <1>8
    <3>2. Cardinality(Kids(ty, en, a)) = Cardinality(Kids(type, entry, a)) + 1
      BY ZenonT(30), <2>2, <3>1, FS_AddElement
    <3> QED
      BY Zenon, <2>1, <2>3, <3>2 DEF DotDotLink
  <2>4. CASE kind # "dir"
    BY <2>1, <2>2, <2>4, <1>8 DEF DotDotLink
  <2> QED
    BY Zenon, <2>3, <2>4
<1>10. ASSUME NEW i \in Inum PROVE nl[i] = IF ty[i] = "free" THEN 0 ELSE LinksTo(ty, en, i)
  <2>1. nl[i] = IF i = a THEN nlink[a] + DotDotLink(kind) ELSE IF i = new THEN 1 ELSE nlink[i]
    BY Zenon, <1>1 DEF Links
  <2>2. nlink[i] = IF type[i] = "free" THEN 0 ELSE LinksTo(type, entry, i)
    BY Zenon DEF Links
  <2>3. Cardinality(Kids(type, entry, i)) \in Nat /\ DotDotLink(kind) \in Nat
    BY Zenon, KidsFinite DEF DotDotLink
  <2>4. CASE i = a
    BY <2>1, <2>2, <2>3, <2>4, <1>1, <1>2, <1>4, <1>9 DEF LinksTo
  <2>5. CASE i = new
    BY <2>1, <2>5, <1>1, <1>2, <1>4, <1>9 DEF LinksTo
  <2>6. CASE i \notin {a, new}
    BY Zenon, <2>1, <2>2, <2>6, <1>2, <1>4, <1>8 DEF LinksTo
  <2> QED
    BY Zenon, <2>4, <2>5, <2>6
<1>11. nl \in [Inum -> Int]
    BY DEF Links, DotDotLink
<1> QED
    BY Zenon, <1>7, <1>10, <1>11 DEF Links

\* unlink() takes one away.
LEMMA UnlinkTree ==
    ASSUME DirInv, Shape(type, entry, dotdot), Links(type, nlink, entry),
           NEW a \in Inum, NEW n \in DirNames, NEW inum, inum = entry[a][n], inum # 0,
           type[inum] = "dir" => isdirempty(inum),
           NEW nl, nl = [nlink EXCEPT ![inum] = @ - 1, ![a] = @ - DotDotLink(type[inum])],
           NEW en, Typed(type, en, dotdot), Writes(en, a, n, 0)
    PROVE  Shape(type, en, dotdot) /\ Links(type, nl, en)
<1>1. /\ inum \in Inum /\ inum # a /\ inum # ROOTINO /\ 0 \notin Inum /\ type[inum] # "free" /\ type[a] = "dir"
      /\ \A m \in DirNames : entry[inum][m] = 0
  <2>1. inum \in Inum /\ 0 \notin Inum
    BY EntryInum DEF Inum
  <2>2. inum # a /\ inum # ROOTINO /\ type[inum] # "free" /\ type[a] = "dir"
    BY DEF Shape
  <2>3. \A m \in DirNames : entry[inum][m] = 0
    BY <2>1 DEF Shape, isdirempty, NoEntries
  <2> QED
    BY Zenon, <2>1, <2>2, <2>3
<1>2. \A d \in Inum, m \in DirNames : entry[d][m] = inum <=> d = a /\ m = n
    BY DEF Shape
<1>3. \A i \in Inum : IsNamed(en, i) <=> i # inum /\ IsNamed(entry, i)
  <2>1. ~IsNamed(en, inum)
    BY <1>1, <1>2 DEF IsNamed, Writes
  <2>2. \A i \in Inum \ {inum} : IsNamed(en, i) <=> IsNamed(entry, i)
    BY <1>1 DEF IsNamed, Writes
  <2> QED
    BY Zenon, <2>1, <2>2
<1>4. \A d \in Inum, m \in DirNames : en[d][m] # 0 => en[d][m] = entry[d][m] /\ (d # a \/ m # n)
    BY Zenon DEF Writes
<1>5. \A d \in Inum, m \in DirNames : entry[d][m] = 0 => en[d][m] = 0
    BY Zenon DEF Writes
<1>6. Shape(type, en, dotdot)
  <2>1. \A i \in Inum \ {ROOTINO} : ~IsNamed(en, i) => \A m \in DirNames : en[i][m] = 0
    BY <1>1, <1>3, <1>5 DEF Shape
  <2>2. \A i \in Inum : type[i] # "dir" => \A m \in DirNames : en[i][m] = 0
    BY <1>5 DEF Shape
  <2>3. ASSUME NEW d \in Inum, NEW m \in DirNames, en[d][m] # 0
        PROVE  /\ type[en[d][m]] # "free" /\ en[d][m] \notin {d, ROOTINO}
               /\ type[en[d][m]] = "dir" => dotdot[en[d][m]] = d
               /\ \A e \in Inum, k \in DirNames : en[e][k] = en[d][m] => e = d /\ k = m
    BY <2>3, <1>4 DEF Shape
  <2> QED
    BY Zenon, <2>1, <2>2, <2>3 DEF Shape
<1>7. /\ Kids(type, en, a) = IF type[inum] = "dir" THEN Kids(type, entry, a) \ {inum} ELSE Kids(type, entry, a)
      /\ type[inum] = "dir" => inum \in Kids(type, entry, a)
      /\ \A i \in Inum \ {a} : Kids(type, en, i) = Kids(type, entry, i)
      /\ Kids(type, entry, inum) = {}
  <2>1. \A i \in Inum \ {a} : Kids(type, en, i) = Kids(type, entry, i)
    BY DEF Kids, Writes
  <2>2. Kids(type, entry, inum) = {}
    BY Zenon, <1>1 DEF Kids
  <2>3. type[inum] = "dir" <=> inum \in Kids(type, entry, a)
    BY Zenon, <1>1 DEF Kids
  <2>4. \A c \in Inum : c \in Kids(type, en, a) <=> c \in Kids(type, entry, a) /\ c # inum
    BY <1>1, <1>2 DEF Kids, Writes
  <2>5. Kids(type, en, a) \subseteq Inum /\ Kids(type, entry, a) \subseteq Inum
    BY Zenon DEF Kids
  <2> QED
    BY Zenon, <2>1, <2>2, <2>3, <2>4, <2>5
<1>8. /\ Cardinality(Kids(type, en, a)) = Cardinality(Kids(type, entry, a)) - DotDotLink(type[inum])
      /\ Cardinality(Kids(type, entry, inum)) = 0
  <2>1. Cardinality(Kids(type, entry, inum)) = 0
    BY Zenon, <1>7, KidsFinite
  <2>2. IsFiniteSet(Kids(type, entry, a)) /\ Cardinality(Kids(type, entry, a)) \in Nat
    BY Zenon, KidsFinite
  <2>3. CASE type[inum] = "dir"
    <3>1. Kids(type, en, a) = Kids(type, entry, a) \ {inum} /\ inum \in Kids(type, entry, a)
      BY Zenon, <2>3, <1>7
    <3>2. Cardinality(Kids(type, en, a)) = Cardinality(Kids(type, entry, a)) - 1
      BY Zenon, <2>2, <3>1, FS_RemoveElement
    <3> QED
      BY Zenon, <2>1, <2>3, <3>2 DEF DotDotLink
  <2>4. CASE type[inum] # "dir"
    BY <2>1, <2>2, <2>4, <1>7 DEF DotDotLink
  <2> QED
    BY Zenon, <2>3, <2>4
<1>9. ASSUME NEW i \in Inum PROVE nl[i] = IF type[i] = "free" THEN 0 ELSE LinksTo(type, en, i)
  <2>1. nl[i] = IF i = a THEN nlink[a] - DotDotLink(type[inum]) ELSE IF i = inum THEN nlink[inum] - 1 ELSE nlink[i]
    BY Zenon, <1>1 DEF Links
  <2>2. nlink[i] = IF type[i] = "free" THEN 0 ELSE LinksTo(type, entry, i)
    BY Zenon DEF Links
  <2>3. Cardinality(Kids(type, entry, i)) \in Nat /\ DotDotLink(type[inum]) \in Nat
    BY Zenon, KidsFinite DEF DotDotLink
  <2>4. CASE i = a
    BY <2>1, <2>2, <2>3, <2>4, <1>1, <1>3, <1>8 DEF LinksTo
  <2>5. CASE i = inum
    <3>1. IsNamed(entry, inum) /\ ~IsNamed(en, inum)
      BY Zenon, <1>1, <1>3 DEF IsNamed
    <3>2. LinksTo(type, entry, inum) = 1 /\ LinksTo(type, en, inum) = 0
      BY <3>1, <1>1, <1>7, <1>8 DEF LinksTo
    <3> QED
      BY <2>1, <2>2, <2>5, <3>2, <1>1
  <2>6. CASE i \notin {a, inum}
    BY Zenon, <2>1, <2>2, <2>6, <1>3, <1>7 DEF LinksTo
  <2> QED
    BY Zenon, <2>4, <2>5, <2>6
<1>10. nl \in [Inum -> Int]
    BY DEF Links, DotDotLink
<1> QED
    BY Zenon, <1>6, <1>9, <1>10 DEF Links

-----------------------------------------------------------------------------
(* Walks.                                                                  *)
Tree == DirInv /\ Shape(type, entry, dotdot) /\ Links(type, nlink, entry) /\ WalkFindsInode

\* What is left to show of a step of process p, given what it hands to Put:
\* that p's walk, if it goes on, is at an inode in use or took a stale "..".
LEMMA StepTree ==
    ASSUME Tree, ~late, DirInv', NEW p \in DirProcs,
           NEW ty, NEW nl, NEW en, NEW dd, Typed(ty, en, dd), Shape(ty, en, dd), Links(ty, nl, en),
           Put(ty, nl, en, dd),
           \A i \in Inum : type[i] # "free" => ty[i] # "free",
           \A q \in DirProcs \ {p} : walk'[q] = walk[q],
           walk'[p].op # "none" => ty[walk'[p].at] # "free" \/ walk'[p].gone
    PROVE  TreeInv'
<1>1. /\ Shape(type', entry', dotdot') /\ Links(type', nlink', entry')
      /\ \A i \in Referenced(cwd', walk') \cap Inum : type'[i] = ty[i]
    BY Zenon, PutTree
<1>2. ASSUME NEW q \in DirProcs, walk'[q].op # "none", type'[walk'[q].at] = "free"
      PROVE  walk'[q].gone
  <2>1. walk'[q].at \in Inum
    BY Zenon, <1>2 DEF DirInv
  <2>2. ty[walk'[q].at] = "free"
    BY Zenon, <1>1, <1>2, <2>1 DEF Referenced
  <2> QED
    BY Zenon, <1>2, <2>1, <2>2 DEF Tree, WalkFindsInode
<1> QED
    BY Zenon, <1>1, <1>2 DEF TreeInv, WalkFindsInode

LEMMA ReturnDone ==
    ASSUME DirInv, NEW p \in DirProcs, Return(p)
    PROVE  walk'[p].op = "none" /\ \A q \in DirProcs \ {p} : walk'[q] = walk[q]
    BY Zenon DEF DirInv, Return, NoWalk

LEMMA TypedNow ==
    ASSUME DirInv
    PROVE  Typed(type, entry, dotdot)
    BY Zenon DEF DirInv, Typed

\* Calls that begin, and the panic.
LEMMA QuietTree ==
    ASSUME Tree, ~late, DirInv', NEW p \in DirProcs,
           \/ ilock_panic(p)
           \/ \E op, d, path : path_call(p, op, d, path)
    PROVE  TreeInv'
<1>1. UNCHANGED <<type, nlink, entry, dotdot, cwd, late>>
    BY Zenon DEF ilock_panic, path_call
<1>2. ASSUME NEW q \in DirProcs, walk'[q].op # "none", type[walk'[q].at] = "free"
      PROVE  walk'[q].gone
  <2>1. CASE walk' = walk
    BY Zenon, <2>1, <1>2 DEF Tree, WalkFindsInode
  <2>2. CASE \E op, d, path : path_call(p, op, d, path)
    <3>1. PICK op, d, path : path_call(p, op, d, path)
      BY Zenon, <2>2
    <3>2. walk' = [walk EXCEPT ![p] = [op |-> op, at |-> d, path |-> path, gone |-> FALSE]]
          /\ d \in {ROOTINO, cwd[p]}
      BY Zenon, <3>1 DEF path_call
    <3>3. type[d] = "dir"
      BY Zenon, <3>2 DEF Tree, Shape, DirInv, WorkingDirKept
    <3>4. q # p /\ walk'[q] = walk[q]
      BY Zenon, <3>2, <3>3, <1>2 DEF Tree, DirInv
    <3> QED
      BY Zenon, <3>4, <1>2 DEF Tree, WalkFindsInode
  <2> QED
    BY Zenon, <2>1, <2>2 DEF ilock_panic
<1> QED
    BY Zenon, <1>1, <1>2 DEF Tree, TreeInv, WalkFindsInode

\* A hop from a directory that is not removed lands on an inode in use.
LEMMA HopLands ==
    ASSUME Tree, NEW p \in DirProcs, walk[p].op # "none", walk[p].path # <<>>,
           type[walk[p].at] = "dir", Found(walk[p]) # 0, nlink[walk[p].at] # 0
    PROVE  type[Found(walk[p])] # "free"
<1> DEFINE a == walk[p].at
           n == Head(walk[p].path)
<1>1. a \in Inum /\ n \in Elements
    BY DEF Tree, DirInv, Walks
<1>2. Found(walk[p]) = CASE n = "." -> a [] n = ".." -> dotdot[a] [] OTHER -> entry[a][n]
    BY Zenon DEF Found, skipelem, dirlookup
<1>3. a = ROOTINO \/ IsNamed(entry, a)
    BY Zenon, <1>1, TypedNow, LinkedIsNamed DEF Tree
<1>4. type[dotdot[a]] # "free"
  <2>1. CASE a = ROOTINO
    BY Zenon, <2>1 DEF Tree, Shape
  <2>2. CASE IsNamed(entry, a)
    <3>1. PICK d \in Inum, m \in DirNames : entry[d][m] = a
      BY Zenon, <2>2 DEF IsNamed
    <3>2. a # 0
      BY <1>1 DEF Inum
    <3>3. dotdot[a] = d /\ type[d] = "dir"
      BY <3>1, <3>2 DEF Tree, Shape
    <3> QED
      BY Zenon, <3>3
  <2> QED
    BY Zenon, <1>3, <2>1, <2>2
<1>5. n \in DirNames => entry[a][n] = 0 \/ type[entry[a][n]] # "free"
    BY <1>1 DEF Tree, Shape
<1> HIDE DEF a, n
<1> QED
    BY Zenon, <1>1, <1>2, <1>4, <1>5, DirsAssumption DEF Elements, a

LEMMA NamexTree ==
    ASSUME Tree, ~late, DirInv', NEW p \in DirProcs, namex(p)
    PROVE  TreeInv'
<1> DEFINE w == walk[p]
<1>0. DirInv /\ Shape(type, entry, dotdot) /\ Links(type, nlink, entry) /\ Typed(type, entry, dotdot)
    BY Zenon, TypedNow DEF Tree
<1>1. Put(type, nlink, entry, dotdot) /\ w \in Walks /\ w.op # "none" /\ Hops(w) > 0
    BY Zenon, <1>0 DEF namex, ilock_ok, DirInv
<1>2. w.path # <<>>
    BY Zenon, <1>0, <1>1, HopsLeft
<1>3. CASE type[w.at] = "dir" /\ Found(w) # 0
  <2>1. walk' = [walk EXCEPT ![p].at = Found(w), ![p].path = skipelem(@).rest, ![p].gone = nlink[w.at] = 0]
    BY Zenon, <1>3 DEF namex
  <2>2. /\ walk'[p].at = Found(w) /\ walk'[p].gone = (nlink[w.at] = 0)
        /\ \A q \in DirProcs \ {p} : walk'[q] = walk[q]
    BY Zenon, <2>1, <1>1 DEF Walks, Tree, DirInv
  <2>3. nlink[w.at] # 0 => type[Found(w)] # "free"
    BY Zenon, <1>1, <1>2, <1>3, HopLands
  <2> QED
    BY Zenon, <2>2, <2>3, <1>0, <1>1, StepTree
<1>4. CASE ~(type[w.at] = "dir" /\ Found(w) # 0)
  <2>1. Return(p)
    BY Zenon, <1>4 DEF namex
  <2> QED
    BY Zenon, <2>1, <1>0, <1>1, ReturnDone, StepTree
<1> QED
    BY Zenon, <1>3, <1>4

\* Steps that return and leave the tree to Put as it is.
LEMMA SameTree ==
    ASSUME Tree, ~late, DirInv', NEW p \in DirProcs, Return(p), Put(type, nlink, entry, dotdot)
    PROVE  TreeInv'
<1>1. DirInv /\ Shape(type, entry, dotdot) /\ Links(type, nlink, entry) /\ Typed(type, entry, dotdot)
    BY Zenon, TypedNow DEF Tree
<1> QED
    BY Zenon, <1>1, ReturnDone, StepTree

\* The last element of a path.
LEMMA LastElement ==
    ASSUME DirInv, NEW p \in DirProcs, NEW ops, AtParent(p, ops), "chdir" \notin ops, "none" \notin ops
    PROVE  walk[p].at \in Inum /\ Head(walk[p].path) \in Elements
<1>1. walk[p] \in Walks /\ walk[p].op # "none" /\ walk[p].op # "chdir" /\ Hops(walk[p]) = 0
    BY Zenon DEF DirInv, AtParent, ilock_ok
<1>2. walk[p].path \in Seq(Elements) /\ Len(walk[p].path) = 1
    BY <1>1 DEF Hops, Walks
<1> QED
    BY <1>1, <1>2 DEF DirInv

LEMMA CreateNewTree ==
    ASSUME Tree, ~late, DirInv', NEW p \in DirProcs, create_new(p)
    PROVE  TreeInv'
<1> DEFINE a == walk[p].at
           n == Head(walk[p].path)
           kind == IF walk[p].op = "mkdir" THEN "dir" ELSE "file"
           ty(new) == [type EXCEPT ![new] = kind]
           nl(new) == [nlink EXCEPT ![new] = 1, ![a] = @ + DotDotLink(kind)]
           en(new) == [entry EXCEPT ![a][n] = new]
           dd(new) == [dotdot EXCEPT ![new] = IF kind = "dir" THEN a ELSE 0]
<1>0. DirInv /\ Shape(type, entry, dotdot) /\ Links(type, nlink, entry) /\ Typed(type, entry, dotdot)
    BY Zenon, TypedNow DEF Tree
<1>1. /\ Return(p) /\ type[a] = "dir" /\ late' = (nlink[a] = 0)
      /\ a \in Inum /\ n \in Elements /\ kind \in {"dir", "file"}
  <2>1. AtParent(p, {"mkdir", "create"})
    BY Zenon DEF create_new
  <2>2. a \in Inum /\ n \in Elements
    BY Zenon, <1>0, <2>1, LastElement
  <2> QED
    BY Zenon, <2>2 DEF create_new
<1>2. PICK new \in Inum : type[new] = "free" /\ Put(ty(new), nl(new), en(new), dd(new))
    BY Zenon DEF create_new, skipelem
<1>3. n \in DirNames /\ entry[a][n] = 0
  <2>1. (CASE n = "." -> a [] n = ".." -> dotdot[a] [] OTHER -> entry[a][n]) = 0
    BY Zenon DEF create_new, Found, skipelem, dirlookup
  <2>2. a # 0 /\ dotdot[a] # 0
    BY <1>0, <1>1 DEF Shape, Inum
  <2> HIDE DEF a, n
  <2> QED
    BY Zenon, <1>1, <2>1, <2>2, DirsAssumption DEF Elements
<1> HIDE DEF kind, a, n
<1>4. SUFFICES ASSUME nlink[a] # 0 PROVE TreeInv'
    BY Zenon, <1>1 DEF TreeInv
<1>5. Typed(ty(new), en(new), dotdot) /\ dd(new) \in [Inum -> 0 .. NDirInodes] /\ Writes(en(new), a, n, new)
  <2>1. new \in 0 .. NDirInodes /\ a \in 0 .. NDirInodes /\ 0 \in 0 .. NDirInodes
    BY <1>1, <1>2, DirsAssumption DEF Inum
  <2>2. en(new) \in [Inum -> [DirNames -> 0 .. NDirInodes]] /\ Writes(en(new), a, n, new)
    BY Zenon, <2>1, <1>0, <1>1, <1>3, EntryTyped, EntryWrites
  <2>3. ty(new) \in [Inum -> Types]
    BY Zenon, <1>0, <1>1, <1>2 DEF Typed, Types
  <2>4. dd(new) \in [Inum -> 0 .. NDirInodes]
    BY Zenon, <1>0, <2>1 DEF Typed
  <2> QED
    BY Zenon, <2>2, <2>3, <2>4, <1>0 DEF Typed
<1>6. Shape(ty(new), en(new), dd(new)) /\ Links(ty(new), nl(new), en(new))
  <2>1. PICK t, l, e, d : t = ty(new) /\ l = nl(new) /\ e = en(new) /\ d = dd(new)
    BY Zenon
  <2>2. Typed(t, e, dotdot) /\ Writes(e, a, n, new)
    BY Zenon, <2>1, <1>5
  <2>3. Shape(t, e, d) /\ Links(t, l, e)
    BY Zenon, <2>1, <2>2, <1>0, <1>1, <1>2, <1>3, <1>4, CreateTree
  <2> QED
    BY Zenon, <2>1, <2>3
<1>7. Typed(ty(new), en(new), dd(new))
    BY Zenon, <1>5 DEF Typed
<1>8. \A i \in Inum : type[i] # "free" => ty(new)[i] # "free"
    BY Zenon, <1>0, <1>1, <1>2 DEF Typed
<1>9. walk'[p].op = "none" /\ \A q \in DirProcs \ {p} : walk'[q] = walk[q]
    BY Zenon, <1>0, <1>1, ReturnDone
<1> HIDE DEF ty, nl, en, dd
<1> QED
    BY Zenon, <1>2, <1>6, <1>7, <1>8, <1>9, StepTree

LEMMA UnlinkedTree ==
    ASSUME Tree, ~late, DirInv', NEW p \in DirProcs, sys_unlink(p)
    PROVE  TreeInv'
<1> DEFINE a == walk[p].at
           n == Head(walk[p].path)
           inum == entry[a][n]
           nl == [nlink EXCEPT ![inum] = @ - 1, ![a] = @ - DotDotLink(type[inum])]
           en == [entry EXCEPT ![a][n] = 0]
<1>0. DirInv /\ Shape(type, entry, dotdot) /\ Links(type, nlink, entry) /\ Typed(type, entry, dotdot)
    BY Zenon, TypedNow DEF Tree
<1>1. Return(p) /\ a \in Inum /\ n \in Elements
  <2>1. AtParent(p, {"unlink"})
    BY Zenon DEF sys_unlink
  <2> QED
    BY Zenon, <1>0, <2>1, LastElement DEF sys_unlink
<1>2. CASE MayUnlink(walk[p])
  <2>1. n \in DirNames
    BY Zenon, <1>2 DEF MayUnlink, skipelem
  <2>2. Found(walk[p]) = inum
    BY Zenon, <2>1, DirsAssumption DEF Found, skipelem, dirlookup
  <2>3. inum # 0 /\ (type[inum] = "dir" => isdirempty(inum))
    BY Zenon, <1>2, <2>2 DEF MayUnlink
  <2>4. Put(type, nl, en, dotdot)
    BY Zenon, <1>2, <2>2 DEF sys_unlink, skipelem
  <2> HIDE DEF a, n
  <2>5. en \in [Inum -> [DirNames -> 0 .. NDirInodes]] /\ Writes(en, a, n, 0)
    <3>1. 0 \in 0 .. NDirInodes
      BY DirsAssumption
    <3> QED
      BY Zenon, <3>1, <1>0, <1>1, <2>1, EntryTyped, EntryWrites
  <2>6. Typed(type, en, dotdot)
    BY Zenon, <2>5, <1>0 DEF Typed
  <2>7. Shape(type, en, dotdot) /\ Links(type, nl, en)
    BY Zenon, <1>0, <1>1, <2>1, <2>3, <2>5, <2>6, UnlinkTree
  <2>8. walk'[p].op = "none" /\ \A q \in DirProcs \ {p} : walk'[q] = walk[q]
    BY Zenon, <1>0, <1>1, ReturnDone
  <2> HIDE DEF nl, en
  <2> QED
    BY Zenon, <2>4, <2>6, <2>7, <2>8, StepTree
<1>3. CASE ~MayUnlink(walk[p])
    BY Zenon, <1>1, <1>3, SameTree DEF sys_unlink
<1> QED
    BY Zenon, <1>2, <1>3

LEMMA TreeInit == DirInit => TreeInv
<1> SUFFICES ASSUME DirInit PROVE TreeInv
    BY Zenon
<1>1. ROOTINO \in Inum /\ 0 \notin Inum
    BY DirsAssumption DEF Inum, ROOTINO
<1>2. \A d \in Inum, n \in DirNames : entry[d][n] = 0
    BY Zenon DEF DirInit, NoEntries
<1>3. Shape(type, entry, dotdot)
    BY Zenon, <1>1, <1>2 DEF DirInit, Shape
<1>4. \A i \in Inum : ~IsNamed(entry, i) /\ Kids(type, entry, i) = {}
    BY Zenon, <1>1, <1>2 DEF IsNamed, Kids
<1>5. \A i \in Inum : LinksTo(type, entry, i) = IF i = ROOTINO THEN 1 ELSE 0
    BY <1>4, KidsFinite DEF LinksTo
<1>6. Links(type, nlink, entry)
    BY <1>5 DEF DirInit, Links
<1>7. WalkFindsInode
    BY Zenon DEF DirInit, WalkFindsInode, NoWalk
<1> QED
    BY Zenon, <1>3, <1>6, <1>7 DEF TreeInv

LEMMA TreeStep == DirInv /\ DirInv' /\ TreeInv /\ [DirNext]_dirVars => TreeInv'
<1> SUFFICES ASSUME DirInv, DirInv', TreeInv, [DirNext]_dirVars PROVE TreeInv'
    BY Zenon
<1>1. CASE UNCHANGED dirVars
    BY Zenon, <1>1 DEF dirVars, TreeInv, WalkFindsInode
<1>2. CASE DirNext
  <2>1. ~late /\ Tree
    BY Zenon, <1>2 DEF DirNext, TreeInv, Tree
  <2>2. PICK p \in DirProcs :
           \/ \E d \in Inum, path \in Paths : \/ sys_mkdir(p, d, path) \/ sys_mknod(p, d, path)
                                              \/ path_call(p, "unlink", d, path) \/ path_call(p, "chdir", d, path)
           \/ ilock_panic(p) \/ namex(p) \/ create_found(p) \/ create_new(p) \/ sys_unlink(p) \/ sys_chdir(p)
    BY Zenon, <1>2 DEF DirNext
  <2>3. CASE \/ ilock_panic(p)
             \/ \E d \in Inum, path \in Paths : \/ sys_mkdir(p, d, path) \/ sys_mknod(p, d, path)
                                                \/ path_call(p, "unlink", d, path) \/ path_call(p, "chdir", d, path)
    <3>1. ilock_panic(p) \/ \E op, d, path : path_call(p, op, d, path)
      BY Zenon, <2>3 DEF sys_mkdir, sys_mknod
    <3> QED
      BY Zenon, <3>1, <2>1, QuietTree
  <2>4. CASE create_found(p) \/ sys_chdir(p)
    BY Zenon, <2>1, <2>4, SameTree DEF create_found, sys_chdir
  <2>5. CASE namex(p) \/ create_new(p) \/ sys_unlink(p)
    BY Zenon, <2>1, <2>5, NamexTree, CreateNewTree, UnlinkedTree
  <2> QED
    BY Zenon, <2>2, <2>3, <2>4, <2>5
<1> QED
    BY Zenon, <1>1, <1>2

(* For any number of processes, inodes and names and paths of any length:  *)
(* while no removed directory is written to, ilock() meets an inode without*)
(* a type only on a walk that took the ".." of a removed directory.  Every *)
(* other hop of namex() lands on an inode that a link or a reference keeps *)
(* allocated.                                                              *)
THEOREM WalksLand == DirSpec => []WalkFindsInode
<1>1. TreeInv => WalkFindsInode
    BY Zenon DEF TreeInv, WalkFindsInode
<1> QED
    BY <1>1, DirInvInit, DirInvStep, TreeInit, TreeStep, PTL DEF DirSpec

(* For any number of processes, inodes and names: while no removed         *)
(* directory is written to, concurrent mkdir, create and unlink keep every *)
(* link count exact and every ".." the inverse of the directory's name     *)
(* (the two parts of DirTree that do not follow paths from the root).      *)
THEOREM TreeLinks == DirSpec => [](~late => DotDotsMatch /\ LinksExact)
<1>1. ASSUME DirInv, TreeInv, ~late PROVE DotDotsMatch /\ LinksExact
  <2>1. Shape(type, entry, dotdot) /\ Links(type, nlink, entry) /\ 0 \notin Inum
    BY <1>1 DEF TreeInv, Inum
  <2>2. DotDotsMatch
    BY <2>1 DEF DotDotsMatch, Shape, LiveDirs, NamesOf
  <2>3. ASSUME NEW i \in Live
        PROVE  nlink[i] = Cardinality(NamesOf(i)) + Cardinality(Children(i)) + IF i = ROOTINO THEN 1 ELSE 0
    <3>1. i \in Inum /\ i # 0 /\ nlink[i] = LinksTo(type, entry, i)
      BY Zenon, <2>1 DEF Live, Links
    <3>2. Children(i) = Kids(type, entry, i) /\ Cardinality(Kids(type, entry, i)) \in Nat
      <4>1. Children(i) = Kids(type, entry, i)
        BY Zenon DEF Children, Kids, LiveDirs
      <4> QED
        BY Zenon, <4>1, KidsFinite
    <3>3. i = ROOTINO => ~IsNamed(entry, i)
      BY <2>1, <3>1 DEF Shape, IsNamed
    <3>4. Cardinality(NamesOf(i)) = IF IsNamed(entry, i) THEN 1 ELSE 0
      <4>1. CASE IsNamed(entry, i)
        <5>1. PICK d \in Inum, n \in DirNames : entry[d][n] = i
          BY Zenon, <4>1 DEF IsNamed
        <5>2. NamesOf(i) = {<<d, n>>}
          BY <5>1, <3>1, <2>1 DEF NamesOf, LiveDirs, Shape
        <5> QED
          BY Zenon, <5>2, <4>1, FS_Singleton
      <4>2. CASE ~IsNamed(entry, i)
        <5>1. NamesOf(i) = {}
          BY Zenon, <4>2 DEF IsNamed, NamesOf, LiveDirs
        <5> QED
          BY Zenon, <5>1, <4>2, FS_EmptySet
      <4> QED
        BY Zenon, <4>1, <4>2
    <3> QED
      BY <3>1, <3>2, <3>3, <3>4 DEF LinksTo
  <2> QED
    BY Zenon, <2>2, <2>3 DEF LinksExact
<1> QED
    BY <1>1, DirInvInit, DirInvStep, TreeInit, TreeStep, PTL DEF DirSpec

=============================================================================
