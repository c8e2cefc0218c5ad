----------------------------- MODULE LogProofs -----------------------------
(* Proofs about Log for any number of processes, blocks and contents.      *)
EXTENDS Log, FiniteSetTheorems, TLAPS

Distinct(s) == \A i, j \in DOMAIN s : s[i] = s[j] => i = j

\* Slot i of the log holds what bread() returns for the block it is meant for.
Copied(i) == disk[Slot(i - 1)] = Bread(lh[i])
\* Block i of the transaction is at its home location.
Installed(i) == disk[lh[i]] = disk[Slot(i - 1)]

\* During recovery memory is as the kernel found it, and what has been
\* installed so far agrees with the log.
BootInv ==
    boot # "done" =>
        /\ \A p \in Procs : pc[p] = "idle" /\ held[p] = NoBuf
        /\ committing = 0 /\ outstanding = 0 /\ dirty = {}
        /\ boot = "install_trans" =>
              lh = head /\ tail < Len(lh) /\ \A i \in 1 .. tail : Installed(i)
        /\ boot = "clear_head" => lh = head /\ \A i \in DOMAIN lh : Installed(i)

\* A clean buffer nobody holds is a copy of the disk.
Coherent ==
    \A b \in Home : b \notin dirty /\ (\A p \in Procs : held[p] # b)
                        => cache[b] \in {NoBuf, disk[b]}

HeldInv ==
    \A p \in Procs : /\ held[p] # NoBuf => pc[p] \in {"logging", "panic"}
                     /\ pc[p] = "logging" => held[p] # NoBuf

\* log.outstanding counts the calls between begin_op() and end_op().
CountInv == outstanding = Cardinality(Active)

CommitInv ==
    /\ committing = 1 => outstanding = 0
    /\ \A p \in Procs : pc[p] \in InCommit => committing = 1
    /\ \A p, q \in Procs : pc[p] \in InCommit /\ pc[q] \in InCommit => p = q

\* What commit() has done when it is at each of its steps.
PhaseInv ==
    \A p \in Procs :
        /\ pc[p] = "write_log" => tail < Len(lh) /\ \A i \in 1 .. tail : Copied(i)
        /\ pc[p] = "write_head" => tail = 0 /\ lh # <<>> /\ \A i \in DOMAIN lh : Copied(i)
        /\ pc[p] = "install_trans" =>
              /\ head = lh
              /\ tail < Len(lh)
              /\ \A i \in DOMAIN lh : Copied(i)
              /\ \A i \in 1 .. tail : Installed(i) /\ lh[i] \notin dirty
        /\ pc[p] = "clear_head" =>
              /\ head = lh
              /\ \A i \in DOMAIN lh : Installed(i)
              /\ dirty = {}
        /\ pc[p] = "end_commit" => lh = <<>>

HeadInv ==
    boot = "done" /\ head # <<>> =>
        \E p \in Procs : pc[p] \in {"install_trans", "clear_head"}

\* The transaction in memory: no block twice, every dirty block listed, and
\* nothing left over once nobody is in a call.
LhInv ==
    /\ Distinct(lh) /\ Distinct(head)
    /\ Len(head) <= LogSize - 1
    /\ dirty \subseteq Logged(lh)
    /\ boot = "done" /\ lh # <<>> => outstanding > 0 \/ \E p \in Procs : pc[p] \in InCommit

IInv ==
    /\ TypeOK /\ BootInv /\ Coherent /\ HeldInv /\ CountInv /\ CommitInv
    /\ PhaseInv /\ HeadInv /\ LhInv
-----------------------------------------------------------------------------
\* Log slots that fit the region are blocks of the disk, not home blocks, and
\* different slots are different blocks (log.start+tail+1 in log.c).
LEMMA SlotFacts ==
    /\ \A i \in 1 .. LogSize - 1 : Slot(i - 1) \in Addr /\ Slot(i - 1) \notin Home
    /\ \A i, j \in 1 .. LogSize - 1 : Slot(i - 1) = Slot(j - 1) => i = j
    /\ Home \subseteq Addr
    /\ NoBuf \notin Home
BY LogAssumption, SMT DEF Slot, Addr, Home

\* The initial state, and the state after a power failure.
LEMMA InitIInv == Init => IInv
<1> SUFFICES ASSUME Init PROVE IInv
    BY Zenon
<1>1. TypeOK
    BY LogAssumption DEF Init, TypeOK, PCs, InOp, InCommit
<1>2. Active = {}
    BY Zenon DEF Init, Active, InOp
<1>3. CountInv
    BY Zenon, <1>2, FS_EmptySet DEF CountInv, Init
<1>4. BootInv /\ Coherent /\ HeldInv /\ CommitInv /\ PhaseInv /\ HeadInv
    BY Zenon DEF Init, BootInv, Coherent, HeldInv, CommitInv, PhaseInv, HeadInv, InCommit
<1>5. LhInv
    BY LogAssumption DEF Init, LhInv, Distinct, Logged
<1> QED
    BY Zenon, <1>1, <1>3, <1>4, <1>5 DEF IInv

LEMMA CrashIInv == IInv /\ crash => IInv'
<1> SUFFICES ASSUME IInv, crash PROVE IInv'
    BY Zenon
<1> USE DEF crash, Booting
<1>1. TypeOK'
    BY LogAssumption DEF IInv, TypeOK, PCs, InOp, InCommit
<1>2. Active' = {}
    BY Zenon DEF Active, InOp
<1>3. CountInv'
    BY Zenon, <1>2, FS_EmptySet DEF CountInv
<1>4. BootInv' /\ Coherent' /\ HeldInv' /\ CommitInv' /\ PhaseInv' /\ HeadInv'
    BY Zenon DEF BootInv, Coherent, HeldInv, CommitInv, PhaseInv, HeadInv, InCommit
<1>5. LhInv'
    BY LogAssumption DEF IInv, LhInv, Distinct, Logged
<1> QED
    BY Zenon, <1>1, <1>3, <1>4, <1>5 DEF IInv

\* Facts about a process inside a call, used by several actions.
LEMMA ActiveFacts ==
    ASSUME IInv, NEW p \in Procs, p \in Active
    PROVE  /\ IsFiniteSet(Active) /\ outstanding \in Nat \ {0}
           /\ committing = 0
           /\ \A q \in Procs : pc[q] \notin InCommit
           /\ boot = "done"
           /\ head = <<>>
           /\ outstanding = 1 => Active = {p}
<1>1. IsFiniteSet(Active)
    BY Zenon, FS_Subset, LogAssumption DEF Active
<1>2. outstanding \in Nat /\ outstanding # 0
    BY Zenon, <1>1, FS_EmptySet DEF IInv, TypeOK, CountInv
<1>3. committing = 0 /\ \A q \in Procs : pc[q] \notin InCommit
    BY Zenon, <1>2 DEF IInv, TypeOK, CommitInv
<1>4. boot = "done"
    BY Zenon DEF IInv, BootInv, Active, InOp
<1>5. head = <<>>
    BY Zenon, <1>3, <1>4 DEF IInv, HeadInv, InCommit
<1>6. outstanding = 1 => Active = {p}
  <2>1. IsFiniteSet(Active \ {p}) /\ (outstanding = 1 => Cardinality(Active \ {p}) = 0)
      BY <1>1, FS_RemoveElement DEF IInv, CountInv
  <2> QED
      BY Zenon, <2>1, FS_EmptySet
<1> QED
    BY Zenon, <1>1, <1>2, <1>3, <1>4, <1>5, <1>6

LEMMA BeginIInv == ASSUME IInv, NEW p \in Procs, begin_op(p) PROVE IInv'
<1> USE DEF begin_op
<1>1. TypeOK'
  <2>1. outstanding' \in Nat /\ nw' \in [Procs -> Nat]
    <3>1. CASE MustWait
        BY Zenon, <3>1 DEF IInv, TypeOK
    <3>2. CASE ~MustWait
      <4>1. outstanding \in Nat /\ outstanding' = outstanding + 1
          BY Zenon, <3>2 DEF IInv, TypeOK
      <4>2. nw \in [Procs -> Nat] /\ nw' = [nw EXCEPT ![p] = 0]
          BY Zenon, <3>2 DEF IInv, TypeOK
      <4> QED
          BY <4>1, <4>2
    <3> QED
        BY Zenon, <3>1, <3>2
  <2>2. pc' \in [Procs -> PCs]
    <3>1. "sleeping" \in PCs /\ "op" \in PCs
        BY Zenon DEF PCs, InOp
    <3> QED
        BY <3>1, Zenon DEF IInv, TypeOK
  <2> QED
      BY Zenon, <2>1, <2>2 DEF IInv, TypeOK
<1>2. CASE MustWait
  <2>1. Active' = Active
      BY Zenon, <1>2 DEF IInv, TypeOK, Active, InOp
  <2>2. CountInv' /\ HeldInv' /\ CommitInv' /\ BootInv'
      BY <1>2, <2>1, Zenon DEF IInv, TypeOK, CountInv, HeldInv, CommitInv, BootInv, InCommit
  <2>3. Coherent' /\ LhInv'
      BY <1>2 DEF IInv, TypeOK, Coherent, LhInv, Logged, Distinct, InCommit
  <2>4. PhaseInv' /\ HeadInv'
      BY <1>2 DEF IInv, TypeOK, PhaseInv, HeadInv, Copied, Installed, Bread, Slot, InCommit
  <2> QED
      BY Zenon, <1>1, <2>2, <2>3, <2>4 DEF IInv
<1>3. CASE ~MustWait
  <2>1. Active' = Active \union {p} /\ p \notin Active
      BY Zenon, <1>3 DEF IInv, TypeOK, Active, InOp
  <2>2. CountInv'
    <3>1. IsFiniteSet(Active)
        BY Zenon, FS_Subset, LogAssumption DEF Active
    <3> QED
        BY Zenon, <1>3, <2>1, <3>1, FS_AddElement DEF IInv, CountInv
  <2>3. committing = 0 /\ \A q \in Procs : pc[q] \notin InCommit
      BY Zenon, <1>3 DEF IInv, TypeOK, CommitInv, MustWait
  <2>4. HeldInv' /\ CommitInv' /\ BootInv'
      BY <1>3, <2>3 DEF IInv, TypeOK, HeldInv, CommitInv, BootInv, InCommit
  <2>5. Coherent' /\ LhInv'
      BY <1>3, <2>3 DEF IInv, TypeOK, Coherent, LhInv, Logged, Distinct
  <2>6. PhaseInv' /\ HeadInv'
      BY Zenon, <1>3, <2>3 DEF IInv, TypeOK, PhaseInv, HeadInv, InCommit
  <2> QED
      BY Zenon, <1>1, <2>2, <2>4, <2>5, <2>6 DEF IInv
<1> QED
    BY Zenon, <1>2, <1>3

LEMMA ModifyIInv ==
    ASSUME IInv, NEW p \in Procs, NEW b \in Home, NEW v \in Data, modify(p, b, v)
    PROVE  IInv'
<1> USE DEF modify
<1>1. TypeOK'
    BY DEF IInv, TypeOK, PCs, InOp
<1>2. p \in Active /\ Active' = Active
    BY Zenon DEF IInv, TypeOK, Active, InOp
<1>3. /\ committing = 0 /\ head = <<>> /\ outstanding > 0
      /\ \A q \in Procs : pc[q] \notin InCommit /\ pc'[q] \notin InCommit
    BY <1>2, ActiveFacts DEF IInv, TypeOK, InCommit
<1>4. CountInv' /\ CommitInv' /\ BootInv'
    BY Zenon, <1>2, <1>3 DEF IInv, CountInv, CommitInv, BootInv
<1>5. HeldInv'
    BY Zenon, SlotFacts DEF IInv, TypeOK, HeldInv
<1>6. Coherent'
  <2> SUFFICES ASSUME NEW c \in Home, c \notin dirty', \A q \in Procs : held'[q] # c
               PROVE  cache'[c] \in {NoBuf, disk'[c]}
      BY Zenon DEF Coherent
  <2>1. c # b /\ \A q \in Procs : held[q] # c
      BY SlotFacts, Zenon DEF IInv, TypeOK, HeldInv
  <2> QED
      BY Zenon, <2>1 DEF IInv, TypeOK, Coherent
<1>7. PhaseInv' /\ HeadInv'
    BY Zenon, <1>3 DEF PhaseInv, HeadInv, InCommit
<1>8. LhInv'
    BY <1>3 DEF IInv, LhInv, Distinct, Logged
<1> QED
    BY Zenon, <1>1, <1>4, <1>5, <1>6, <1>7, <1>8 DEF IInv

LEMMA LogWriteIInv == ASSUME IInv, NEW p \in Procs, log_write(p) PROVE IInv'
<1> USE DEF log_write
<1>1. held[p] \in Home
    BY Zenon DEF IInv, TypeOK, HeldInv
<1>2. TypeOK'
    BY <1>1 DEF IInv, TypeOK, PCs, InOp
<1>3. p \in Active /\ Active' = Active
    BY Zenon DEF IInv, TypeOK, Active, InOp
<1>4. /\ committing = 0 /\ head = <<>> /\ outstanding > 0
      /\ \A q \in Procs : pc[q] \notin InCommit /\ pc'[q] \notin InCommit
    BY <1>3, ActiveFacts DEF IInv, TypeOK, InCommit
<1>5. CountInv' /\ CommitInv' /\ BootInv'
    BY Zenon, <1>3, <1>4 DEF IInv, CountInv, CommitInv, BootInv
<1>6. HeldInv'
    BY Zenon DEF IInv, TypeOK, HeldInv
<1>7. Coherent'
  <2> SUFFICES ASSUME NEW c \in Home, c \notin dirty', \A q \in Procs : held'[q] # c
               PROVE  cache'[c] \in {NoBuf, disk'[c]}
      BY Zenon DEF Coherent
  <2>1. c \notin dirty /\ \A q \in Procs : held[q] # c
      BY Zenon DEF IInv, TypeOK
  <2> QED
      BY Zenon, <2>1 DEF IInv, Coherent
<1>8. PhaseInv' /\ HeadInv'
    BY Zenon, <1>4 DEF PhaseInv, HeadInv, InCommit
<1>9. LhInv'
  <2>1. Distinct(lh') /\ Logged(lh') = Logged(lh) \union {held[p]}
    <3>1. CASE held[p] \in Logged(lh)
        BY Zenon, <3>1 DEF IInv, LhInv
    <3>2. CASE held[p] \notin Logged(lh)
      <4>1. /\ lh \in Seq(Home) /\ lh' = Append(lh, held[p])
            /\ DOMAIN lh = 1 .. Len(lh) /\ DOMAIN lh' = 1 .. Len(lh) + 1
            /\ \A i \in 1 .. Len(lh) : lh'[i] = lh[i]
            /\ lh'[Len(lh) + 1] = held[p]
          BY <1>1, <3>2 DEF IInv, TypeOK
      <4>2. Distinct(lh')
          BY <3>2, <4>1 DEF IInv, LhInv, Distinct, Logged
      <4>3. Logged(lh') = Logged(lh) \union {held[p]}
          BY <4>1 DEF Logged
      <4> QED
          BY Zenon, <4>2, <4>3
    <3> QED
        BY Zenon, <3>1, <3>2
  <2> QED
      BY Zenon, <1>4, <2>1 DEF IInv, LhInv
<1> QED
    BY Zenon, <1>2, <1>5, <1>6, <1>7, <1>8, <1>9 DEF IInv

LEMMA EndIInv == ASSUME IInv, NEW p \in Procs, end_op(p) PROVE IInv'
<1> USE DEF end_op
<1>1. p \in Active
    BY Zenon DEF Active, InOp
<1>2. /\ IsFiniteSet(Active) /\ outstanding \in Nat \ {0}
      /\ committing = 0 /\ head = <<>> /\ boot = "done"
      /\ \A q \in Procs : pc[q] \notin InCommit
      /\ outstanding = 1 => Active = {p}
    BY Zenon, <1>1, ActiveFacts
<1>3. \A q \in Procs : q # p /\ pc[q] # "sleeping" => pc'[q] = pc[q]
    BY Zenon, <1>2 DEF IInv, TypeOK, Wakeup
<1>4. \A q \in Procs : q # p /\ pc[q] = "sleeping" => pc'[q] \in {"sleeping", "woken"}
    BY Zenon, <1>2 DEF IInv, TypeOK, Wakeup
<1>5. /\ outstanding' = 0 => pc'[p] = IF lh = <<>> THEN "end_commit" ELSE "write_log"
      /\ outstanding' # 0 => pc'[p] = "idle"
      /\ pc' \in [Procs -> PCs]
    BY <1>2 DEF IInv, TypeOK, Wakeup, PCs, InOp, InCommit
<1>6. TypeOK'
    BY <1>2, <1>5 DEF IInv, TypeOK
<1>7. Active' = Active \ {p}
    BY Zenon, <1>3, <1>4, <1>5 DEF Active, InOp
<1>8. CountInv'
    BY <1>1, <1>2, <1>7, FS_RemoveElement, Zenon DEF IInv, CountInv
<1>9. \A q \in Procs : pc'[q] \in InCommit => q = p /\ committing' = 1 /\ outstanding' = 0
    BY Zenon, <1>2, <1>3, <1>4, <1>5 DEF InCommit
<1>10. CommitInv' /\ BootInv'
    BY <1>2, <1>9 DEF CommitInv, BootInv
<1>11. HeldInv'
    BY Zenon, <1>3, <1>4, <1>5 DEF IInv, TypeOK, HeldInv
<1>12. Coherent'
    BY Zenon DEF IInv, Coherent
<1>13. PhaseInv'
  <2>1. outstanding' = 0 /\ lh # <<>> => tail' = 0 /\ Len(lh') > 0
      BY <1>2 DEF IInv, TypeOK
  <2> QED
      BY <1>2, <1>5, <1>9, <2>1 DEF PhaseInv, InCommit
<1>14. HeadInv'
    BY Zenon, <1>2 DEF HeadInv
<1>15. LhInv'
  <2>1. lh' # <<>> => outstanding' > 0 \/ pc'[p] \in InCommit
      BY <1>2, <1>5 DEF InCommit
  <2> QED
      BY Zenon, <2>1 DEF IInv, LhInv
<1> QED
    BY Zenon, <1>6, <1>8, <1>10, <1>11, <1>12, <1>13, <1>14, <1>15 DEF IInv

\* Facts about the process that commits, used by each step of commit().
LEMMA CommitFacts ==
    ASSUME IInv, LogFits, NEW p \in Procs, pc[p] \in InCommit
    PROVE  /\ outstanding = 0 /\ committing = 1 /\ boot = "done"
           /\ \A q \in Procs : q # p => pc[q] \notin InCommit
           /\ \A q \in Procs : pc[q] \notin InOp \union {"panic"} /\ held[q] = NoBuf
           /\ lh \in Seq(Home) /\ DOMAIN lh = 1 .. Len(lh) /\ Len(lh) \in Nat
           /\ \A i \in 1 .. Len(lh) : lh[i] \in Home /\ Slot(i - 1) \in Addr
                                       /\ Slot(i - 1) \notin Home
           /\ \A i, j \in 1 .. Len(lh) : Slot(i - 1) = Slot(j - 1) => i = j
<1>1. outstanding = 0 /\ committing = 1
    BY Zenon DEF IInv, CommitInv
<1>2. boot = "done"
    BY Zenon DEF IInv, BootInv, InCommit
<1>3. \A q \in Procs : q # p => pc[q] \notin InCommit
    BY Zenon DEF IInv, CommitInv
<1>4. Active = {}
  <2>1. IsFiniteSet(Active)
      BY Zenon, FS_Subset, LogAssumption DEF Active
  <2> QED
      BY <1>1, <2>1, FS_EmptySet, Zenon DEF IInv, CountInv
<1>5. \A q \in Procs : pc[q] \notin InOp \union {"panic"} /\ held[q] = NoBuf
    BY Zenon, <1>4 DEF IInv, HeldInv, Active, InOp
<1>6. lh \in Seq(Home) /\ DOMAIN lh = 1 .. Len(lh) /\ Len(lh) \in Nat
    BY DEF IInv, TypeOK
<1>7. \A i \in 1 .. Len(lh) : i \in 1 .. LogSize - 1 /\ lh[i] \in Home
    BY <1>6, LogAssumption DEF LogFits
<1> QED
    BY Zenon, <1>1, <1>2, <1>3, <1>5, <1>6, <1>7, SlotFacts

LEMMA WriteLogIInv == ASSUME IInv, LogFits, NEW p \in Procs, write_log(p) PROVE IInv'
<1> USE DEF write_log
<1>1. pc[p] \in InCommit
    BY Zenon DEF InCommit
<1>2. tail < Len(lh) /\ tail \in Nat /\ \A i \in 1 .. tail : Copied(i)
    BY Zenon DEF IInv, TypeOK, PhaseInv
<1> DEFINE a == Slot(tail)
           d == Bread(lh[tail + 1])
<1>3. a \in Addr /\ a \notin Home /\ a = Slot((tail + 1) - 1) /\ lh[tail + 1] \in Home
    BY <1>1, <1>2, CommitFacts
<1>4. d \in Data
    BY Zenon, <1>3, SlotFacts DEF IInv, TypeOK, Bread
<1>5. disk' = [disk EXCEPT ![a] = d] /\ cache' = cache /\ dirty' = dirty
    BY Zenon, <1>3 DEF Bwrite, IInv, TypeOK
<1> HIDE DEF a, d
<1>6. TypeOK'
  <2>1. disk' \in [Addr -> Data]
      BY <1>4, <1>5, Zenon DEF IInv, TypeOK
  <2>2. tail' \in Nat /\ pc' \in [Procs -> PCs]
      BY <1>2 DEF IInv, TypeOK, PCs, InCommit
  <2> QED
      BY Zenon, <1>5, <2>1, <2>2 DEF IInv, TypeOK
<1>7. \A b \in Home : disk'[b] = disk[b] /\ Bread(b)' = Bread(b)
    BY Zenon, <1>3, <1>5, SlotFacts DEF IInv, TypeOK, Bread
<1>8. \A i \in 1 .. tail + 1 : Copied(i)'
  <2> SUFFICES ASSUME NEW i \in 1 .. tail + 1 PROVE Copied(i)'
      BY Zenon
  <2>1. i \in 1 .. Len(lh)
      BY <1>1, <1>2, CommitFacts
  <2>2. Bread(lh[i])' = Bread(lh[i])
      BY Zenon, <1>1, <1>7, <2>1, CommitFacts DEF Bread
  <2>3. CASE i = tail + 1
      BY Zenon, <1>2, <1>3, <1>5, <2>2, <2>3 DEF Copied, IInv, TypeOK, d, a, Slot
  <2>4. CASE i # tail + 1
    <3>1. Slot(i - 1) # a
        BY <1>1, <1>2, <1>3, <2>1, <2>4, CommitFacts
    <3>2. disk'[Slot(i - 1)] = disk[Slot(i - 1)]
        BY Zenon, <1>5, <3>1, <2>1, <1>1, CommitFacts DEF IInv, TypeOK
    <3> QED
        BY <1>2, <2>2, <2>4, <3>2 DEF Copied, Slot
  <2> QED
      BY Zenon, <2>3, <2>4
<1>9. pc'[p] \in {"write_log", "write_head"} /\ \A q \in Procs : q # p => pc'[q] = pc[q]
    BY Zenon DEF IInv, TypeOK
<1>10. Active' = Active
    BY Zenon, <1>9 DEF Active, InOp
<1>11. CountInv' /\ CommitInv' /\ BootInv'
    BY Zenon, <1>1, <1>9, <1>10, CommitFacts DEF IInv, CountInv, CommitInv, BootInv, InCommit
<1>12. HeldInv'
    BY Zenon, <1>1, <1>9, CommitFacts DEF HeldInv, InOp
<1>13. Coherent'
    BY Zenon, <1>5, <1>7 DEF IInv, Coherent
<1>14. PhaseInv'
  <2>1. /\ pc'[p] = "write_log" => tail' < Len(lh') /\ tail' = tail + 1
        /\ pc'[p] = "write_head" => tail' = 0 /\ tail + 1 = Len(lh') /\ lh' # <<>>
      BY <1>2 DEF IInv, TypeOK
  <2>2. \A q \in Procs : q # p => pc'[q] \notin InCommit
      BY Zenon, <1>1, <1>9, CommitFacts
  <2>3. DOMAIN lh' = 1 .. Len(lh')
      BY Zenon, <1>1, CommitFacts
  <2> QED
      BY Zenon, <1>8, <1>9, <2>1, <2>2, <2>3 DEF PhaseInv, InCommit
<1>15. HeadInv'
    BY Zenon, <1>1, <1>9, CommitFacts DEF IInv, HeadInv, InCommit
<1>16. LhInv'
    BY Zenon, <1>1, <1>5, <1>9, CommitFacts DEF IInv, LhInv, InCommit
<1> QED
    BY Zenon, <1>6, <1>11, <1>12, <1>13, <1>14, <1>15, <1>16 DEF IInv

LEMMA WriteHeadIInv == ASSUME IInv, LogFits, NEW p \in Procs, write_head(p) PROVE IInv'
<1> USE DEF write_head
<1>1. pc[p] \in InCommit
    BY Zenon DEF InCommit
<1>2. tail = 0 /\ lh # <<>> /\ \A i \in DOMAIN lh : Copied(i)
    BY Zenon DEF IInv, PhaseInv
<1>3. TypeOK'
    BY Zenon DEF IInv, TypeOK, PCs, InCommit
<1>4. pc'[p] = "install_trans" /\ \A q \in Procs : q # p => pc'[q] = pc[q]
    BY Zenon DEF IInv, TypeOK
<1>5. Active' = Active
    BY Zenon, <1>4 DEF Active, InOp
<1>6. CountInv' /\ CommitInv' /\ BootInv'
    BY Zenon, <1>1, <1>4, <1>5, CommitFacts DEF IInv, CountInv, CommitInv, BootInv, InCommit
<1>7. HeldInv'
    BY Zenon, <1>1, <1>4, CommitFacts DEF HeldInv, InOp
<1>8. Coherent'
    BY Zenon DEF IInv, Coherent
<1>9. PhaseInv'
  <2>1. tail' < Len(lh')
      BY <1>2 DEF IInv, TypeOK
  <2>2. \A i \in DOMAIN lh' : Copied(i)'
      BY Zenon, <1>2 DEF Copied, Bread
  <2>3. \A q \in Procs : q # p => pc'[q] \notin InCommit
      BY Zenon, <1>1, <1>4, CommitFacts
  <2> QED
      BY <1>2, <1>4, <2>1, <2>2, <2>3 DEF PhaseInv, InCommit
<1>10. HeadInv'
    BY Zenon, <1>4 DEF HeadInv
<1>11. LhInv'
    BY Zenon, <1>4, LogAssumption DEF IInv, LhInv, LogFits, InCommit
<1> QED
    BY Zenon, <1>3, <1>6, <1>7, <1>8, <1>9, <1>10, <1>11 DEF IInv

\* One round of install_trans(), in commit() or in recovery.
LEMMA InstallFacts ==
    ASSUME TypeOK, LogFits, Distinct(lh), tail < Len(lh), InstallBlock, lh' = lh
    PROVE  LET b == lh[tail + 1]
           IN  /\ b \in Home
               /\ disk' = [disk EXCEPT ![b] = disk[Slot(tail)]]
               /\ cache' = [cache EXCEPT ![b] = disk[Slot(tail)]]
               /\ dirty' = dirty \ {b}
               /\ disk' \in [Addr -> Data] /\ cache' \in [Home -> Data \union {NoBuf}]
               /\ disk[Slot(tail)] \in Data
               /\ \A i \in 1 .. Len(lh) : disk'[Slot(i - 1)] = disk[Slot(i - 1)]
               /\ (\A i \in 1 .. tail : Installed(i)) => \A i \in 1 .. tail + 1 : Installed(i)'
<1> DEFINE b == lh[tail + 1]
<1>1. /\ DOMAIN lh = 1 .. Len(lh) /\ Len(lh) \in Nat /\ tail \in Nat
      /\ \A i \in 1 .. Len(lh) : lh[i] \in Home
    BY DEF TypeOK
<1>2. b \in Home /\ tail + 1 \in 1 .. Len(lh)
    BY <1>1
<1>3. \A i \in 1 .. Len(lh) : i \in 1 .. LogSize - 1
    BY <1>1, LogAssumption DEF LogFits
<1>4. \A i \in 1 .. Len(lh) : Slot(i - 1) \in Addr /\ Slot(i - 1) \notin Home
    BY Zenon, <1>3, SlotFacts
<1>5. Slot(tail) = Slot((tail + 1) - 1)
    BY <1>1 DEF Slot
<1>6. Slot(tail) \in Addr /\ Slot(tail) \notin Home
    BY Zenon, <1>2, <1>4, <1>5
<1>7. Bread(Slot(tail)) = disk[Slot(tail)] /\ disk[Slot(tail)] \in Data
    BY Zenon, <1>6 DEF Bread, TypeOK
<1>8. disk' = [disk EXCEPT ![b] = disk[Slot(tail)]] /\ dirty' = dirty \ {b}
    BY Zenon, <1>7 DEF InstallBlock, Bwrite
<1>9. cache' = [cache EXCEPT ![b] = disk[Slot(tail)]]
    BY <1>2, <1>7, Zenon DEF InstallBlock, Bwrite, TypeOK
<1>10. disk' \in [Addr -> Data] /\ cache' \in [Home -> Data \union {NoBuf}]
    BY Zenon, <1>2, <1>7, <1>8, <1>9, SlotFacts DEF TypeOK
<1> HIDE DEF b
<1>11. \A i \in 1 .. Len(lh) : disk'[Slot(i - 1)] = disk[Slot(i - 1)]
    BY Zenon, <1>2, <1>4, <1>8 DEF TypeOK
<1>12. ASSUME \A i \in 1 .. tail : Installed(i), NEW i \in 1 .. tail + 1
       PROVE  Installed(i)'
  <2>1. i \in 1 .. Len(lh)
      BY <1>1
  <2>2. CASE i = tail + 1
      BY Zenon, <1>2, <1>5, <1>8, <1>11, <2>1, <2>2, SlotFacts DEF Installed, TypeOK, b
  <2>3. CASE i # tail + 1
    <3>1. i \in 1 .. tail /\ lh[i] # b /\ lh[i] \in Addr
        BY <1>1, <1>2, <2>1, <2>3, SlotFacts DEF Distinct, b
    <3> QED
        BY Zenon, <1>8, <1>11, <1>12, <2>1, <3>1 DEF Installed, TypeOK
  <2> QED
      BY Zenon, <2>2, <2>3
<1> QED
    BY Zenon, <1>2, <1>7, <1>8, <1>9, <1>10, <1>11, <1>12 DEF b

LEMMA InstallIInv == ASSUME IInv, LogFits, NEW p \in Procs, install_trans(p) PROVE IInv'
<1> USE DEF install_trans
<1>1. pc[p] \in InCommit
    BY Zenon DEF InCommit
<1>2. /\ head = lh /\ tail < Len(lh) /\ tail \in Nat
      /\ \A i \in DOMAIN lh : Copied(i)
      /\ \A i \in 1 .. tail : Installed(i) /\ lh[i] \notin dirty
    BY Zenon DEF IInv, TypeOK, PhaseInv
<1> DEFINE b == lh[tail + 1]
<1>3. /\ b \in Home
      /\ disk' = [disk EXCEPT ![b] = disk[Slot(tail)]]
      /\ cache' = [cache EXCEPT ![b] = disk[Slot(tail)]]
      /\ dirty' = dirty \ {b}
      /\ disk' \in [Addr -> Data] /\ cache' \in [Home -> Data \union {NoBuf}]
      /\ disk[Slot(tail)] \in Data
      /\ \A i \in 1 .. Len(lh) : disk'[Slot(i - 1)] = disk[Slot(i - 1)]
      /\ \A i \in 1 .. tail + 1 : Installed(i)'
    BY Zenon, <1>2, InstallFacts DEF IInv, LhInv
<1>4. disk[Slot(tail)] = Bread(b)
    BY <1>1, <1>2, CommitFacts DEF Copied, Slot
<1> HIDE DEF b
<1>5. TypeOK'
    BY <1>2, <1>3 DEF IInv, TypeOK, PCs, InCommit
<1>6. \A c \in Home : Bread(c)' = Bread(c)
    BY Zenon, <1>3, <1>4, SlotFacts, LogAssumption DEF IInv, TypeOK, Bread
<1>7. \A i \in DOMAIN lh : Copied(i)'
  <2> SUFFICES ASSUME NEW i \in DOMAIN lh PROVE Copied(i)'
      BY Zenon
  <2>1. Bread(lh[i])' = Bread(lh[i])
      BY Zenon, <1>1, <1>6, CommitFacts DEF Bread
  <2> QED
      BY Zenon, <1>1, <1>2, <1>3, <2>1, CommitFacts DEF Copied
<1>8. pc'[p] \in {"install_trans", "clear_head"} /\ \A q \in Procs : q # p => pc'[q] = pc[q]
    BY Zenon DEF IInv, TypeOK
<1>9. Active' = Active
    BY Zenon, <1>8 DEF Active, InOp
<1>10. CountInv' /\ CommitInv' /\ BootInv'
    BY Zenon, <1>1, <1>8, <1>9, CommitFacts DEF IInv, CountInv, CommitInv, BootInv, InCommit
<1>11. HeldInv'
    BY Zenon, <1>1, <1>8, CommitFacts DEF HeldInv, InOp
<1>12. Coherent'
    BY Zenon, <1>3, SlotFacts DEF IInv, TypeOK, Coherent
<1>13. \A i \in 1 .. tail + 1 : lh[i] \notin dirty'
    BY <1>2, <1>3 DEF b
<1>14. PhaseInv'
  <2>1. /\ pc'[p] = "install_trans" => tail' < Len(lh')
        /\ pc'[p] = "clear_head" => tail + 1 = Len(lh)
      BY <1>2 DEF IInv, TypeOK
  <2>2. DOMAIN lh' = 1 .. Len(lh)
      BY Zenon, <1>1, CommitFacts
  <2>3. pc'[p] = "clear_head" => dirty' = {}
    <3>1. dirty' \subseteq Logged(lh)
        BY Zenon, <1>3 DEF IInv, LhInv
    <3> QED
        BY Zenon, <1>13, <2>1, <2>2, <3>1 DEF Logged
  <2>4. \A q \in Procs : q # p => pc'[q] \notin InCommit
      BY Zenon, <1>1, <1>8, CommitFacts
  <2> QED
      BY <1>2, <1>3, <1>7, <1>8, <1>13, <2>1, <2>2, <2>3, <2>4, Zenon DEF PhaseInv, InCommit
<1>15. HeadInv'
    BY Zenon, <1>8 DEF HeadInv
<1>16. LhInv'
    BY Zenon, <1>3, <1>8 DEF IInv, LhInv, InCommit
<1> QED
    BY Zenon, <1>5, <1>10, <1>11, <1>12, <1>14, <1>15, <1>16 DEF IInv

LEMMA ClearIInv == ASSUME IInv, LogFits, NEW p \in Procs, clear_head(p) PROVE IInv'
<1> USE DEF clear_head
<1>1. pc[p] \in InCommit
    BY Zenon DEF InCommit
<1>2. dirty = {}
    BY Zenon DEF IInv, PhaseInv
<1>3. TypeOK'
    BY DEF IInv, TypeOK, PCs, InCommit
<1>4. pc'[p] = "end_commit" /\ \A q \in Procs : q # p => pc'[q] = pc[q]
    BY Zenon DEF IInv, TypeOK
<1>5. Active' = Active
    BY Zenon, <1>4 DEF Active, InOp
<1>6. CountInv' /\ CommitInv' /\ BootInv'
    BY Zenon, <1>1, <1>4, <1>5, CommitFacts DEF IInv, CountInv, CommitInv, BootInv, InCommit
<1>7. HeldInv' /\ Coherent'
    BY Zenon, <1>1, <1>4, CommitFacts DEF IInv, HeldInv, Coherent, InOp
<1>8. PhaseInv' /\ HeadInv'
  <2>1. \A q \in Procs : q # p => pc'[q] \notin InCommit
      BY Zenon, <1>1, <1>4, CommitFacts
  <2> QED
      BY Zenon, <1>4, <2>1 DEF PhaseInv, HeadInv, InCommit
<1>9. LhInv'
    BY <1>2, LogAssumption DEF LhInv, Distinct, Logged
<1> QED
    BY Zenon, <1>3, <1>6, <1>7, <1>8, <1>9 DEF IInv

LEMMA EndCommitIInv == ASSUME IInv, LogFits, NEW p \in Procs, end_commit(p) PROVE IInv'
<1> USE DEF end_commit
<1>1. pc[p] \in InCommit
    BY Zenon DEF InCommit
<1>2. lh = <<>>
    BY Zenon DEF IInv, PhaseInv
<1>3. /\ pc'[p] = "idle" /\ pc' \in [Procs -> PCs]
      /\ \A q \in Procs : q # p => pc'[q] = IF pc[q] = "sleeping" THEN "woken" ELSE pc[q]
    BY Zenon DEF IInv, TypeOK, Wakeup, PCs
<1>4. TypeOK'
    BY <1>3, Zenon DEF IInv, TypeOK
<1>5. Active' = Active
    BY <1>3, Zenon DEF Active, InOp
<1>6. \A q \in Procs : pc'[q] \notin InCommit
    BY <1>1, <1>3, CommitFacts, Zenon DEF InCommit
<1>7. CountInv' /\ CommitInv' /\ BootInv'
    BY <1>1, <1>5, <1>6, CommitFacts, Zenon DEF IInv, CountInv, CommitInv, BootInv
<1>8. HeldInv' /\ Coherent'
    BY <1>1, <1>3, CommitFacts, Zenon DEF IInv, HeldInv, Coherent, InOp
<1>9. head = <<>>
    BY <1>1, CommitFacts, Zenon DEF IInv, HeadInv, InCommit
<1>10. PhaseInv' /\ HeadInv' /\ LhInv'
    BY <1>2, <1>6, <1>9, Zenon DEF IInv, PhaseInv, HeadInv, LhInv, InCommit
<1> QED
    BY Zenon, <1>4, <1>7, <1>8, <1>10 DEF IInv

LEMMA RecoverIInv == ASSUME IInv, LogFits, Recover PROVE IInv'
<1>1. boot # "done" /\ UNCHANGED <<outstanding, committing, pc, held, nw>>
    BY Zenon DEF Recover, recover_read_head, recover_install, recover_clear
<1>2. /\ \A p \in Procs : pc[p] = "idle" /\ held[p] = NoBuf
      /\ committing = 0 /\ outstanding = 0 /\ dirty = {}
    BY Zenon, <1>1 DEF IInv, BootInv
<1>3. CountInv' /\ CommitInv' /\ HeldInv'
    BY Zenon, <1>1, <1>2 DEF IInv, CountInv, Active, CommitInv, HeldInv, InCommit
<1>4. PhaseInv'
    BY Zenon, <1>1, <1>2 DEF PhaseInv
<1>5. CASE recover_read_head
  <2> USE <1>5 DEF recover_read_head
  <2>1. TypeOK' /\ Coherent'
      BY Zenon DEF IInv, TypeOK, Coherent
  <2>2. BootInv'
    <3>1. boot' = "install_trans" => tail' < Len(lh')
        BY DEF IInv, TypeOK
    <3>2. boot' = "clear_head" => DOMAIN lh' = {}
        BY DEF IInv, TypeOK
    <3> QED
        BY <1>1, <1>2, <3>1, <3>2 DEF BootInv
  <2>3. HeadInv' /\ LhInv'
      BY Zenon, <1>2 DEF IInv, HeadInv, LhInv
  <2> QED
      BY Zenon, <1>3, <1>4, <2>1, <2>2, <2>3 DEF IInv
<1>6. CASE recover_install
  <2> USE <1>6 DEF recover_install
  <2>1. lh = head /\ tail < Len(lh) /\ tail \in Nat /\ \A i \in 1 .. tail : Installed(i)
      BY Zenon DEF IInv, TypeOK, BootInv
  <2> DEFINE b == lh[tail + 1]
  <2>2. /\ b \in Home
        /\ disk' = [disk EXCEPT ![b] = disk[Slot(tail)]]
        /\ cache' = [cache EXCEPT ![b] = disk[Slot(tail)]]
        /\ dirty' = dirty \ {b}
        /\ disk' \in [Addr -> Data] /\ cache' \in [Home -> Data \union {NoBuf}]
        /\ \A i \in 1 .. tail + 1 : Installed(i)'
      BY Zenon, <2>1, InstallFacts DEF IInv, LhInv
  <2> HIDE DEF b
  <2>3. TypeOK'
      BY <2>1, <2>2 DEF IInv, TypeOK
  <2>4. Coherent'
      BY Zenon, <1>2, <2>2, SlotFacts DEF IInv, TypeOK, Coherent
  <2>5. boot' \in {"install_trans", "clear_head"} /\ dirty' = {}
      BY Zenon, <1>2, <2>2
  <2>6. /\ boot' = "install_trans" => tail' < Len(lh') /\ tail' = tail + 1
        /\ boot' = "clear_head" => tail + 1 = Len(lh)
        /\ DOMAIN lh' = 1 .. Len(lh)
      BY <2>1 DEF IInv, TypeOK
  <2>7. BootInv'
    <3>1. /\ boot' = "install_trans" => \A i \in 1 .. tail' : Installed(i)'
          /\ boot' = "clear_head" => \A i \in DOMAIN lh' : Installed(i)'
        BY Zenon, <2>2, <2>6
    <3>2. lh' = head' /\ \A p \in Procs : pc'[p] = "idle" /\ held'[p] = NoBuf
        BY Zenon, <1>1, <1>2, <2>1
    <3> QED
        BY Zenon, <1>1, <1>2, <2>5, <2>6, <3>1, <3>2 DEF BootInv
  <2>8. HeadInv' /\ LhInv'
      BY Zenon, <2>5 DEF IInv, HeadInv, LhInv
  <2> QED
      BY Zenon, <1>3, <1>4, <2>3, <2>4, <2>7, <2>8 DEF IInv
<1>7. CASE recover_clear
  <2> USE <1>7 DEF recover_clear
  <2>1. TypeOK' /\ Coherent' /\ BootInv' /\ HeadInv'
      BY DEF IInv, TypeOK, Coherent, BootInv, HeadInv
  <2>2. LhInv'
      BY <1>2, LogAssumption DEF LhInv, Distinct, Logged
  <2> QED
      BY Zenon, <1>3, <1>4, <2>1, <2>2 DEF IInv
<1> QED
    BY Zenon, <1>5, <1>6, <1>7 DEF Recover

LEMMA EvictIInv == ASSUME IInv, NEW b \in Home, evict(b) PROVE IInv'
<1> USE DEF evict
<1>1. cache[b] = disk[b]
    BY Zenon DEF IInv, Coherent
<1>2. \A c \in Home : Bread(c)' = Bread(c)
    BY Zenon, <1>1 DEF IInv, TypeOK, Bread
<1>3. TypeOK' /\ BootInv' /\ HeldInv' /\ CommitInv' /\ HeadInv' /\ LhInv'
    BY Zenon DEF IInv, TypeOK, BootInv, Installed, HeldInv, CommitInv, HeadInv, LhInv
<1>4. CountInv'
    BY Zenon DEF IInv, CountInv, Active
<1>5. Coherent'
    BY Zenon DEF IInv, TypeOK, Coherent
<1>6. PhaseInv'
  <2>1. ASSUME NEW i \in DOMAIN lh PROVE Copied(i)' <=> Copied(i)
    <3>1. lh[i] \in Home
        BY DEF IInv, TypeOK
    <3>2. Bread(lh[i])' = Bread(lh[i])
        BY Zenon, <1>2, <3>1 DEF Bread
    <3> QED
        BY Zenon, <3>2 DEF Copied
  <2>2. DOMAIN lh = 1 .. Len(lh) /\ Len(lh) \in Nat /\ tail \in Nat
      BY DEF IInv, TypeOK
  <2> QED
      BY <2>1, <2>2 DEF IInv, PhaseInv, Installed
<1> QED
    BY Zenon, <1>3, <1>4, <1>5, <1>6 DEF IInv

-----------------------------------------------------------------------------
\* Every step of log.c, of recovery, of the buffer cache and of a power
\* failure keeps the invariant as long as the log fits its region.
LEMMA NextIInv == ASSUME IInv, LogFits, [Next]_vars PROVE IInv'
<1>1. ASSUME NEW p \in Procs, Step(p) PROVE IInv'
    BY Zenon, <1>1, BeginIInv, LogWriteIInv, EndIInv, ModifyIInv, WriteLogIInv,
       WriteHeadIInv, InstallIInv, ClearIInv, EndCommitIInv DEF Step
<1>2. CASE UNCHANGED vars
    BY <1>2, Zenon DEF vars, memory, IInv, TypeOK, BootInv, Coherent, HeldInv, CountInv, Active,
       CommitInv, PhaseInv, HeadInv, LhInv, Copied, Installed, Bread
<1> QED
    BY Zenon, <1>1, <1>2, RecoverIInv, EvictIInv, CrashIInv DEF Next

\* The inductive invariant behind the results on log.c: what the buffers, the
\* log and the header say of each other at every step of commit and recovery.
THEOREM InductiveInvariant == Spec /\ []LogFits => []IInv
BY InitIInv, NextIInv, PTL DEF Spec

-----------------------------------------------------------------------------
\* A process in begin_op() sleeps only while a commit or another call is
\* under way, and each of those wakes it at its end (log.c:159, 169).
LEMMA SleeperStep ==
    ASSUME IInv, IInv', SleeperHasWaker, [Next]_vars PROVE SleeperHasWaker'
<1> SUFFICES ASSUME NEW p \in Procs, pc'[p] = "sleeping", committing' # 1, outstanding' = 0
             PROVE  FALSE
    BY DEF SleeperHasWaker, IInv, TypeOK
<1>1. pc[p] = "sleeping" => committing = 1 \/ outstanding > 0
    BY Zenon DEF SleeperHasWaker
<1>2. ASSUME NEW q \in Procs, begin_op(q) PROVE FALSE
  <2>1. committing = 0 /\ outstanding = 0
      BY <1>2 DEF begin_op, IInv, TypeOK
  <2>2. boot = "done" /\ lh = <<>>
      BY <1>2, <2>1 DEF begin_op, IInv, LhInv, CommitInv
  <2>3. ~MustWait
      BY <2>1, <2>2, LogAssumption DEF MustWait
  <2> QED
      BY <1>2, <2>1, <2>3 DEF begin_op
<1>3. ASSUME NEW q \in Procs, end_op(q) PROVE FALSE
    BY Zenon, <1>3 DEF end_op, Wakeup, IInv, TypeOK
<1>4. ASSUME NEW q \in Procs, end_commit(q) PROVE FALSE
    BY Zenon, <1>4 DEF end_commit, Wakeup, IInv, TypeOK
<1>5. ASSUME NEW q \in Procs, Step(q), ~begin_op(q), ~end_op(q), ~end_commit(q) PROVE FALSE
    BY <1>1, <1>5 DEF Step, log_write, modify, write_log, write_head, install_trans,
       clear_head, IInv, TypeOK
<1>6. CASE Recover \/ crash \/ UNCHANGED vars \/ \E b \in Home : evict(b)
    BY <1>1, <1>6 DEF Recover, recover_read_head, recover_install, recover_clear, crash,
       Booting, evict, vars, memory, IInv, TypeOK
<1> QED
    BY Zenon, <1>2, <1>3, <1>4, <1>5, <1>6 DEF Next

\* The invariants the model checker looks at follow from the inductive one.
LEMMA Consequences ==
    ASSUME IInv
    PROVE  CommitAlone /\ UncommittedPinned /\ DurableWhenIdle
<1>1. CommitAlone
  <2> SUFFICES ASSUME NEW p \in Procs, pc[p] \in InCommit, NEW q \in Procs \ {p}
               PROVE  /\ committing = 1 /\ outstanding = 0
                      /\ pc[q] \notin InOp \union InCommit
      BY Zenon DEF IInv, CommitInv, CommitAlone
  <2>1. committing = 1 /\ outstanding = 0 /\ pc[q] \notin InCommit
      BY Zenon DEF IInv, CommitInv
  <2>2. q \notin Active
      BY Zenon, <2>1, ActiveFacts
  <2> QED
      BY Zenon, <2>1, <2>2 DEF Active
<1>2. UncommittedPinned
    BY Zenon DEF IInv, Coherent, UncommittedPinned, Bread
<1>3. DurableWhenIdle
  <2> SUFFICES ASSUME boot = "done", \A p \in Procs : pc[p] \in {"idle", "sleeping", "woken"}
               PROVE  Current = Durable /\ dirty = {} /\ head = <<>>
      BY Zenon DEF DurableWhenIdle
  <2>1. head = <<>>
      BY Zenon DEF IInv, HeadInv
  <2>2. Active = {}
      BY Zenon DEF Active, InOp
  <2>3. outstanding = 0
      BY Zenon, <2>2, FS_EmptySet DEF IInv, CountInv
  <2>4. lh = <<>>
      BY <2>3 DEF IInv, LhInv, InCommit
  <2>5. dirty = {}
      BY <2>4 DEF IInv, LhInv, Logged
  <2>6. \A b \in Home : Bread(b) = disk[b]
      BY Zenon, <2>5, SlotFacts DEF IInv, HeldInv, Coherent, Bread
  <2>7. Logged(head) = {}
      BY <2>1 DEF Logged
  <2> QED
      BY Zenon, <2>1, <2>5, <2>6, <2>7 DEF Current, Durable
<1> QED
    BY Zenon, <1>1, <1>2, <1>3

\* What log.c keeps true at every moment, for any number of processes, blocks
\* and contents, provided transactions fit the log region.
THEOREM Safety ==
    Spec /\ []LogFits =>
        [](TypeOK /\ CommitAlone /\ UncommittedPinned /\ DurableWhenIdle /\ SleeperHasWaker)
<1>1. Init => SleeperHasWaker
    BY Zenon DEF Init, SleeperHasWaker
<1>2. IInv => TypeOK
    BY Zenon DEF IInv
<1> QED
    BY <1>1, <1>2, InductiveInvariant, SleeperStep, Consequences, PTL DEF Spec

-----------------------------------------------------------------------------
(* The log writes ahead, and implements AtomicDisk; and begin_op()'s        *)
(* reservations keep it within its space.                                  *)

\* write_log() touches log slots only.
LEMMA WriteLogEffect ==
    ASSUME IInv, LogFits, NEW p \in Procs, write_log(p)
    PROVE  \A b \in Home : disk'[b] = disk[b] /\ Bread(b)' = Bread(b)
<1>1. pc[p] \in InCommit
    BY Zenon DEF write_log, InCommit
<1>2. tail < Len(lh) /\ tail \in Nat
    BY Zenon DEF IInv, TypeOK, PhaseInv, write_log
<1>3. Slot(tail) \notin Home
  <2>1. tail + 1 \in 1 .. Len(lh) /\ Slot(tail) = Slot((tail + 1) - 1)
      BY <1>1, <1>2, CommitFacts DEF Slot
  <2> QED
      BY Zenon, <1>1, <2>1, CommitFacts
<1>4. disk' = [disk EXCEPT ![Slot(tail)] = Bread(lh[tail + 1])] /\ cache' = cache
    BY Zenon, <1>3 DEF write_log, Bwrite, IInv, TypeOK
<1> QED
    BY Zenon, <1>3, <1>4, SlotFacts DEF IInv, TypeOK, Bread

\* An install writes a block of the committed transaction with its log copy.
LEMMA InstallEffect ==
    ASSUME IInv, LogFits,
           \/ \E p \in Procs : install_trans(p)
           \/ recover_install
    PROVE  /\ head' = head /\ lh' = lh /\ lh = head /\ lh[tail + 1] \in Logged(head)
           /\ \A b \in Home : b # lh[tail + 1] => disk'[b] = disk[b]
           /\ \A i \in DOMAIN head : disk'[Slot(i - 1)] = disk[Slot(i - 1)]
           /\ boot = "done" => \A b \in Home : Bread(b)' = Bread(b)
<1>1. /\ lh = head /\ tail < Len(lh) /\ tail \in Nat
      /\ boot = "done" => Copied(tail + 1)
      /\ InstallBlock /\ lh' = lh /\ head' = head
      /\ DOMAIN lh = 1 .. Len(lh)
    BY DEF IInv, TypeOK, PhaseInv, BootInv, install_trans, recover_install
<1> DEFINE b == lh[tail + 1]
<1>2. /\ b \in Home
      /\ disk' = [disk EXCEPT ![b] = disk[Slot(tail)]]
      /\ cache' = [cache EXCEPT ![b] = disk[Slot(tail)]]
      /\ \A i \in 1 .. Len(lh) : disk'[Slot(i - 1)] = disk[Slot(i - 1)]
    BY Zenon, <1>1, InstallFacts DEF IInv, LhInv
<1>3. b \in Logged(head)
    BY <1>1 DEF Logged
<1>4. boot = "done" => disk[Slot(tail)] = Bread(b)
    BY <1>1 DEF Copied, Slot
<1> HIDE DEF b
<1>5. \A c \in Home : c # b => disk'[c] = disk[c]
    BY Zenon, <1>2, SlotFacts DEF IInv, TypeOK
<1>6. boot = "done" => \A c \in Home : Bread(c)' = Bread(c)
    BY Zenon, <1>2, <1>4, SlotFacts, LogAssumption DEF IInv, TypeOK, Bread
<1> QED
    BY Zenon, <1>1, <1>2, <1>3, <1>5, <1>6 DEF b

\* Steps that write no home block, other than the installs.
LEMMA DiskUnchanged ==
    ASSUME [Next]_vars, IInv,
           ~(\E p \in Procs : install_trans(p) \/ write_log(p)), ~recover_install
    PROVE  disk' = disk
BY Zenon DEF Next, Step, begin_op, modify, log_write, end_op, write_head, clear_head, end_commit,
       Recover, recover_read_head, recover_clear, evict, crash, vars

\* install_trans() overwrites a home block only while the on-disk header
\* lists it, in a commit as in recovery.
THEOREM WriteAheadHolds == Spec /\ []LogFits => WriteAhead
<1> DEFINE A == \A b \in Home : disk'[b] # disk[b] => b \in Logged(head)
<1>1. ASSUME IInv, LogFits, [Next]_vars PROVE A
  <2>1. ASSUME NEW p \in Procs, write_log(p) PROVE A
      BY Zenon, <1>1, <2>1, WriteLogEffect
  <2>2. CASE \/ \E p \in Procs : install_trans(p)
             \/ recover_install
      BY Zenon, <1>1, <2>2, InstallEffect
  <2>3. CASE disk' = disk
      BY Zenon, <2>3
  <2> QED
      BY Zenon, <1>1, <2>1, <2>2, <2>3, DiskUnchanged
<1>2. IInv /\ LogFits /\ [Next]_vars => [A]_vars
    BY Zenon, <1>1
<1> QED
    BY <1>2, InductiveInvariant, PTL DEF Spec, WriteAhead

LEMMA DurableSame ==
    ASSUME head' = head,
           \A b \in Home : b \notin Logged(head) => disk'[b] = disk[b],
           \A i \in DOMAIN head : disk'[Slot(i - 1)] = disk[Slot(i - 1)]
    PROVE  Durable' = Durable
<1> SUFFICES ASSUME NEW b \in Home PROVE Durable'[b] = Durable[b]
    BY Zenon DEF Durable
<1>1. CASE b \in Logged(head)
  <2> DEFINE i == CHOOSE i \in DOMAIN head : head[i] = b
  <2>1. i \in DOMAIN head
      BY Zenon, <1>1 DEF Logged
  <2>2. Durable[b] = disk[Slot(i - 1)] /\ Durable'[b] = disk'[Slot(i - 1)]
      BY Zenon, <1>1 DEF Durable, Slot
  <2> QED
      BY Zenon, <2>1, <2>2
<1>2. CASE b \notin Logged(head)
    BY Zenon, <1>2 DEF Durable
<1> QED
    BY Zenon, <1>1, <1>2

\* Once everything is installed, the log adds nothing to the disk.
LEMMA DurableInstalled ==
    ASSUME \A i \in DOMAIN head : disk[head[i]] = disk[Slot(i - 1)]
    PROVE  Durable = [b \in Home |-> disk[b]]
<1> SUFFICES ASSUME NEW b \in Home PROVE Durable[b] = disk[b]
    BY Zenon DEF Durable
<1>1. CASE b \in Logged(head)
  <2> DEFINE i == CHOOSE i \in DOMAIN head : head[i] = b
  <2>1. i \in DOMAIN head /\ head[i] = b
      BY Zenon, <1>1 DEF Logged
  <2>2. Durable[b] = disk[Slot(i - 1)]
      BY Zenon, <1>1 DEF Durable
  <2> QED
      BY Zenon, <2>1, <2>2
<1>2. CASE b \notin Logged(head)
    BY Zenon, <1>2 DEF Durable
<1> QED
    BY Zenon, <1>1, <1>2

\* Each step of the log is a step of AtomicDisk, or changes none of what
\* AtomicDisk speaks of; the commit point is write_head().
LEMMA RefinementStep ==
    ASSUME IInv, IInv', LogFits, [Next]_vars
    PROVE  [AD!Next]_(AD!vars)
<1> USE DEF AD!Next, AD!Begin, AD!End, AD!Write, AD!Commit, AD!Crash, AD!vars
<1>1. ASSUME UNCHANGED <<disk, head>> PROVE Durable' = Durable
    BY Zenon, <1>1, DurableSame
<1>2. ASSUME UNCHANGED <<disk, cache, boot>>, Durable' = Durable PROVE Current' = Current
    BY Zenon, <1>2 DEF Current, Bread
<1>3. ASSUME boot' = boot, \A b \in Home : Bread(b)' = Bread(b), Durable' = Durable
      PROVE  Current' = Current
    BY Zenon, <1>3 DEF Current
<1>4. ASSUME NEW p \in Procs, begin_op(p) PROVE [AD!Next]_(AD!vars)
  <2>1. UNCHANGED <<Current, Durable>>
      BY Zenon, <1>1, <1>2, <1>4 DEF begin_op
  <2>2. Active' = Active \/ (p \notin Active /\ Active' = Active \union {p})
      BY <1>4 DEF begin_op, Active, InOp, IInv, TypeOK
  <2> QED
      BY Zenon, <2>1, <2>2
<1>5. ASSUME NEW p \in Procs, NEW b \in Home, NEW v \in Data, modify(p, b, v)
      PROVE  [AD!Next]_(AD!vars)
  <2>1. Durable' = Durable
      BY Zenon, <1>1, <1>5 DEF modify
  <2>2. p \in Active /\ Active' = Active
      BY Zenon, <1>5 DEF modify, Active, InOp, IInv, TypeOK
  <2>3. \A c \in Home : Bread(c)' = IF c = b THEN v ELSE Bread(c)
      BY Zenon, <1>5, LogAssumption DEF modify, Bread, IInv, TypeOK
  <2>4. boot = "done" /\ boot' = "done"
      BY Zenon, <1>5 DEF modify
  <2>5. Current' = [Current EXCEPT ![b] = v]
      BY <2>3, <2>4, Zenon DEF Current
  <2> QED
      BY Zenon, <2>1, <2>2, <2>5
<1>6. ASSUME NEW p \in Procs, log_write(p) PROVE [AD!Next]_(AD!vars)
  <2>1. UNCHANGED <<Current, Durable>>
      BY Zenon, <1>1, <1>2, <1>6 DEF log_write
  <2>2. Active' = Active
      BY Zenon, <1>6 DEF log_write, Active, InOp, IInv, TypeOK
  <2> QED
      BY Zenon, <2>1, <2>2
<1>7. ASSUME NEW p \in Procs, end_op(p) PROVE [AD!Next]_(AD!vars)
  <2>1. UNCHANGED <<Current, Durable>>
      BY Zenon, <1>1, <1>2, <1>7 DEF end_op
  <2>2. p \in Active /\ committing = 0
      BY <1>7, ActiveFacts, Zenon DEF end_op, Active, InOp
  <2>3. Active' = Active \ {p}
      BY <1>7, <2>2 DEF end_op, Wakeup, Active, InOp, IInv, TypeOK
  <2> QED
      BY Zenon, <2>1, <2>2, <2>3
<1>8. ASSUME NEW p \in Procs, write_log(p) PROVE [AD!Next]_(AD!vars)
  <2>1. pc[p] \in InCommit /\ pc[p] # "install_trans" /\ pc[p] # "clear_head"
      BY Zenon, <1>8 DEF write_log, InCommit
  <2>2. head = <<>>
      BY Zenon, <2>1, CommitFacts DEF IInv, HeadInv, InCommit
  <2>3. \A b \in Home : disk'[b] = disk[b] /\ Bread(b)' = Bread(b)
      BY Zenon, <1>8, WriteLogEffect
  <2>4. Durable' = Durable
      BY <1>8, <2>2, <2>3, DurableSame DEF write_log
  <2>5. Current' = Current
      BY Zenon, <1>3, <1>8, <2>3, <2>4 DEF write_log
  <2>6. Active' = Active
      BY Zenon, <1>8 DEF write_log, Active, InOp, IInv, TypeOK
  <2> QED
      BY Zenon, <2>4, <2>5, <2>6
<1>9. ASSUME NEW p \in Procs, write_head(p) PROVE [AD!Next]_(AD!vars)
  <2>1. pc[p] \in InCommit
      BY Zenon, <1>9 DEF write_head, InCommit
  <2>2. Active = {} /\ boot = "done" /\ \A q \in Procs : held[q] = NoBuf
      BY Zenon, <2>1, CommitFacts DEF Active
  <2>3. Active' = Active
      BY Zenon, <1>9 DEF write_head, Active, InOp, IInv, TypeOK
  <2>4. Current' = Current
      BY Zenon, <1>9, <2>2 DEF write_head, Current, Bread
  <2>5. Durable' = Current
    <3> SUFFICES ASSUME NEW b \in Home PROVE Durable'[b] = Bread(b)
        BY Zenon, <2>2 DEF Durable, Current
    <3>1. head' = lh /\ disk' = disk /\ \A i \in DOMAIN lh : Copied(i)
        BY Zenon, <1>9 DEF write_head, IInv, PhaseInv
    <3>2. CASE b \in Logged(lh)
      <4> DEFINE i == CHOOSE i \in DOMAIN lh : lh[i] = b
      <4>1. i \in DOMAIN lh /\ lh[i] = b
          BY Zenon, <3>2 DEF Logged
      <4>2. Durable'[b] = disk[Slot(i - 1)]
          BY Zenon, <3>1, <3>2 DEF Durable, Slot
      <4> QED
          BY Zenon, <3>1, <4>1, <4>2 DEF Copied
    <3>3. CASE b \notin Logged(lh)
      <4>1. b \notin dirty
          BY Zenon, <3>3 DEF IInv, LhInv
      <4>2. Bread(b) = disk[b]
          BY Zenon, <2>2, <4>1, SlotFacts DEF IInv, Coherent, Bread
      <4> QED
          BY Zenon, <3>1, <3>3, <4>2 DEF Durable
    <3> QED
        BY Zenon, <3>2, <3>3
  <2> QED
      BY Zenon, <2>2, <2>3, <2>4, <2>5
<1>10. CASE \E p \in Procs : install_trans(p)
  <2>1. Durable' = Durable
      BY Zenon, <1>10, InstallEffect, DurableSame
  <2>2. boot = "done" /\ boot' = boot
      BY Zenon, <1>10 DEF install_trans
  <2>3. Current' = Current
      BY Zenon, <1>3, <1>10, <2>1, <2>2, InstallEffect
  <2>4. Active' = Active
      BY Zenon, <1>10 DEF install_trans, Active, InOp, IInv, TypeOK
  <2> QED
      BY Zenon, <2>1, <2>3, <2>4
<1>11. ASSUME NEW p \in Procs, clear_head(p) PROVE [AD!Next]_(AD!vars)
  <2>1. Durable = [b \in Home |-> disk[b]]
      BY Zenon, <1>11, DurableInstalled DEF clear_head, IInv, PhaseInv, Installed
  <2>2. Durable' = [b \in Home |-> disk[b]]
      BY <1>11 DEF clear_head, Durable, Logged
  <2>3. Current' = Current
      BY Zenon, <1>2, <1>11, <2>1, <2>2 DEF clear_head
  <2>4. Active' = Active
      BY Zenon, <1>11 DEF clear_head, Active, InOp, IInv, TypeOK
  <2> QED
      BY Zenon, <2>1, <2>2, <2>3, <2>4
<1>12. ASSUME NEW p \in Procs, end_commit(p) PROVE [AD!Next]_(AD!vars)
  <2>1. UNCHANGED <<Current, Durable>>
      BY Zenon, <1>1, <1>2, <1>12 DEF end_commit
  <2>2. Active' = Active
      BY Zenon, <1>12 DEF end_commit, Wakeup, Active, InOp, IInv, TypeOK
  <2> QED
      BY Zenon, <2>1, <2>2
<1>13. CASE recover_read_head
    BY Zenon, <1>1, <1>13 DEF recover_read_head, Current, Active
<1>14. CASE recover_install
  <2>1. Durable' = Durable
      BY Zenon, <1>14, InstallEffect, DurableSame
  <2> QED
      BY Zenon, <1>14, <2>1 DEF recover_install, Current, Active
<1>15. CASE recover_clear
  <2>1. Durable = [b \in Home |-> disk[b]]
      BY Zenon, <1>15, DurableInstalled DEF recover_clear, IInv, BootInv, Installed
  <2>2. Durable' = [b \in Home |-> disk[b]]
      BY <1>15 DEF recover_clear, Durable, Logged
  <2>3. \A b \in Home : Bread(b)' = disk[b]
      BY Zenon, <1>15, SlotFacts DEF recover_clear, IInv, BootInv, Coherent, Bread
  <2>4. Current' = Durable' /\ Current = Durable
      BY Zenon, <1>15, <2>2, <2>3 DEF recover_clear, Current
  <2> QED
      BY Zenon, <1>15, <2>1, <2>2, <2>4 DEF recover_clear, Active
<1>16. ASSUME NEW b \in Home, evict(b) PROVE [AD!Next]_(AD!vars)
  <2>1. \A c \in Home : Bread(c)' = Bread(c)
      BY Zenon, <1>16 DEF evict, IInv, TypeOK, Coherent, Bread
  <2> QED
      BY Zenon, <1>1, <1>3, <1>16, <2>1 DEF evict, Active
<1>17. CASE crash
  <2>1. Durable' = Durable /\ Current' = Durable'
      BY Zenon, <1>1, <1>17 DEF crash, Booting, Current
  <2>2. Active' = {}
      BY Zenon, <1>17 DEF crash, Booting, Active, InOp
  <2> QED
      BY Zenon, <2>1, <2>2
<1>18. CASE UNCHANGED vars
    BY Zenon, <1>1, <1>2, <1>18 DEF vars, memory, Active
<1> QED
    BY Zenon, <1>4, <1>5, <1>6, <1>7, <1>8, <1>9, <1>10, <1>11, <1>12, <1>13, <1>14, <1>15,
       <1>16, <1>17, <1>18 DEF Next, Step, Recover

LEMMA RefinementInit == Init => AD!Init
<1> SUFFICES ASSUME Init PROVE AD!Init
    BY Zenon
<1>1. Active = {} /\ Current = Durable
    BY Zenon DEF Init, Active, InOp, Current
<1>2. Durable \in [Home -> Data]
    BY SlotFacts DEF Init, Durable, Logged
<1> QED
    BY Zenon, <1>1, <1>2 DEF AD!Init

\* The log implements the atomic, crash-proof disk it promises.
THEOREM Refinement == Spec /\ []LogFits => CrashAtomic
BY InductiveInvariant, RefinementInit, RefinementStep, PTL DEF Spec, CrashAtomic, AD!Spec

-----------------------------------------------------------------------------
(* Log space.  begin_op() reserves MAXOPBLOCKS entries for each call; the  *)
(* part of a reservation still unused is a set of pairs, so that adding up *)
(* the reservations is a matter of cardinality.                            *)

\* log_write() calls of p's system call that have reached the header.
Done(p) == IF pc[p] = "logging" THEN nw[p] - 1 ELSE nw[p]
Reserved == {r \in Active \X (1 .. MAXOPBLOCKS) : r[2] > Done(r[1])}

SpaceInv ==
    /\ NoPanic
    /\ \A p \in Procs : pc[p] = "logging" => nw[p] >= 1
    /\ Len(lh) <= LOGSIZE - 1 /\ Len(head) <= LOGSIZE - 1
    /\ Active # {} => Len(lh) + Cardinality(Reserved) <= LOGSIZE

\* mkfs.c:25, 92: the log region is no smaller than LOGSIZE.
RegionMade == LOGSIZE <= LogSize

\* The calls in A have at most MAXOPBLOCKS reserved entries each.
LEMMA PairsBound ==
    ASSUME NEW A \in SUBSET Procs, NEW R \in SUBSET (A \X (1 .. MAXOPBLOCKS))
    PROVE  /\ IsFiniteSet(A) /\ IsFiniteSet(R)
           /\ Cardinality(R) \in Nat
           /\ Cardinality(R) <= Cardinality(A) * MAXOPBLOCKS
<1>1. IsFiniteSet(A)
    BY Zenon, FS_Subset, LogAssumption
<1>2. IsFiniteSet(1 .. MAXOPBLOCKS) /\ Cardinality(1 .. MAXOPBLOCKS) = MAXOPBLOCKS
    BY FS_Interval, LogAssumption
<1>3. /\ IsFiniteSet(A \X (1 .. MAXOPBLOCKS))
      /\ Cardinality(A \X (1 .. MAXOPBLOCKS)) = Cardinality(A) * MAXOPBLOCKS
    BY Zenon, <1>1, <1>2, FS_Product
<1>4. IsFiniteSet(R) /\ Cardinality(R) <= Cardinality(A) * MAXOPBLOCKS
    BY Zenon, <1>3, FS_Subset
<1> QED
    BY Zenon, <1>1, <1>4, FS_CardinalityType

LEMMA ReservedFinite ==
    ASSUME IInv
    PROVE  /\ IsFiniteSet(Active) /\ IsFiniteSet(Reserved)
           /\ Cardinality(Reserved) \in Nat
           /\ Len(lh) \in Nat
<1>1. Active \in SUBSET Procs /\ Reserved \in SUBSET (Active \X (1 .. MAXOPBLOCKS))
    BY Zenon DEF Active, Reserved
<1>2. Len(lh) \in Nat
    BY DEF IInv, TypeOK
<1> QED
    BY Zenon, <1>1, <1>2, PairsBound

\* An entry of each active call's reservation is never used.
LEMMA ReservedSpare ==
    ASSUME IInv, NEW p \in Active, nw[p] < MAXOPBLOCKS
    PROVE  /\ <<p, MAXOPBLOCKS>> \in Reserved
           /\ Cardinality(Reserved) >= 1
<1>1. p \in Procs /\ nw[p] \in Nat
    BY Zenon DEF Active, IInv, TypeOK
<1>2. <<p, MAXOPBLOCKS>> \in Reserved
    BY <1>1, LogAssumption DEF Reserved, Done
<1>3. Reserved # {}
    BY Zenon, <1>2
<1>4. Cardinality(Reserved) # 0
    BY Zenon, <1>3, ReservedFinite, FS_EmptySet
<1> QED
    BY <1>2, <1>4, ReservedFinite

LEMMA SpaceInit == Init => SpaceInv
<1> SUFFICES ASSUME Init PROVE SpaceInv
    BY Zenon
<1>1. Active = {}
    BY Zenon DEF Init, Active, InOp
<1> QED
    BY <1>1, LogAssumption DEF Init, SpaceInv, NoPanic

LEMMA SpaceFits == ASSUME IInv, SpaceInv, RegionMade PROVE LogFits
BY LogAssumption DEF SpaceInv, RegionMade, LogFits, IInv, TypeOK

LEMMA SpaceStep ==
    ASSUME IInv, IInv', SpaceInv, RegionMade, InBudget, InBudget', [Next]_vars
    PROVE  SpaceInv'
<1>0. pc \in [Procs -> PCs] /\ nw \in [Procs -> Nat]
    BY Zenon DEF IInv, TypeOK
<1>1. \A p \in Procs : nw[p] \in Nat
    BY Zenon, <1>0
<1>2. ASSUME NEW p \in Procs, begin_op(p) PROVE SpaceInv'
  <2>1. CASE MustWait
    <3>1. UNCHANGED <<lh, head, nw>> /\ Active' = Active /\ NoPanic'
        BY Zenon, <1>0, <1>2, <2>1 DEF begin_op, Active, InOp, SpaceInv, NoPanic
    <3>2. \A q \in Procs : pc'[q] = "logging" <=> pc[q] = "logging"
        BY Zenon, <1>0, <1>2, <2>1 DEF begin_op
    <3>3. Reserved' = Reserved
        BY Zenon, <3>1, <3>2 DEF Reserved, Done, Active
    <3> QED
        BY Zenon, <3>1, <3>2, <3>3 DEF SpaceInv
  <2>2. CASE ~MustWait
    <3>1. Len(lh) + outstanding' * MAXOPBLOCKS <= LOGSIZE /\ UNCHANGED <<lh, head>>
      <4>1. Len(lh) \in Nat /\ outstanding \in Nat /\ outstanding' = outstanding + 1
          BY <1>2, <2>2 DEF begin_op, IInv, TypeOK
      <4> QED
          BY <1>2, <2>2, <4>1, LogAssumption DEF begin_op, MustWait
    <3>2. Cardinality(Reserved') <= outstanding' * MAXOPBLOCKS /\ Cardinality(Reserved') \in Nat
      <4>1. Active' \in SUBSET Procs /\ Reserved' \in SUBSET (Active' \X (1 .. MAXOPBLOCKS))
          BY Zenon DEF Active, Reserved
      <4>2. outstanding' = Cardinality(Active')
          BY Zenon DEF IInv, CountInv
      <4> QED
          BY Zenon, <4>1, <4>2, PairsBound
    <3>3. Len(lh') + Cardinality(Reserved') <= LOGSIZE
      <4> DEFINE total == outstanding' * MAXOPBLOCKS
      <4>1. Len(lh) \in Nat /\ outstanding' \in Nat /\ MAXOPBLOCKS \in Nat
          BY LogAssumption DEF IInv, TypeOK
      <4>2. total \in Int
          BY <4>1
      <4> HIDE DEF total
      <4> QED
          BY <3>1, <3>2, <4>1, <4>2, LogAssumption DEF total
    <3>4. NoPanic' /\ \A q \in Procs : pc'[q] = "logging" => nw'[q] >= 1
      <4>1. pc' = [pc EXCEPT ![p] = "op"] /\ nw' = [nw EXCEPT ![p] = 0]
          BY Zenon, <1>2, <2>2 DEF begin_op
      <4> QED
          BY <1>0, <1>1, <4>1, LogAssumption DEF SpaceInv, NoPanic
    <3> QED
        BY Zenon, <3>1, <3>3, <3>4 DEF SpaceInv
  <2> QED
      BY Zenon, <2>1, <2>2
<1>3. ASSUME NEW p \in Procs, NEW b \in Home, NEW v \in Data, modify(p, b, v) PROVE SpaceInv'
  <2>1. p \in Active /\ Active' = Active /\ outstanding > 0
    <3>1. p \in Active /\ Active' = Active
        BY Zenon, <1>0, <1>3 DEF modify, Active, InOp
    <3> QED
        BY <3>1, ActiveFacts
  <2>0. nw[p] + 1 < MAXOPBLOCKS /\ pc[p] = "op"
      BY <1>0, <1>3 DEF modify, InBudget
  <2>2. <<p, MAXOPBLOCKS>> \in Reserved /\ <<p, nw[p] + 1>> \in Reserved
      BY <1>1, <2>0, <2>1, ReservedSpare, LogAssumption DEF Reserved, Done
  <2>3. nw[p] + 1 # MAXOPBLOCKS
      BY <1>1, <2>0, LogAssumption
  <2>4. Cardinality(Reserved) >= 2
    <3> DEFINE R == Reserved \ {<<p, MAXOPBLOCKS>>}
    <3>1. IsFiniteSet(R) /\ Cardinality(R) = Cardinality(Reserved) - 1
        BY Zenon, <2>2, ReservedFinite, FS_RemoveElement
    <3>2. <<p, nw[p] + 1>> \in R
        BY Zenon, <2>2, <2>3
    <3>3. Cardinality(R) # 0
        BY Zenon, <3>1, <3>2, FS_EmptySet
    <3>4. Cardinality(R) \in Nat
        BY Zenon, <3>1, FS_CardinalityType
    <3> QED
        BY <3>1, <3>3, <3>4, ReservedFinite
  <2>5. Len(lh) + Cardinality(Reserved) <= LOGSIZE
      BY Zenon, <2>1 DEF SpaceInv
  <2>6. ~TooBig
      BY <2>4, <2>5, ReservedFinite, LogAssumption DEF TooBig, RegionMade
  <2>7. /\ pc' = [pc EXCEPT ![p] = "logging"] /\ nw' = [nw EXCEPT ![p] = nw[p] + 1]
        /\ UNCHANGED <<lh, head>>
    <3>1. ~(TooBig \/ outstanding < 1)
        BY <2>1, <2>6 DEF IInv, TypeOK
    <3> QED
        BY Zenon, <1>0, <1>3, <3>1 DEF modify
  <2>8. \A q \in Procs : Done(q)' = Done(q)
      BY <1>0, <1>1, <1>3, <2>7 DEF modify, Done
  <2>9. Reserved' = Reserved
    <3>1. \A q \in Active : Done(q)' = Done(q)
        BY Zenon, <2>8 DEF Active
    <3> QED
        BY Zenon, <2>1, <3>1 DEF Reserved
  <2>10. NoPanic' /\ \A q \in Procs : pc'[q] = "logging" => nw'[q] >= 1
      BY <1>0, <1>1, <1>3, <2>7, LogAssumption DEF modify, SpaceInv, NoPanic
  <2> QED
      BY Zenon, <2>1, <2>7, <2>9, <2>10 DEF SpaceInv
<1>4. ASSUME NEW p \in Procs, log_write(p) PROVE SpaceInv'
  <2>1. p \in Active /\ Active' = Active
      BY Zenon, <1>0, <1>4 DEF log_write, Active, InOp
  <2>2. nw[p] \in 1 .. MAXOPBLOCKS - 1 /\ UNCHANGED <<head, nw>> /\ pc' = [pc EXCEPT ![p] = "op"]
      BY <1>1, <1>4, LogAssumption DEF log_write, SpaceInv, InBudget
  <2>3. <<p, nw[p]>> \in Reserved
      BY <1>4, <2>1, <2>2, LogAssumption DEF log_write, Reserved, Done
  <2>4. Reserved' = Reserved \ {<<p, nw[p]>>}
    <3>1. \A q \in Active : Done(q)' = IF q = p THEN nw[p] ELSE Done(q)
        BY Zenon, <1>0, <2>2 DEF Done, Active
    <3>2. Done(p) = nw[p] - 1
        BY Zenon, <1>4 DEF log_write, Done
    <3>3. \A k \in 1 .. MAXOPBLOCKS : k > nw[p] <=> k > nw[p] - 1 /\ k # nw[p]
        BY <2>2, LogAssumption
    <3> QED
        BY <2>1, <3>1, <3>2, <3>3 DEF Reserved
  <2>5. Cardinality(Reserved') = Cardinality(Reserved) - 1
      BY Zenon, <2>3, <2>4, ReservedFinite, FS_RemoveElement
  <2>6. Len(lh') <= Len(lh) + 1 /\ Len(lh') \in Nat
    <3>1. held[p] \in Home
        BY Zenon, <1>4 DEF log_write, IInv, TypeOK, HeldInv
    <3> QED
        BY <1>0, <1>4, <3>1 DEF log_write
  <2>7. Len(lh') + Cardinality(Reserved') <= LOGSIZE
      BY <2>1, <2>5, <2>6, ReservedFinite, LogAssumption DEF SpaceInv
  <2>8. Cardinality(Reserved') >= 1 /\ Cardinality(Reserved') \in Nat
    <3>1. <<p, MAXOPBLOCKS>> \in Reserved'
        BY <2>1, <2>2, <2>4, ReservedSpare, LogAssumption
    <3>2. IsFiniteSet(Reserved')
        BY Zenon, <2>4, ReservedFinite, FS_RemoveElement
    <3>3. Cardinality(Reserved') # 0 /\ Cardinality(Reserved') \in Nat
        BY Zenon, <3>1, <3>2, FS_EmptySet, FS_CardinalityType
    <3> QED
        BY <3>3
  <2>9. NoPanic' /\ \A q \in Procs : pc'[q] = "logging" => nw'[q] >= 1
      BY Zenon, <1>0, <2>2 DEF SpaceInv, NoPanic
  <2> QED
      BY <2>2, <2>6, <2>7, <2>8, <2>9, LogAssumption DEF SpaceInv
<1>5. ASSUME NEW p \in Procs, end_op(p) PROVE SpaceInv'
  <2>1. p \in Active /\ committing = 0
      BY <1>5, ActiveFacts, Zenon DEF end_op, Active, InOp
  <2>2. UNCHANGED <<lh, head, nw>> /\ Active' = Active \ {p} /\ NoPanic'
      BY <1>0, <1>5, <2>1 DEF end_op, Wakeup, Active, InOp, SpaceInv, NoPanic
  <2>3. \A q \in Procs : q # p => (pc'[q] = "logging" <=> pc[q] = "logging")
      BY Zenon, <1>0, <1>5, <2>1 DEF end_op, Wakeup
  <2>4. pc'[p] # "logging"
      BY Zenon, <1>0, <1>5, <2>1 DEF end_op, Wakeup
  <2>5. Reserved' \in SUBSET Reserved
    <3>1. \A q \in Active' : q \in Active /\ Done(q)' = Done(q)
        BY Zenon, <2>2, <2>3 DEF Done, Active
    <3> QED
        BY Zenon, <3>1 DEF Reserved
  <2>6. Cardinality(Reserved') <= Cardinality(Reserved) /\ Cardinality(Reserved') \in Nat
      BY Zenon, <2>5, ReservedFinite, FS_Subset, FS_CardinalityType
  <2>7. Len(lh) + Cardinality(Reserved') <= LOGSIZE
      BY <2>1, <2>6, ReservedFinite, LogAssumption DEF SpaceInv
  <2> QED
      BY Zenon, <2>2, <2>3, <2>4, <2>7 DEF SpaceInv
<1>6. ASSUME Active' = {}, NoPanic', lh' \in {lh, head, <<>>}, head' \in {lh, head, <<>>},
             \A q \in Procs : nw'[q] \in {nw[q], 0} /\ pc'[q] # "logging"
      PROVE  SpaceInv'
    BY <1>6, LogAssumption DEF SpaceInv
<1>7. ASSUME NEW p \in Procs,
             write_log(p) \/ write_head(p) \/ install_trans(p) \/ clear_head(p) \/ end_commit(p)
      PROVE  SpaceInv'
  <2>1. pc[p] \in InCommit
      BY Zenon, <1>7 DEF write_log, write_head, install_trans, clear_head, end_commit, InCommit
  <2>2. \A q \in Procs : pc[q] \notin InOp \union {"panic"}
      BY Zenon, <2>1, CommitFacts, SpaceFits
  <2>3. \A q \in Procs : pc'[q] \notin InOp \union {"panic"}
      BY Zenon, <1>0, <1>7, <2>2 DEF write_log, write_head, install_trans, clear_head, end_commit, Wakeup,
         InOp
  <2>4. /\ lh' \in {lh, <<>>} /\ head' \in {lh, head, <<>>} /\ nw' = nw
      BY Zenon, <1>7 DEF write_log, write_head, install_trans, clear_head, end_commit
  <2>5. Active' = {} /\ NoPanic' /\ \A q \in Procs : pc'[q] # "logging"
      BY Zenon, <2>3 DEF Active, NoPanic, InOp
  <2> QED
      BY Zenon, <1>6, <2>4, <2>5
<1>8. CASE Recover \/ crash
  <2>1. \A q \in Procs : pc'[q] = "idle" /\ nw'[q] \in {nw[q], 0}
      BY Zenon, <1>8 DEF Recover, recover_read_head, recover_install, recover_clear, crash, Booting,
         IInv, BootInv
  <2>2. lh' \in {lh, head, <<>>} /\ head' \in {head, <<>>}
      BY Zenon, <1>8 DEF Recover, recover_read_head, recover_install, recover_clear, crash, Booting
  <2>3. Active' = {} /\ NoPanic'
      BY Zenon, <2>1 DEF Active, NoPanic, InOp
  <2> QED
      BY Zenon, <1>6, <2>1, <2>2, <2>3
<1>9. CASE UNCHANGED vars \/ \E b \in Home : evict(b)
    BY <1>9, Zenon DEF evict, vars, memory, SpaceInv, NoPanic, Active, Reserved, Done
<1> QED
    BY Zenon, <1>2, <1>3, <1>4, <1>5, <1>7, <1>8, <1>9 DEF Next, Step

(* Only a call that logs all of the MAXOPBLOCKS blocks begin_op() reserved *)
(* for it, or more, can make the log outgrow its region or reach a panic   *)
(* of log.c: as long as none does, the reservations of the calls under way *)
(* and the unlocked test of log_write() suffice, whatever the interleaving.*)
THEOREM Reservation ==
    ASSUME RegionMade
    PROVE  Spec /\ []InBudget => [](LogFits /\ NoPanic)
<1>1. Init => IInv /\ SpaceInv
    BY Zenon, InitIInv, SpaceInit
<1>2. IInv /\ SpaceInv /\ InBudget /\ InBudget' /\ [Next]_vars => (IInv /\ SpaceInv)'
    BY Zenon, NextIInv, SpaceStep, SpaceFits
<1>3. IInv /\ SpaceInv => LogFits /\ NoPanic
    BY Zenon, SpaceFits DEF SpaceInv
<1> QED
    BY <1>1, <1>2, <1>3, PTL DEF Spec

=============================================================================
