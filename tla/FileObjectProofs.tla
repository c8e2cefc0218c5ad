-------------------------- MODULE FileObjectProofs --------------------------
(***************************************************************************)
(* The inodes and pipes behind open files are given back exactly once.     *)
(*                                                                         *)
(* ObjectsClosedOnce needs to know, besides FtInv, that an entry that      *)
(* filealloc() hands out has no object, also while pipealloc() looks for   *)
(* its second one.                                                         *)
(***************************************************************************)
EXTENDS FileTableProofs

Ends == [readopen : 0 .. 1, writeopen : 0 .. 1]

Blank ==
    /\ \A f \in File : ftable[f].ref = 0 => ftable[f].type = "NONE"
    /\ \A p \in FProcs : half[p] # 0 => ftable[half[p]].type = "NONE"

ObjInv ==
    /\ FtInv
    /\ iref \in [OpenInodes -> Int]
    /\ pipes \in [PipePages -> Ends]
    /\ Blank
    /\ ObjectsClosedOnce

\* The places of an element in a list, counted from the end as in Places.
Spots(s, e) == {k \in 0 .. Len(s) - 1 : s[Len(s) - k] = e}
Entries(c, e) == UNION {{p} \X Spots(c[p], e) : p \in FProcs}

Copy(ty, o, w) == <<"drop", [ref |-> 0, type |-> ty, obj |-> o, w |-> w]>>

LEMMA DroppingIs ==
    \A ty, o, w : /\ Dropping(ty, o, w) = Entries(closing, Copy(ty, o, w))
                  /\ Dropping(ty, o, w)' = Entries(closing', Copy(ty, o, w))
    BY Zenon DEF Dropping, Entries, Spots, Places, ToDo, Copy

LEMMA EntryMember ==
    ASSUME NEW c, NEW e
    PROVE  /\ \A x \in Entries(c, e) : \E q, k : x = <<q, k>>
           /\ \A q, k : <<q, k>> \in Entries(c, e) <=> q \in FProcs /\ k \in Spots(c[q], e)
    BY DEF Entries

\* Only the list of p changes.
LEMMA EntriesChange ==
    ASSUME NEW c, NEW d, NEW p \in FProcs, \A q \in FProcs \ {p} : d[q] = c[q], NEW e, NEW n,
           Changes(Spots(c[p], e), Spots(d[p], e), n)
    PROVE  Changes(Entries(c, e), Entries(d, e), n)
<1>1. \A x \in Entries(c, e) \cup Entries(d, e) : \E q, k : x = <<q, k>>
    BY EntryMember
<1>2. \A q, k : q # p => (<<q, k>> \in Entries(d, e) <=> <<q, k>> \in Entries(c, e))
    BY Zenon, EntryMember
<1>3. \A k : /\ <<p, k>> \in Entries(c, e) <=> k \in Spots(c[p], e)
             /\ <<p, k>> \in Entries(d, e) <=> k \in Spots(d[p], e)
    BY Zenon, EntryMember
<1>4. CASE n = 0 /\ Spots(d[p], e) = Spots(c[p], e)
  <2>1. \A q, k : <<q, k>> \in Entries(d, e) <=> <<q, k>> \in Entries(c, e)
    BY Zenon, <1>2, <1>3, <1>4
  <2>2. Entries(d, e) = Entries(c, e)
    BY <2>1, <1>1
  <2> QED
    BY Zenon, <2>2, <1>4 DEF Changes
<1>5. CASE n = 1 /\ Grows(Spots(c[p], e), Spots(d[p], e))
  <2>1. PICK j : j \notin Spots(c[p], e) /\ Spots(d[p], e) = Spots(c[p], e) \cup {j}
    BY Zenon, <1>5 DEF Grows
  <2>2. \A q, k : <<q, k>> \in Entries(d, e) <=> <<q, k>> \in Entries(c, e) \/ <<q, k>> = <<p, j>>
    BY Zenon, <1>2, <1>3, <2>1
  <2>3. Entries(d, e) = Entries(c, e) \cup {<<p, j>>} /\ <<p, j>> \notin Entries(c, e)
    BY <2>1, <2>2, <1>1, <1>3
  <2> QED
    BY Zenon, <2>3, <1>5 DEF Changes, Grows
<1>6. CASE n = -1 /\ Shrinks(Spots(c[p], e), Spots(d[p], e))
  <2>1. PICK j : j \in Spots(c[p], e) /\ Spots(d[p], e) = Spots(c[p], e) \ {j}
    BY Zenon, <1>6 DEF Shrinks
  <2>2. \A q, k : <<q, k>> \in Entries(d, e) <=> <<q, k>> \in Entries(c, e) /\ <<q, k>> # <<p, j>>
    BY Zenon, <1>2, <1>3, <2>1
  <2>3. Entries(d, e) = Entries(c, e) \ {<<p, j>>} /\ <<p, j>> \in Entries(c, e)
    BY <2>1, <2>2, <1>1, <1>3
  <2> QED
    BY Zenon, <2>3, <1>6 DEF Changes, Shrinks
<1> QED
    BY Zenon, <1>4, <1>5, <1>6 DEF Changes

LEMMA NoSpots == \A e : Spots(<<>>, e) = {}
    BY DEF Spots

LEMMA OneSpot == \A a, e : a # e => Spots(<<a>>, e) = {}
    BY DEF Spots

LEMMA TwoSpots ==
    ASSUME NEW a, NEW b, NEW e, a # e
    PROVE  Spots(<<a, b>>, e) = IF b = e THEN {0} ELSE {}
    BY DEF Spots

LEMMA TailSpots ==
    ASSUME NEW S, NEW s \in Seq(S), s # <<>>, NEW e
    PROVE  /\ Head(s) = e => Changes(Spots(s, e), Spots(Tail(s), e), -1)
           /\ Head(s) # e => Spots(Tail(s), e) = Spots(s, e)
<1> DEFINE n == Len(s)
           t == Tail(s)
<1>1. n \in Nat \ {0} /\ Len(t) = n - 1 /\ Head(s) = s[1]
    OBVIOUS
<1>2. \A k \in 0 .. n - 2 : t[n - 1 - k] = s[n - k]
    BY <1>1
<1>3. n = Len(s)
    BY Zenon
<1> HIDE DEF n, t
<1>4. \A k : k \in Spots(t, e) <=> k \in Spots(s, e) /\ k # n - 1
  <2>1. \A k : k \in 0 .. Len(t) - 1 <=> k \in 0 .. n - 1 /\ k # n - 1
    BY <1>1
  <2>2. \A k \in 0 .. n - 2 : t[Len(t) - k] = s[n - k]
    BY Zenon, <1>1, <1>2
  <2>3. \A k : k \in 0 .. n - 2 <=> k \in 0 .. n - 1 /\ k # n - 1
    BY <1>1
  <2> QED
    BY Zenon, <2>1, <2>2, <2>3, <1>3 DEF Spots
<1>5. n - 1 \in Spots(s, e) <=> Head(s) = e
  <2>1. n - (n - 1) = 1 /\ n - 1 \in 0 .. n - 1
    BY <1>1
  <2> QED
    BY Zenon, <2>1, <1>1, <1>3 DEF Spots
<1>6. Spots(t, e) = Spots(s, e) \ {n - 1}
    BY Zenon, <1>4
<1> QED
    BY Zenon, <1>5, <1>6 DEF t, Changes, Shrinks

\* The first close becomes a drop.
LEMMA SwapSpots ==
    ASSUME NEW S, NEW s \in Seq(S), s # <<>>, NEW x \in S, NEW e, Head(s) # e
    PROVE  /\ x = e => Changes(Spots(s, e), Spots(<<x>> \o Tail(s), e), 1)
           /\ x # e => Spots(<<x>> \o Tail(s), e) = Spots(s, e)
<1> DEFINE n == Len(s)
           t == <<x>> \o Tail(s)
<1>1. n \in Nat \ {0} /\ Tail(s) \in Seq(S) /\ Len(Tail(s)) = n - 1 /\ Head(s) = s[1]
    OBVIOUS
<1>2. Len(t) = n /\ t[1] = x /\ \A j \in 2 .. n : t[j] = s[j]
    BY <1>1
<1>3. n = Len(s)
    BY Zenon
<1> HIDE DEF n, t
<1>4. \A k : k \in Spots(t, e) <=> (k \in Spots(s, e) /\ k # n - 1) \/ (k = n - 1 /\ x = e)
  <2>1. \A k \in 0 .. n - 2 : n - k \in 2 .. n /\ t[n - k] = s[n - k]
    BY <1>1, <1>2
  <2>2. n - (n - 1) = 1 /\ n - 1 \in 0 .. n - 1
    BY <1>1
  <2> QED
    BY <2>1, <2>2, <1>1, <1>2, <1>3 DEF Spots
<1>5. n - 1 \notin Spots(s, e)
  <2>1. n - (n - 1) = 1
    BY <1>1
  <2> QED
    BY Zenon, <2>1, <1>1, <1>3 DEF Spots
<1>6. CASE x = e
  <2>1. Spots(t, e) = Spots(s, e) \cup {n - 1}
    BY Zenon, <1>4, <1>5, <1>6
  <2> QED
    BY Zenon, <2>1, <1>5, <1>6 DEF t, Changes, Grows
<1>7. CASE x # e
  <2>1. Spots(t, e) = Spots(s, e)
    BY Zenon, <1>4, <1>5, <1>7
  <2> QED
    BY Zenon, <2>1, <1>7 DEF t
<1> QED
    BY Zenon, <1>6, <1>7

-----------------------------------------------------------------------------
(* The uses of an object.                                                  *)
Counted(r, ty, o, w) == r.ref > 0 /\ r.type = ty /\ r.obj = o /\ r.w = w
InUse(ty, o, w) == {f \in File : Counted(ftable[f], ty, o, w)}

LEMMA UsesAre ==
    \A ty, o, w : Uses(ty, o, w) = Cardinality(InUse(ty, o, w)) + Cardinality(Dropping(ty, o, w))
    BY Zenon DEF Uses, InUse, Counted

LEMMA UsesFinite ==
    ASSUME FtInv, NEW ty, NEW o, NEW w
    PROVE  /\ IsFiniteSet(InUse(ty, o, w)) /\ IsFiniteSet(Dropping(ty, o, w))
           /\ Cardinality(InUse(ty, o, w)) \in Nat /\ Cardinality(Dropping(ty, o, w)) \in Nat
           /\ Cardinality(InUse(ty, o, w)) = 0 <=> InUse(ty, o, w) = {}
           /\ Cardinality(Dropping(ty, o, w)) = 0 <=> Dropping(ty, o, w) = {}
           /\ Uses(ty, o, w) \in Nat
<1>1. IsFiniteSet(File) /\ IsFiniteSet(FProcs \X (0 .. 1))
  <2>1. IsFiniteSet(0 .. 1) /\ IsFiniteSet(FProcs) /\ IsFiniteSet(File)
    <3>1. NFILE \in Int /\ 0 \in Int /\ 1 \in Int
      BY FileTableAssumption
    <3> QED
      BY Zenon, <3>1, FileTableAssumption, FS_Interval DEF File
  <2> QED
    BY Zenon, <2>1, FS_Product
<1>2. Dropping(ty, o, w) \subseteq FProcs \X (0 .. 1)
  <2>1. \A q \in FProcs : Len(closing[q]) \in Nat /\ Len(closing[q]) <= 2
    BY DEF FtInv, FtTypeOK, CallsInv
  <2>2. \A q \in FProcs : \A e : Spots(closing[q], e) \subseteq 0 .. 1
    BY <2>1 DEF Spots
  <2> QED
    BY <2>2, DroppingIs, EntryMember
<1>3. InUse(ty, o, w) \subseteq File
    BY Zenon DEF InUse
<1>4. IsFiniteSet(InUse(ty, o, w)) /\ IsFiniteSet(Dropping(ty, o, w))
    BY Zenon, <1>1, <1>2, <1>3, FS_Subset
<1>5. Cardinality(InUse(ty, o, w)) \in Nat /\ Cardinality(Dropping(ty, o, w)) \in Nat
    BY Zenon, <1>4, FS_CardinalityType
<1>6. Uses(ty, o, w) \in Nat
    BY <1>5, UsesAre
<1> QED
    BY Zenon, <1>4, <1>5, <1>6, FS_EmptySet

UsesNat == \A ty, o, w : Uses(ty, o, w) \in Nat

LEMMA UsesTyped == FtInv => UsesNat
    BY Zenon, UsesFinite DEF UsesNat

\* The uses change by as much as the entries and the drops do.
LEMMA UsesChange ==
    ASSUME FtInv, NEW ty, NEW o, NEW w, NEW a, NEW b,
           Changes(InUse(ty, o, w), InUse(ty, o, w)', a),
           Changes(Dropping(ty, o, w), Dropping(ty, o, w)', b)
    PROVE  a \in Int /\ b \in Int /\ Uses(ty, o, w)' = Uses(ty, o, w) + a + b
<1>1. a \in Int /\ Cardinality(InUse(ty, o, w)') = Cardinality(InUse(ty, o, w)) + a
    BY Zenon, UsesFinite, ChangeCount
<1>2. b \in Int /\ Cardinality(Dropping(ty, o, w)') = Cardinality(Dropping(ty, o, w)) + b
    BY Zenon, UsesFinite, ChangeCount
<1>3. Uses(ty, o, w)' = Cardinality(InUse(ty, o, w)') + Cardinality(Dropping(ty, o, w)')
    BY Zenon DEF Uses, InUse, Counted
<1>4. Cardinality(InUse(ty, o, w)) \in Nat /\ Cardinality(Dropping(ty, o, w)) \in Nat
    BY Zenon, UsesFinite
<1> QED
    BY <1>1, <1>2, <1>3, <1>4, UsesAre

\* One entry of the table changes.
LEMMA InUseChange ==
    ASSUME NEW f \in File, \A g \in File \ {f} : ftable'[g] = ftable[g], NEW ty, NEW o, NEW w
    PROVE  /\ (Counted(ftable[f], ty, o, w) <=> Counted(ftable'[f], ty, o, w)) => InUse(ty, o, w)' = InUse(ty, o, w)
           /\ ~Counted(ftable[f], ty, o, w) /\ Counted(ftable'[f], ty, o, w)
                => Changes(InUse(ty, o, w), InUse(ty, o, w)', 1)
           /\ Counted(ftable[f], ty, o, w) /\ ~Counted(ftable'[f], ty, o, w)
                => Changes(InUse(ty, o, w), InUse(ty, o, w)', -1)
<1>1. InUse(ty, o, w)' = {g \in File : Counted(ftable'[g], ty, o, w)}
    BY Zenon DEF InUse, Counted
<1>2. \A g \in File \ {f} : g \in InUse(ty, o, w)' <=> g \in InUse(ty, o, w)
    BY Zenon, <1>1 DEF InUse
<1>3. /\ f \in InUse(ty, o, w) <=> Counted(ftable[f], ty, o, w)
      /\ f \in InUse(ty, o, w)' <=> Counted(ftable'[f], ty, o, w)
    BY Zenon, <1>1 DEF InUse
<1>4. InUse(ty, o, w) \subseteq File /\ InUse(ty, o, w)' \subseteq File
    BY Zenon, <1>1 DEF InUse
<1>5. CASE Counted(ftable[f], ty, o, w) <=> Counted(ftable'[f], ty, o, w)
  <2>1. InUse(ty, o, w)' = InUse(ty, o, w)
    BY <1>2, <1>3, <1>4, <1>5
  <2> QED
    BY Zenon, <1>5, <2>1
<1>6. CASE ~Counted(ftable[f], ty, o, w) /\ Counted(ftable'[f], ty, o, w)
  <2>1. InUse(ty, o, w)' = InUse(ty, o, w) \cup {f} /\ f \notin InUse(ty, o, w)
    BY Zenon, <1>2, <1>3, <1>4, <1>6
  <2> QED
    BY Zenon, <1>6, <2>1 DEF Changes, Grows
<1>7. CASE Counted(ftable[f], ty, o, w) /\ ~Counted(ftable'[f], ty, o, w)
  <2>1. InUse(ty, o, w)' = InUse(ty, o, w) \ {f} /\ f \in InUse(ty, o, w)
    BY Zenon, <1>2, <1>3, <1>4, <1>7
  <2> QED
    BY Zenon, <1>7, <2>1 DEF Changes, Shrinks
<1> QED
    BY Zenon, <1>5, <1>6, <1>7

LEMMA DroppingChange ==
    ASSUME NEW p \in FProcs, \A q \in FProcs \ {p} : closing'[q] = closing[q], NEW ty, NEW o, NEW w, NEW n,
           Changes(Spots(closing[p], Copy(ty, o, w)), Spots(closing'[p], Copy(ty, o, w)), n)
    PROVE  Changes(Dropping(ty, o, w), Dropping(ty, o, w)', n)
    BY Zenon, DroppingIs, EntriesChange

-----------------------------------------------------------------------------
(* One lemma for each action again.                                        *)
Objects == {"INODE", "PIPE"}

SameUses == \A ty \in Objects : \A o, w : Uses(ty, o, w)' = Uses(ty, o, w)

LEMMA UsesKept ==
    ASSUME NEW ty, NEW o, NEW w, InUse(ty, o, w)' = InUse(ty, o, w), Dropping(ty, o, w)' = Dropping(ty, o, w)
    PROVE  Uses(ty, o, w)' = Uses(ty, o, w)
<1>1. Uses(ty, o, w)' = Cardinality(InUse(ty, o, w)') + Cardinality(Dropping(ty, o, w)')
    BY Zenon DEF Uses, InUse, Counted
<1> QED
    BY Zenon, <1>1, UsesAre

LEMMA ObjectsKept ==
    ASSUME ObjInv, FtInv', Blank', UNCHANGED <<iref, pipes>>, SameUses
    PROVE  ObjInv'
<1>1. \A i \in OpenInodes : iref'[i] = Uses("INODE", i, 0)' + Uses("INODE", i, 1)'
    BY Zenon DEF ObjInv, ObjectsClosedOnce, SameUses, Objects
<1>2. \A q \in PipePages : /\ pipes'[q].readopen = Uses("PIPE", q, 0)'
                           /\ pipes'[q].writeopen = Uses("PIPE", q, 1)'
    BY Zenon DEF ObjInv, ObjectsClosedOnce, SameUses, Objects
<1>3. ObjectsClosedOnce'
    BY Zenon, <1>1, <1>2 DEF ObjectsClosedOnce
<1> QED
    BY Zenon, <1>3 DEF ObjInv

\* A list of closes without a drop starts.
LEMMA NoDrop ==
    ASSUME NEW p \in FProcs, closing[p] = <<>>, \A q \in FProcs \ {p} : closing'[q] = closing[q],
           NEW f, NEW g, closing'[p] = << <<"close", f>> >> \/ closing'[p] = << <<"close", f>>, <<"close", g>> >>
    PROVE  \A ty, o, w : Dropping(ty, o, w)' = Dropping(ty, o, w)
<1> SUFFICES ASSUME NEW ty, NEW o, NEW w
             PROVE  Dropping(ty, o, w)' = Dropping(ty, o, w)
    BY Zenon
<1>1. <<"close", f>> # Copy(ty, o, w) /\ <<"close", g>> # Copy(ty, o, w)
    BY Zenon DEF Copy
<1>2. Spots(closing[p], Copy(ty, o, w)) = {}
    BY Zenon, NoSpots
<1>3. Spots(closing'[p], Copy(ty, o, w)) = {}
    BY Zenon, <1>1, OneSpot, TwoSpots
<1>4. Changes(Spots(closing[p], Copy(ty, o, w)), Spots(closing'[p], Copy(ty, o, w)), 0)
    BY Zenon, <1>2, <1>3 DEF Changes
<1>5. Changes(Dropping(ty, o, w), Dropping(ty, o, w)', 0)
    BY Zenon, <1>4, DroppingChange
<1> QED
    BY <1>5 DEF Changes

LEMMA RefFields ==
    ASSUME FtTypeOK, NEW f \in File, NEW n \in Nat,
           ftable' = [ftable EXCEPT ![f] = [ftable[f] EXCEPT !.ref = n]]
    PROVE  /\ ftable'[f].ref = n /\ ftable'[f].type = ftable[f].type
           /\ ftable'[f].obj = ftable[f].obj /\ ftable'[f].w = ftable[f].w
           /\ \A g \in File \ {f} : ftable'[g] = ftable[g]
<1>1. ftable[f] \in FileRec /\ ftable'[f] = [ftable[f] EXCEPT !.ref = n]
    BY Zenon DEF FtTypeOK
<1> QED
    BY Zenon, <1>1 DEF FileRec, FtTypeOK

\* A new reference or one less, of an entry that stays in use; and one of an
\* entry without an object.
LEMMA RefUses ==
    ASSUME FtTypeOK, NEW f \in File, NEW n \in Nat,
           ftable' = [ftable EXCEPT ![f] = [ftable[f] EXCEPT !.ref = n]],
           (ftable[f].ref > 0 /\ n > 0) \/ ftable[f].type = "NONE"
    PROVE  \A ty \in Objects : \A o, w : InUse(ty, o, w)' = InUse(ty, o, w)
<1> SUFFICES ASSUME NEW ty \in Objects, NEW o, NEW w
             PROVE  InUse(ty, o, w)' = InUse(ty, o, w)
    BY Zenon
<1>1. /\ ftable'[f].ref = n /\ ftable'[f].type = ftable[f].type
      /\ ftable'[f].obj = ftable[f].obj /\ ftable'[f].w = ftable[f].w
      /\ \A g \in File \ {f} : ftable'[g] = ftable[g]
    BY Zenon, RefFields
<1>2. ty # "NONE"
    BY Zenon DEF Objects
<1>3. Counted(ftable[f], ty, o, w) <=> Counted(ftable'[f], ty, o, w)
    BY Zenon, <1>1, <1>2 DEF Counted
<1>4. \A g \in File \ {f} : ftable'[g] = ftable[g]
    BY Zenon, <1>1
<1> QED
    BY <1>3, <1>4, InUseChange

LEMMA DupObjects ==
    ASSUME ObjInv, NEW p \in FProcs, NEW d \in Fd, sys_dup(p, d)
    PROVE  ObjInv'
<1>0. FtInv /\ FtTypeOK /\ CallsInv /\ Blank /\ UNCHANGED <<iref, pipes, closing, half>>
    BY Zenon DEF ObjInv, FtInv, sys_dup
<1>1. PICK f \in File : f = ofile[p][d] /\ Holders(f) # {}
    BY Zenon, <1>0, DescriptorHolds DEF sys_dup, argfd
<1>2. ftable[f].ref \in Nat /\ ftable[f].ref >= 1
    BY Zenon, <1>0, <1>1 DEF sys_dup, filedup, FtTypeOK, FileRec
<1>3. PICK n \in Nat : n = ftable[f].ref + 1 /\ n > 0 /\ ftable[f].ref > 0
    BY <1>2
<1>4. ftable' = [ftable EXCEPT ![f] = [ftable[f] EXCEPT !.ref = n]]
    BY Zenon, <1>0, <1>1, <1>3 DEF sys_dup, filedup, FtTypeOK
<1>5. SameUses
  <2>1. \A ty \in Objects : \A o, w : InUse(ty, o, w)' = InUse(ty, o, w)
    BY Zenon, <1>0, <1>3, <1>4, RefUses
  <2>2. \A ty, o, w : Dropping(ty, o, w)' = Dropping(ty, o, w)
    BY Zenon, <1>0, DroppingIs
  <2> QED
    BY Zenon, <2>1, <2>2, UsesKept DEF SameUses
<1>6. Blank'
  <2>1. /\ ftable'[f].ref = n /\ ftable'[f].type = ftable[f].type
        /\ \A g \in File \ {f} : ftable'[g] = ftable[g]
    BY Zenon, <1>0, <1>4, RefFields
  <2>2. n # 0
    BY <1>3
  <2>3. \A q \in FProcs : half[q] # 0 => half[q] # f /\ half[q] \in File
    BY Zenon, <1>0, <1>1, HeldFile
  <2> QED
    BY Zenon, <2>1, <2>2, <2>3, <1>0 DEF Blank
<1>7. FtInv'
    BY Zenon, <1>0, DupPreserves
<1> QED
    BY Zenon, <1>0, <1>5, <1>6, <1>7, ObjectsKept

\* The table stays, and the lists of closes change without a drop.
LEMMA TableKept ==
    ASSUME ObjInv, FtInv', UNCHANGED <<ftable, iref, pipes>>,
           \A q \in FProcs : half'[q] # 0 => half'[q] = half[q],
           \A ty, o, w : Dropping(ty, o, w)' = Dropping(ty, o, w)
    PROVE  ObjInv'
<1>1. \A ty, o, w : InUse(ty, o, w)' = InUse(ty, o, w)
    BY Zenon DEF InUse, Counted
<1>2. SameUses
    BY Zenon, <1>1, UsesKept DEF SameUses
<1>3. Blank'
    BY Zenon DEF ObjInv, Blank
<1> QED
    BY Zenon, <1>2, <1>3, ObjectsKept

LEMMA CloseObjects ==
    ASSUME ObjInv, NEW p \in FProcs, NEW d \in Fd, sys_close(p, d)
    PROVE  ObjInv'
<1>1. /\ FtInv /\ closing \in [FProcs -> Seq(Closes)] /\ closing[p] = <<>>
      /\ UNCHANGED <<ftable, half, iref, pipes>>
      /\ closing' = [closing EXCEPT ![p] = << <<"close", ofile[p][d]>> >>]
    BY Zenon DEF ObjInv, FtInv, FtTypeOK, sys_close, InUser
<1>2. closing'[p] = << <<"close", ofile[p][d]>> >> /\ \A q \in FProcs \ {p} : closing'[q] = closing[q]
    BY Zenon, <1>1
<1>3. \A ty, o, w : Dropping(ty, o, w)' = Dropping(ty, o, w)
    BY Zenon, <1>1, <1>2, NoDrop
<1> QED
    BY Zenon, <1>1, <1>3, ClosePreserves, TableKept

LEMMA ExitCloseObjects ==
    ASSUME ObjInv, NEW p \in FProcs, exit_close(p)
    PROVE  ObjInv'
<1>1. /\ FtInv /\ closing \in [FProcs -> Seq(Closes)] /\ closing[p] = <<>>
      /\ UNCHANGED <<ftable, half, iref, pipes>>
    BY Zenon DEF ObjInv, FtInv, FtTypeOK, exit_close
<1>2. CASE UNCHANGED closing
  <2>1. \A ty, o, w : Dropping(ty, o, w)' = Dropping(ty, o, w)
    BY Zenon, <1>2, DroppingIs
  <2> QED
    BY Zenon, <2>1, <1>1, ExitClosePreserves, TableKept
<1>3. CASE \E d \in Fd : closing' = [closing EXCEPT ![p] = << <<"close", ofile[p][d]>> >>]
  <2>1. PICK d : closing' = [closing EXCEPT ![p] = << <<"close", ofile[p][d]>> >>]
    BY Zenon, <1>3
  <2>2. closing'[p] = << <<"close", ofile[p][d]>> >> /\ \A q \in FProcs \ {p} : closing'[q] = closing[q]
    BY Zenon, <1>1, <2>1
  <2>3. \A ty, o, w : Dropping(ty, o, w)' = Dropping(ty, o, w)
    BY Zenon, <1>1, <2>2, NoDrop
  <2> QED
    BY Zenon, <1>1, <2>3, ExitClosePreserves, TableKept
<1> QED
    BY Zenon, <1>2, <1>3 DEF exit_close, Lowest

LEMMA ExitObjects ==
    ASSUME ObjInv, NEW p \in FProcs, exit(p)
    PROVE  ObjInv'
<1>1. FtInv /\ UNCHANGED <<ftable, half, closing, iref, pipes>>
    BY Zenon DEF ObjInv, exit
<1>2. \A ty, o, w : Dropping(ty, o, w)' = Dropping(ty, o, w)
    BY Zenon, <1>1, DroppingIs
<1> QED
    BY Zenon, <1>1, <1>2, ExitPreserves, TableKept

LEMMA PipeBadObjects ==
    ASSUME ObjInv, NEW p \in FProcs, pipealloc_bad(p)
    PROVE  ObjInv'
<1>1. /\ FtInv /\ closing \in [FProcs -> Seq(Closes)] /\ closing[p] = <<>>
      /\ UNCHANGED <<ftable, iref, pipes>>
      /\ closing' = [closing EXCEPT ![p] = << <<"close", half[p]>> >>]
      /\ half \in [FProcs -> 0 .. NFILE] /\ half' = [half EXCEPT ![p] = 0]
    BY Zenon DEF ObjInv, FtInv, FtTypeOK, CallsInv, pipealloc_bad
<1>2. closing'[p] = << <<"close", half[p]>> >> /\ \A q \in FProcs \ {p} : closing'[q] = closing[q]
    BY Zenon, <1>1
<1>3. \A ty, o, w : Dropping(ty, o, w)' = Dropping(ty, o, w)
    BY Zenon, <1>1, <1>2, NoDrop
<1>4. \A q \in FProcs : half'[q] # 0 => half'[q] = half[q]
    BY Zenon, <1>1
<1> QED
    BY Zenon, <1>1, <1>3, <1>4, PipeBadPreserves, TableKept

\* filealloc() hands out an entry of type NONE: no object is used by it.
LEMMA PipeObjects ==
    ASSUME ObjInv, NEW p \in FProcs, sys_pipe(p)
    PROVE  ObjInv'
<1>0. /\ FtInv /\ FtTypeOK /\ Blank /\ UNCHANGED <<closing, iref, pipes>>
      /\ half \in [FProcs -> 0 .. NFILE]
    BY Zenon DEF ObjInv, FtInv, FtTypeOK, sys_pipe
<1>1. PICK f \in File : /\ ftable[f].ref = 0 /\ ftable[f].type = "NONE"
                        /\ ftable' = [ftable EXCEPT ![f] = [ftable[f] EXCEPT !.ref = 1]]
                        /\ half' = [half EXCEPT ![p] = f]
    BY Zenon, <1>0 DEF sys_pipe, Lowest, FreeFiles, filealloc, Blank
<1>2. 1 \in Nat /\ 1 # 0
    OBVIOUS
<1>3. /\ ftable'[f].ref = 1 /\ ftable'[f].type = "NONE"
      /\ \A g \in File \ {f} : ftable'[g] = ftable[g]
    BY Zenon, <1>0, <1>1, <1>2, RefFields
<1>4. SameUses
  <2>1. \A ty \in Objects : \A o, w : InUse(ty, o, w)' = InUse(ty, o, w)
    BY Zenon, <1>0, <1>1, <1>2, RefUses
  <2>2. \A ty, o, w : Dropping(ty, o, w)' = Dropping(ty, o, w)
    BY Zenon, <1>0, DroppingIs
  <2> QED
    BY Zenon, <2>1, <2>2, UsesKept DEF SameUses
<1>5. Blank'
  <2>1. \A g \in File : ftable'[g].ref = 0 => ftable'[g].type = "NONE"
    BY Zenon, <1>0, <1>3 DEF Blank
  <2>2. \A q \in FProcs : half[q] # 0 => half[q] \in File
    BY Zenon, <1>0, HalfAlone
  <2>3. half'[p] = f /\ \A q \in FProcs \ {p} : half'[q] = half[q]
    BY Zenon, <1>0, <1>1
  <2>4. \A q \in FProcs : half'[q] # 0 => ftable'[half'[q]].type = "NONE"
    BY Zenon, <2>2, <2>3, <1>0, <1>3 DEF Blank
  <2> QED
    BY Zenon, <2>1, <2>4 DEF Blank
<1> QED
    BY Zenon, <1>0, <1>4, <1>5, PipePreserves, ObjectsKept

\* fork() adds references to entries that have some.
LEMMA ForkObjects ==
    ASSUME ObjInv, NEW p \in FProcs, NEW c \in FProcs, fork(p, c)
    PROVE  ObjInv'
<1> DEFINE F(g) == {d \in Fd : ofile[p][d] = g}
<1>0. /\ FtInv /\ FtTypeOK /\ Blank /\ UNCHANGED <<half, closing, iref, pipes>>
      /\ ftable' = [f \in File |-> [ftable[f] EXCEPT !.ref = ftable[f].ref + Cardinality(F(f))]]
    BY Zenon DEF ObjInv, FtInv, fork, DupAll
<1>1. \A g \in File : ftable[g] \in FileRec /\ ftable[g].ref \in Nat
    BY Zenon, <1>0 DEF FtTypeOK, FileRec
<1>2. \A g : Cardinality(F(g)) \in Nat
  <2>1. IsFiniteSet(Fd)
    <3>1. NOFILE - 1 \in Int /\ 0 \in Int
      BY FileTableAssumption
    <3> QED
      BY Zenon, <3>1, FS_Interval DEF Fd
  <2>2. \A g : F(g) \subseteq Fd
    BY Zenon
  <2> QED
    BY Zenon, <2>1, <2>2, FS_Subset, FS_CardinalityType
<1>3. \A g \in File : ftable[g].ref = 0 => Cardinality(F(g)) = 0
  <2> SUFFICES ASSUME NEW g \in File, ftable[g].ref = 0
               PROVE  F(g) = {}
    BY Zenon, FS_EmptySet
  <2>1. Holders(g) = {}
    BY Zenon, <1>0, FreeUnused
  <2>2. \A d \in Fd : ofile[p][d] = g => <<p, d>> \in Holders(g)
    BY Zenon DEF Holders
  <2> QED
    BY Zenon, <2>1, <2>2
<1> HIDE DEF F
<1>4. \A g \in File : /\ ftable'[g].ref = ftable[g].ref + Cardinality(F(g)) /\ ftable'[g].type = ftable[g].type
                      /\ ftable'[g].obj = ftable[g].obj /\ ftable'[g].w = ftable[g].w
  <2> SUFFICES ASSUME NEW g \in File
               PROVE  /\ ftable'[g].ref = ftable[g].ref + Cardinality(F(g)) /\ ftable'[g].type = ftable[g].type
                      /\ ftable'[g].obj = ftable[g].obj /\ ftable'[g].w = ftable[g].w
    BY Zenon
  <2>1. ftable'[g] = [ftable[g] EXCEPT !.ref = ftable[g].ref + Cardinality(F(g))]
    BY Zenon, <1>0
  <2> QED
    BY Zenon, <2>1, <1>1 DEF FileRec
<1>5. \A g \in File : (ftable'[g].ref > 0 <=> ftable[g].ref > 0) /\ (ftable'[g].ref = 0 <=> ftable[g].ref = 0)
    BY <1>1, <1>2, <1>3, <1>4
<1>6. \A ty, o, w : InUse(ty, o, w)' = InUse(ty, o, w)
  <2>1. \A g \in File : \A ty, o, w : Counted(ftable'[g], ty, o, w) <=> Counted(ftable[g], ty, o, w)
    BY Zenon, <1>4, <1>5 DEF Counted
  <2>2. \A ty, o, w : InUse(ty, o, w)' = {g \in File : Counted(ftable'[g], ty, o, w)}
    BY Zenon DEF InUse, Counted
  <2> QED
    BY Zenon, <2>1, <2>2 DEF InUse
<1>7. \A ty, o, w : Dropping(ty, o, w)' = Dropping(ty, o, w)
    BY Zenon, <1>0, DroppingIs
<1>8. SameUses
    BY Zenon, <1>6, <1>7, UsesKept DEF SameUses
<1>9. Blank'
  <2>1. \A q \in FProcs : half[q] # 0 => half[q] \in File
    BY Zenon, <1>0, HalfAlone
  <2> QED
    BY Zenon, <2>1, <1>0, <1>4, <1>5 DEF Blank
<1> QED
    BY Zenon, <1>0, <1>8, <1>9, ForkPreserves, ObjectsKept

\* One object gains or loses a use.
OneUse(ty0, o0, w0, n) ==
    \A ty \in Objects : \A o, w :
       /\ ty = ty0 /\ o = o0 /\ w = w0 => Uses(ty, o, w)' = Uses(ty, o, w) + n
       /\ ~(ty = ty0 /\ o = o0 /\ w = w0) => Uses(ty, o, w)' = Uses(ty, o, w)

LEMMA InodeUse ==
    ASSUME ObjInv, FtInv', Blank', UNCHANGED pipes,
           NEW i, NEW w \in 0 .. 1, NEW n \in Int, OneUse("INODE", i, w, n),
           iref' = [iref EXCEPT ![i] = iref[i] + n]
    PROVE  ObjInv'
<1>0. iref \in [OpenInodes -> Int]
    BY Zenon DEF ObjInv
<1>1. iref' \in [OpenInodes -> Int] /\ (\A j \in OpenInodes : j # i => iref'[j] = iref[j])
      /\ (i \in OpenInodes => iref'[i] = iref[i] + n)
  <2>1. CASE i \in OpenInodes
    BY <2>1, <1>0
  <2>2. CASE i \notin OpenInodes
    <3>1. iref' = iref
      BY Zenon, <1>0, <2>2
    <3> QED
      BY Zenon, <1>0, <2>2, <3>1
  <2> QED
    BY Zenon, <2>1, <2>2
<1>2. \A j \in OpenInodes : iref'[j] = Uses("INODE", j, 0)' + Uses("INODE", j, 1)'
  <2> SUFFICES ASSUME NEW j \in OpenInodes
               PROVE  iref'[j] = Uses("INODE", j, 0)' + Uses("INODE", j, 1)'
    BY Zenon
  <2>1. iref[j] = Uses("INODE", j, 0) + Uses("INODE", j, 1)
    BY Zenon DEF ObjInv, ObjectsClosedOnce
  <2>2. Uses("INODE", j, 0) \in Nat /\ Uses("INODE", j, 1) \in Nat
    BY Zenon, UsesFinite DEF ObjInv
  <2>3. CASE j # i
    <3>1. Uses("INODE", j, 0)' = Uses("INODE", j, 0) /\ Uses("INODE", j, 1)' = Uses("INODE", j, 1)
      BY Zenon, <2>3 DEF OneUse, Objects
    <3> QED
      BY Zenon, <1>1, <2>1, <2>3, <3>1
  <2>4. CASE j = i /\ w = 0
    <3>0. 0 # 1
      OBVIOUS
    <3>1. Uses("INODE", j, 0)' = Uses("INODE", j, 0) + n /\ Uses("INODE", j, 1)' = Uses("INODE", j, 1)
      BY Zenon, <2>4, <3>0 DEF OneUse, Objects
    <3> QED
      BY <1>1, <2>1, <2>2, <2>4, <3>1
  <2>5. CASE j = i /\ w = 1
    <3>0. 0 # 1
      OBVIOUS
    <3>1. Uses("INODE", j, 0)' = Uses("INODE", j, 0) /\ Uses("INODE", j, 1)' = Uses("INODE", j, 1) + n
      BY Zenon, <2>5, <3>0 DEF OneUse, Objects
    <3> QED
      BY <1>1, <2>1, <2>2, <2>5, <3>1
  <2>6. w = 0 \/ w = 1
    OBVIOUS
  <2> QED
    BY Zenon, <2>3, <2>4, <2>5, <2>6
<1>3. "PIPE" \in Objects /\ "PIPE" # "INODE"
    BY Zenon DEF Objects
<1>4. \A q \in PipePages : /\ pipes'[q].readopen = Uses("PIPE", q, 0)'
                           /\ pipes'[q].writeopen = Uses("PIPE", q, 1)'
    BY Zenon, <1>3 DEF ObjInv, ObjectsClosedOnce, OneUse
<1>5. ObjectsClosedOnce'
    BY Zenon, <1>2, <1>4 DEF ObjectsClosedOnce
<1> QED
    BY Zenon, <1>1, <1>5 DEF ObjInv

LEMMA OpenObjects ==
    ASSUME ObjInv, NEW p \in FProcs, NEW i \in OpenInodes, sys_open(p, i)
    PROVE  ObjInv'
<1> DEFINE r == [ref |-> 1, type |-> "INODE", obj |-> i, w |-> 1]
<1>0. FtInv /\ FtTypeOK /\ Blank /\ UNCHANGED <<half, closing, pipes>>
    BY Zenon DEF ObjInv, FtInv, sys_open
<1>1. PICK f \in File : ftable[f].ref = 0 /\ ftable' = [ftable EXCEPT ![f] = r]
    BY Zenon DEF sys_open, Lowest, FreeFiles
<1>2. ftable'[f] = r /\ \A g \in File \ {f} : ftable'[g] = ftable[g]
    BY Zenon, <1>0, <1>1 DEF FtTypeOK
<1>3. r.ref = 1 /\ r.type = "INODE" /\ r.obj = i /\ r.w = 1 /\ 1 > 0 /\ ~(0 > 0) /\ 1 # 0 /\ 1 \in 0 .. 1 /\ 1 \in Int
    OBVIOUS
<1> HIDE DEF r
<1>4. OneUse("INODE", i, 1, 1)
  <2> SUFFICES ASSUME NEW ty \in Objects, NEW o, NEW w
               PROVE  /\ ty = "INODE" /\ o = i /\ w = 1 => Uses(ty, o, w)' = Uses(ty, o, w) + 1
                      /\ ~(ty = "INODE" /\ o = i /\ w = 1) => Uses(ty, o, w)' = Uses(ty, o, w)
    BY Zenon DEF OneUse
  <2>1. ~Counted(ftable[f], ty, o, w)
    BY Zenon, <1>1, <1>3 DEF Counted
  <2>2. Counted(ftable'[f], ty, o, w) <=> ty = "INODE" /\ o = i /\ w = 1
    BY Zenon, <1>2, <1>3 DEF Counted
  <2>3. Dropping(ty, o, w)' = Dropping(ty, o, w)
    BY Zenon, <1>0, DroppingIs
  <2>4. ASSUME ty = "INODE" /\ o = i /\ w = 1
        PROVE  Uses(ty, o, w)' = Uses(ty, o, w) + 1
    <3>1. Changes(InUse(ty, o, w), InUse(ty, o, w)', 1)
      BY Zenon, <2>1, <2>2, <2>4, <1>2, InUseChange
    <3>2. Changes(Dropping(ty, o, w), Dropping(ty, o, w)', 0)
      BY Zenon, <2>3 DEF Changes
    <3>3. Uses(ty, o, w)' = Uses(ty, o, w) + 1 + 0
      BY SMT, <1>0, <3>1, <3>2, UsesChange
    <3>4. Uses(ty, o, w) \in Nat
      BY Zenon, <1>0, UsesFinite
    <3> QED
      BY <3>3, <3>4
  <2>5. ASSUME ~(ty = "INODE" /\ o = i /\ w = 1)
        PROVE  Uses(ty, o, w)' = Uses(ty, o, w)
    <3>1. InUse(ty, o, w)' = InUse(ty, o, w)
      BY <2>1, <2>2, <2>5, <1>2, InUseChange
    <3> QED
      BY Zenon, <2>3, <3>1, UsesKept
  <2> QED
    BY Zenon, <2>4, <2>5
<1>5. iref' = [iref EXCEPT ![i] = iref[i] + 1]
    BY Zenon DEF sys_open, ObjInv
<1>6. Blank'
  <2>1. \A q \in FProcs : half[q] # 0 => half[q] \in File /\ half[q] # f
    BY Zenon, <1>0, <1>1, <1>3, HalfAlone
  <2> QED
    BY Zenon, <2>1, <1>0, <1>2, <1>3 DEF Blank
<1>7. FtInv'
    BY Zenon, <1>0, OpenPreserves
<1> QED
    BY Zenon, <1>0, <1>3, <1>4, <1>5, <1>6, <1>7, InodeUse

LEMMA OpenFullObjects ==
    ASSUME ObjInv, NEW p \in FProcs, NEW i \in OpenInodes, sys_open_full(p, i)
    PROVE  ObjInv'
<1>0. /\ FtInv /\ FtTypeOK /\ Blank /\ UNCHANGED <<half, pipes>> /\ closing[p] = <<>>
      /\ closing \in [FProcs -> Seq(Closes)]
    BY Zenon DEF ObjInv, FtInv, FtTypeOK, sys_open_full, InUser
<1>1. PICK f \in File : /\ ftable[f].ref = 0 /\ ftable[f].type = "NONE"
                        /\ ftable' = [ftable EXCEPT ![f] = [ftable[f] EXCEPT !.ref = 1]]
                        /\ closing' = [closing EXCEPT ![p] = << <<"close", f>>, Copy("INODE", i, 0)>>]
    BY Zenon, <1>0 DEF sys_open_full, Lowest, FreeFiles, filealloc, Blank, Copy
<1>2. 1 \in Nat /\ 1 # 0 /\ 0 \in 0 .. 1 /\ 1 \in Int
    OBVIOUS
<1>3. /\ ftable'[f].ref = 1 /\ ftable'[f].type = "NONE"
      /\ \A g \in File \ {f} : ftable'[g] = ftable[g]
    BY Zenon, <1>0, <1>1, <1>2, RefFields
<1>4. \A ty \in Objects : \A o, w : InUse(ty, o, w)' = InUse(ty, o, w)
    BY Zenon, <1>0, <1>1, <1>2, RefUses
<1>5. /\ closing'[p] = << <<"close", f>>, Copy("INODE", i, 0)>>
      /\ \A q \in FProcs \ {p} : closing'[q] = closing[q]
    BY Zenon, <1>0, <1>1
<1>6. OneUse("INODE", i, 0, 1)
  <2> SUFFICES ASSUME NEW ty \in Objects, NEW o, NEW w
               PROVE  /\ ty = "INODE" /\ o = i /\ w = 0 => Uses(ty, o, w)' = Uses(ty, o, w) + 1
                      /\ ~(ty = "INODE" /\ o = i /\ w = 0) => Uses(ty, o, w)' = Uses(ty, o, w)
    BY Zenon DEF OneUse
  <2>1. <<"close", f>> # Copy(ty, o, w)
    BY Zenon DEF Copy
  <2>2. Copy("INODE", i, 0) = Copy(ty, o, w) <=> ty = "INODE" /\ o = i /\ w = 0
    BY Zenon DEF Copy
  <2>3. /\ Spots(closing[p], Copy(ty, o, w)) = {}
        /\ Spots(closing'[p], Copy(ty, o, w)) = IF ty = "INODE" /\ o = i /\ w = 0 THEN {0} ELSE {}
    <3>1. PICK a, b, e : a = <<"close", f>> /\ b = Copy("INODE", i, 0) /\ e = Copy(ty, o, w)
      BY Zenon
    <3>2. Spots(<<a, b>>, e) = IF b = e THEN {0} ELSE {}
      BY Zenon, <3>1, <2>1, TwoSpots
    <3>3. Spots(closing'[p], e) = IF b = e THEN {0} ELSE {}
      BY Zenon, <1>5, <3>1, <3>2
    <3> QED
      BY Zenon, <1>0, <3>1, <3>3, <2>2, NoSpots
  <2>4. ASSUME ty = "INODE" /\ o = i /\ w = 0
        PROVE  Uses(ty, o, w)' = Uses(ty, o, w) + 1
    <3>1. Changes(Spots(closing[p], Copy(ty, o, w)), Spots(closing'[p], Copy(ty, o, w)), 1)
      <4>1. Spots(closing'[p], Copy(ty, o, w)) = Spots(closing[p], Copy(ty, o, w)) \cup {0}
        BY Zenon, <2>3, <2>4
      <4>2. 0 \notin Spots(closing[p], Copy(ty, o, w))
        BY Zenon, <2>3
      <4> QED
        BY Zenon, <4>1, <4>2 DEF Changes, Grows
    <3>2. Changes(Dropping(ty, o, w), Dropping(ty, o, w)', 1)
      BY Zenon, <3>1, <1>5, DroppingChange
    <3>3. Changes(InUse(ty, o, w), InUse(ty, o, w)', 0)
      BY Zenon, <1>4 DEF Changes
    <3>4. Uses(ty, o, w)' = Uses(ty, o, w) + 0 + 1
      BY SMT, <1>0, <3>2, <3>3, UsesChange
    <3>5. Uses(ty, o, w) \in Nat
      BY Zenon, <1>0, UsesFinite
    <3> QED
      BY <3>4, <3>5
  <2>5. ASSUME ~(ty = "INODE" /\ o = i /\ w = 0)
        PROVE  Uses(ty, o, w)' = Uses(ty, o, w)
    <3>1. Changes(Spots(closing[p], Copy(ty, o, w)), Spots(closing'[p], Copy(ty, o, w)), 0)
      BY Zenon, <2>3, <2>5 DEF Changes
    <3>2. Changes(Dropping(ty, o, w), Dropping(ty, o, w)', 0)
      BY Zenon, <3>1, <1>5, DroppingChange
    <3>3. Dropping(ty, o, w)' = Dropping(ty, o, w)
      BY <3>2 DEF Changes
    <3> QED
      BY Zenon, <3>3, <1>4, UsesKept
  <2> QED
    BY Zenon, <2>4, <2>5
<1>7. iref' = [iref EXCEPT ![i] = iref[i] + 1]
    BY Zenon DEF sys_open_full, ObjInv
<1>8. Blank'
  <2>1. \A q \in FProcs : half[q] # 0 => half[q] \in File
    BY Zenon, <1>0, HalfAlone
  <2> QED
    BY Zenon, <2>1, <1>0, <1>2, <1>3 DEF Blank
<1>9. FtInv'
    BY Zenon, <1>0, OpenFullPreserves
<1> QED
    BY Zenon, <1>0, <1>2, <1>6, <1>7, <1>8, <1>9, InodeUse

\* The last close of a file moves the use of its object to the closing process.
LEMMA FilecloseObjects ==
    ASSUME ObjInv, NEW p \in FProcs, fileclose(p)
    PROVE  ObjInv'
<1>0. /\ FtInv /\ FtTypeOK /\ Blank /\ closing[p] # <<>> /\ UNCHANGED <<half, iref, pipes>>
      /\ closing \in [FProcs -> Seq(Closes)] /\ closing[p] \in Seq(Closes)
    BY Zenon DEF ObjInv, FtInv, FtTypeOK, fileclose
<1>1. Head(closing[p]) \in Closes /\ Head(closing[p])[1] = "close"
    BY Zenon, <1>0, ListPop DEF fileclose
<1>2. PICK f \in File : Head(closing[p]) = <<"close", f>>
    BY <1>1 DEF Closes
<1>3. ftable[f] \in FileRec /\ ftable[f].ref \in Nat /\ Head(closing[p])[2] = f
    BY <1>0, <1>2 DEF FtTypeOK, FileRec
<1>4. \A ty, o, w : Head(closing[p]) # Copy(ty, o, w)
    BY <1>2 DEF Copy
<1>5. FtInv'
    BY Zenon, <1>0, FileclosePreserves
<1>6. \A q \in FProcs : half[q] # 0 => half[q] # f /\ half[q] \in File
  <2>1. Closing(f) # {}
    BY Zenon, <1>0, <1>2, PopHead, ClosingIs
  <2> QED
    BY Zenon, <1>0, <2>1, HeldFile
<1>7. CASE ftable[f].ref > 1
  <2>1. /\ ftable' = [ftable EXCEPT ![f] = [ftable[f] EXCEPT !.ref = ftable[f].ref - 1]]
        /\ closing' = [closing EXCEPT ![p] = Tail(@)]
    BY Zenon, <1>0, <1>3, <1>7 DEF fileclose, FtTypeOK
  <2>2. PICK n \in Nat : n = ftable[f].ref - 1 /\ n > 0 /\ n # 0 /\ ftable[f].ref > 0
    <3>1. PICK m : m = ftable[f].ref
      BY Zenon
    <3>2. m \in Nat /\ m > 1
      BY Zenon, <1>3, <1>7, <3>1
    <3>3. m - 1 \in Nat /\ m - 1 > 0 /\ m - 1 # 0 /\ m > 0
      BY <3>2
    <3> QED
      BY Zenon, <3>1, <3>3
  <2>3. ftable' = [ftable EXCEPT ![f] = [ftable[f] EXCEPT !.ref = n]]
    BY Zenon, <2>1, <2>2
  <2>4. /\ ftable'[f].ref = n /\ ftable'[f].type = ftable[f].type
        /\ \A g \in File \ {f} : ftable'[g] = ftable[g]
    BY Zenon, <1>0, <2>3, RefFields
  <2>5. \A ty \in Objects : \A o, w : InUse(ty, o, w)' = InUse(ty, o, w)
    BY Zenon, <1>0, <2>2, <2>3, RefUses
  <2>6. closing'[p] = Tail(closing[p]) /\ \A q \in FProcs \ {p} : closing'[q] = closing[q]
    BY Zenon, <1>0, <2>1
  <2>7. \A ty, o, w : Dropping(ty, o, w)' = Dropping(ty, o, w)
    <3> SUFFICES ASSUME NEW ty, NEW o, NEW w
                 PROVE  Dropping(ty, o, w)' = Dropping(ty, o, w)
      BY Zenon
    <3>1. Spots(Tail(closing[p]), Copy(ty, o, w)) = Spots(closing[p], Copy(ty, o, w))
      BY Zenon, <1>0, <1>4, TailSpots
    <3>2. Changes(Spots(closing[p], Copy(ty, o, w)), Spots(closing'[p], Copy(ty, o, w)), 0)
      BY Zenon, <2>6, <3>1 DEF Changes
    <3>3. Changes(Dropping(ty, o, w), Dropping(ty, o, w)', 0)
      BY Zenon, <2>6, <3>2, DroppingChange
    <3> QED
      BY <3>3 DEF Changes
  <2>8. SameUses
    BY Zenon, <2>5, <2>7, UsesKept DEF SameUses
  <2>9. Blank'
    BY Zenon, <1>0, <1>6, <2>2, <2>4 DEF Blank
  <2> QED
    BY Zenon, <1>0, <1>5, <2>8, <2>9, ObjectsKept
<1>8. CASE ~ (ftable[f].ref > 1)
  <2> DEFINE r == [ftable[f] EXCEPT !.ref = 0]
             x == <<"drop", r>>
  <2>1. ftable[f].ref = 1
    BY <1>3, <1>8 DEF fileclose
  <2>2. ftable' = [ftable EXCEPT ![f] = NoFile]
    BY Zenon, <1>3, <1>8 DEF fileclose, Cleared
  <2>3. closing' = [closing EXCEPT ![p] = <<x>> \o Tail(closing[p])]
    <3>1. closing' = [closing EXCEPT ![p] = <<ClosedCopy(f)>> \o Tail(@)]
      BY Zenon, <1>3, <1>8 DEF fileclose
    <3> QED
      BY Zenon, <3>1 DEF ClosedCopy
  <2>4. x \in Closes
    <3>1. 0 \in Nat
      BY Zenon
    <3>2. r \in DropRec
      BY Zenon, <3>1, <1>3, RefTyped DEF DropRec
    <3> QED
      BY Zenon, <3>2 DEF Closes
  <2>5. ftable'[f] = NoFile /\ \A g \in File \ {f} : ftable'[g] = ftable[g]
    BY Zenon, <1>0, <2>2 DEF FtTypeOK
  <2>6. NoFile.ref = 0 /\ NoFile.type = "NONE" /\ 1 > 0 /\ ~(0 > 0)
    BY DEF NoFile
  <2>7. closing'[p] = <<x>> \o Tail(closing[p]) /\ \A q \in FProcs \ {p} : closing'[q] = closing[q]
    BY Zenon, <1>0, <2>3
  <2>8. \A ty, o, w : x = Copy(ty, o, w) <=> Counted(ftable[f], ty, o, w)
    BY <1>3, <2>1 DEF Copy, Counted, FileRec
  <2> HIDE DEF x, r
  <2>9. SameUses
    <3> SUFFICES ASSUME NEW ty \in Objects, NEW o, NEW w
                 PROVE  Uses(ty, o, w)' = Uses(ty, o, w)
      BY Zenon DEF SameUses
    <3>1. ~Counted(ftable'[f], ty, o, w)
      BY Zenon, <2>5, <2>6 DEF Counted
    <3>2. /\ x = Copy(ty, o, w) => Changes(Spots(closing[p], Copy(ty, o, w)), Spots(closing'[p], Copy(ty, o, w)), 1)
          /\ x # Copy(ty, o, w) => Spots(closing'[p], Copy(ty, o, w)) = Spots(closing[p], Copy(ty, o, w))
      <4>1. PICK s, e : s = closing[p] /\ e = Copy(ty, o, w) /\ s \in Seq(Closes) /\ s # <<>>
        BY Zenon, <1>0
      <4>3. Head(s) # e
        BY Zenon, <1>4, <4>1
      <4>2. /\ x = e => Changes(Spots(s, e), Spots(<<x>> \o Tail(s), e), 1)
            /\ x # e => Spots(<<x>> \o Tail(s), e) = Spots(s, e)
        BY Zenon, <4>1, <4>3, <2>4, SwapSpots
      <4> QED
        BY Zenon, <4>1, <4>2, <2>7
    <3>3. CASE Counted(ftable[f], ty, o, w)
      <4>1. Changes(InUse(ty, o, w), InUse(ty, o, w)', -1)
        BY Zenon, <3>1, <3>3, <2>5, InUseChange
      <4>2. Changes(Spots(closing[p], Copy(ty, o, w)), Spots(closing'[p], Copy(ty, o, w)), 1)
        BY Zenon, <3>2, <3>3, <2>8
      <4>3. Changes(Dropping(ty, o, w), Dropping(ty, o, w)', 1)
        BY Zenon, <2>7, <4>2, DroppingChange
      <4>4. Uses(ty, o, w)' = Uses(ty, o, w) + (-1) + 1
        BY SMT, <1>0, <4>1, <4>3, UsesChange
      <4>5. Uses(ty, o, w) \in Nat
        BY Zenon, <1>0, UsesFinite
      <4> QED
        BY <4>4, <4>5
    <3>4. CASE ~Counted(ftable[f], ty, o, w)
      <4>1. InUse(ty, o, w)' = InUse(ty, o, w)
        BY <3>1, <3>4, <2>5, InUseChange
      <4>2. Changes(Spots(closing[p], Copy(ty, o, w)), Spots(closing'[p], Copy(ty, o, w)), 0)
        BY Zenon, <3>2, <3>4, <2>8 DEF Changes
      <4>3. Changes(Dropping(ty, o, w), Dropping(ty, o, w)', 0)
        BY Zenon, <2>7, <4>2, DroppingChange
      <4>4. Dropping(ty, o, w)' = Dropping(ty, o, w)
        BY <4>3 DEF Changes
      <4> QED
        BY Zenon, <4>1, <4>4, UsesKept
    <3> QED
      BY Zenon, <3>3, <3>4
  <2>10. Blank'
    BY Zenon, <1>0, <1>6, <2>5, <2>6 DEF Blank
  <2> QED
    BY Zenon, <1>0, <1>5, <2>9, <2>10, ObjectsKept
<1> QED
    BY Zenon, <1>7, <1>8

ShutsRead(f, g, x) == g = [f EXCEPT ![x].readopen = 0]

LEMMA ReadEndShut ==
    ASSUME NEW f \in [PipePages -> Ends], NEW x, NEW g, ShutsRead(f, g, x)
    PROVE  /\ g \in [PipePages -> Ends]
           /\ \A q \in PipePages : /\ q = x => g[q].readopen = 0
                                   /\ q # x => g[q].readopen = f[q].readopen
                                   /\ g[q].writeopen = f[q].writeopen
<1>1. CASE x \in PipePages
  <2>1. PICK e : e = [f[x] EXCEPT !.readopen = 0]
    BY Zenon
  <2>2. e \in Ends /\ e.readopen = 0 /\ e.writeopen = f[x].writeopen
    BY <2>1, <1>1 DEF Ends
  <2>3. g \in [PipePages -> Ends] /\ g[x] = e /\ \A q \in PipePages \ {x} : g[q] = f[q]
    BY Zenon, <1>1, <2>1, <2>2 DEF ShutsRead
  <2> QED
    BY Zenon, <1>1, <2>2, <2>3
<1>2. CASE x \notin PipePages
  <2>1. g = f
    BY Zenon, <1>2 DEF ShutsRead
  <2> QED
    BY Zenon, <1>2, <2>1
<1> QED
    BY Zenon, <1>1, <1>2

ShutsWrite(f, g, x) == g = [f EXCEPT ![x].writeopen = 0]

LEMMA WriteEndShut ==
    ASSUME NEW f \in [PipePages -> Ends], NEW x, NEW g, ShutsWrite(f, g, x)
    PROVE  /\ g \in [PipePages -> Ends]
           /\ \A q \in PipePages : /\ q = x => g[q].writeopen = 0
                                   /\ q # x => g[q].writeopen = f[q].writeopen
                                   /\ g[q].readopen = f[q].readopen
<1>1. CASE x \in PipePages
  <2>1. PICK e : e = [f[x] EXCEPT !.writeopen = 0]
    BY Zenon
  <2>2. e \in Ends /\ e.writeopen = 0 /\ e.readopen = f[x].readopen
    BY <2>1, <1>1 DEF Ends
  <2>3. g \in [PipePages -> Ends] /\ g[x] = e /\ \A q \in PipePages \ {x} : g[q] = f[q]
    BY Zenon, <1>1, <2>1, <2>2 DEF ShutsWrite
  <2> QED
    BY Zenon, <1>1, <2>2, <2>3
<1>2. CASE x \notin PipePages
  <2>1. g = f
    BY Zenon, <1>2 DEF ShutsWrite
  <2> QED
    BY Zenon, <1>2, <2>1
<1> QED
    BY Zenon, <1>1, <1>2

\* pipeclose() or iput() for the copy: one use less.
LEMMA DropObjects ==
    ASSUME ObjInv, NEW p \in FProcs, fileclose_drop(p)
    PROVE  ObjInv'
<1>0. /\ FtInv /\ FtTypeOK /\ Blank /\ closing[p] # <<>> /\ UNCHANGED <<ftable, half>>
      /\ closing \in [FProcs -> Seq(Closes)] /\ closing[p] \in Seq(Closes)
      /\ closing' = [closing EXCEPT ![p] = Tail(closing[p])]
    BY Zenon DEF ObjInv, FtInv, FtTypeOK, fileclose_drop
<1>1. Head(closing[p]) \in Closes /\ Head(closing[p])[1] = "drop"
    BY Zenon, <1>0, ListPop DEF fileclose_drop
<1>2. PICK r \in DropRec : Head(closing[p]) = <<"drop", r>>
    BY <1>1 DEF Closes
<1>3. Head(closing[p])[2] = r /\ r.w \in 0 .. 1
    BY <1>2 DEF DropRec, FileRec
<1>4. \A ty, o, w : Head(closing[p]) = Copy(ty, o, w) <=> ty = r.type /\ o = r.obj /\ w = r.w
    BY <1>2 DEF Copy, DropRec, FileRec
<1>5. closing'[p] = Tail(closing[p]) /\ \A q \in FProcs \ {p} : closing'[q] = closing[q]
    BY Zenon, <1>0
<1>6. \A ty, o, w : InUse(ty, o, w)' = InUse(ty, o, w)
    BY Zenon, <1>0 DEF InUse, Counted
<1>7. \A ty, o, w : /\ ty = r.type /\ o = r.obj /\ w = r.w => Uses(ty, o, w)' = Uses(ty, o, w) - 1
                    /\ ~(ty = r.type /\ o = r.obj /\ w = r.w) => Uses(ty, o, w)' = Uses(ty, o, w)
  <2> SUFFICES ASSUME NEW ty, NEW o, NEW w
               PROVE  /\ ty = r.type /\ o = r.obj /\ w = r.w => Uses(ty, o, w)' = Uses(ty, o, w) - 1
                      /\ ~(ty = r.type /\ o = r.obj /\ w = r.w) => Uses(ty, o, w)' = Uses(ty, o, w)
    BY Zenon
  <2>1. PICK s, e : s = closing[p] /\ e = Copy(ty, o, w) /\ s \in Seq(Closes) /\ s # <<>>
    BY Zenon, <1>0
  <2>2. /\ Head(s) = e => Changes(Spots(s, e), Spots(Tail(s), e), -1)
        /\ Head(s) # e => Spots(Tail(s), e) = Spots(s, e)
    BY Zenon, <2>1, TailSpots
  <2>3. ASSUME ty = r.type /\ o = r.obj /\ w = r.w
        PROVE  Uses(ty, o, w)' = Uses(ty, o, w) - 1
    <3>1. Changes(Spots(closing[p], Copy(ty, o, w)), Spots(closing'[p], Copy(ty, o, w)), -1)
      BY Zenon, <2>1, <2>2, <2>3, <1>4, <1>5
    <3>2. Changes(Dropping(ty, o, w), Dropping(ty, o, w)', -1)
      BY Zenon, <3>1, <1>5, DroppingChange
    <3>3. Changes(InUse(ty, o, w), InUse(ty, o, w)', 0)
      BY Zenon, <1>6 DEF Changes
    <3>4. Uses(ty, o, w)' = Uses(ty, o, w) + 0 + (-1)
      BY SMT, <1>0, <3>2, <3>3, UsesChange
    <3>5. Uses(ty, o, w) \in Nat
      BY Zenon, <1>0, UsesFinite
    <3> QED
      BY <3>4, <3>5
  <2>4. ASSUME ~(ty = r.type /\ o = r.obj /\ w = r.w)
        PROVE  Uses(ty, o, w)' = Uses(ty, o, w)
    <3>0. Spots(closing'[p], Copy(ty, o, w)) = Spots(closing[p], Copy(ty, o, w))
      BY Zenon, <2>1, <2>2, <2>4, <1>4, <1>5
    <3>1. Changes(Spots(closing[p], Copy(ty, o, w)), Spots(closing'[p], Copy(ty, o, w)), 0)
      BY Zenon, <3>0 DEF Changes
    <3>2. Changes(Dropping(ty, o, w), Dropping(ty, o, w)', 0)
      BY Zenon, <3>1, <1>5, DroppingChange
    <3>3. Dropping(ty, o, w)' = Dropping(ty, o, w)
      BY <3>2 DEF Changes
    <3> QED
      BY Zenon, <3>3, <1>6, UsesKept
  <2> QED
    BY Zenon, <2>3, <2>4
<1>8. Blank' /\ FtInv'
    BY Zenon, <1>0, DropPreserves DEF Blank
<1>9. CASE r.type = "INODE"
  <2>1. UNCHANGED pipes /\ iref' = [iref EXCEPT ![r.obj] = iref[r.obj] - 1]
    BY Zenon, <1>3, <1>9 DEF fileclose_drop
  <2>2. -1 \in Int /\ iref' = [iref EXCEPT ![r.obj] = iref[r.obj] + (-1)]
    <3>1. iref \in [OpenInodes -> Int]
      BY Zenon DEF ObjInv
    <3>0. -1 \in Int
      OBVIOUS
    <3>2. CASE r.obj \in OpenInodes
      <4>1. PICK n \in Int : n = iref[r.obj]
        BY Zenon, <3>1, <3>2
      <4>2. n - 1 = n + (-1)
        BY Zenon
      <4> QED
        BY Zenon, <2>1, <3>0, <4>1, <4>2
    <3>3. CASE r.obj \notin OpenInodes
      <4>1. \A v : [iref EXCEPT ![r.obj] = v] = iref
        BY Zenon, <3>1, <3>3
      <4> QED
        BY Zenon, <3>0, <4>1, <2>1
    <3> QED
      BY Zenon, <3>2, <3>3
  <2>3. OneUse("INODE", r.obj, r.w, -1)
    <3>1. ASSUME NEW ty \in Objects, NEW o, NEW w, ty = "INODE" /\ o = r.obj /\ w = r.w
          PROVE  Uses(ty, o, w)' = Uses(ty, o, w) + (-1)
      <4>1. Uses(ty, o, w)' = Uses(ty, o, w) - 1
        BY Zenon, <1>7, <1>9, <3>1
      <4>2. Uses(ty, o, w) \in Nat
        BY Zenon, <1>0, UsesFinite
      <4> QED
        BY <4>1, <4>2
    <3>2. ASSUME NEW ty \in Objects, NEW o, NEW w, ~(ty = "INODE" /\ o = r.obj /\ w = r.w)
          PROVE  Uses(ty, o, w)' = Uses(ty, o, w)
      BY Zenon, <1>7, <1>9, <3>2
    <3> QED
      BY Zenon, <3>1, <3>2 DEF OneUse
  <2> QED
    BY Zenon, <1>3, <1>8, <2>1, <2>2, <2>3, InodeUse
<1>10. CASE r.type = "NONE"
  <2>1. UNCHANGED <<iref, pipes>>
    BY Zenon, <1>3, <1>10 DEF fileclose_drop
  <2>2. SameUses
    BY Zenon, <1>7, <1>10 DEF SameUses, Objects
  <2> QED
    BY Zenon, <1>8, <2>1, <2>2, ObjectsKept
<1>11. CASE r.type = "PIPE"
  <2>0. /\ pipes \in [PipePages -> Ends]
        /\ \A q \in PipePages : pipes[q].readopen = Uses("PIPE", q, 0) /\ pipes[q].writeopen = Uses("PIPE", q, 1)
    BY Zenon DEF ObjInv, ObjectsClosedOnce
  <2>1. UNCHANGED iref
    BY Zenon, <1>3, <1>11 DEF fileclose_drop
  <2>2. \A j : Uses("INODE", j, 0)' = Uses("INODE", j, 0) /\ Uses("INODE", j, 1)' = Uses("INODE", j, 1)
    BY Zenon, <1>7, <1>11
  <2>3. \A j \in OpenInodes : iref'[j] = Uses("INODE", j, 0)' + Uses("INODE", j, 1)'
    BY Zenon, <2>1, <2>2 DEF ObjInv, ObjectsClosedOnce
  <2>4. \A q \in PipePages, w \in 0 .. 1 :
           /\ ~(q = r.obj /\ w = r.w) => Uses("PIPE", q, w)' = Uses("PIPE", q, w)
           /\ q = r.obj /\ w = r.w => Uses("PIPE", q, w)' = Uses("PIPE", q, w) - 1
    BY Zenon, <1>7, <1>11
  <2>5. FtInv'
    BY Zenon, <1>8
  <2>6. UsesNat'
    BY <2>5, UsesTyped, PTL
  <2>7. \A q \in PipePages : \A w : Uses("PIPE", q, w) \in Nat /\ Uses("PIPE", q, w)' \in Nat
    BY Zenon, <2>6, <1>0, UsesFinite DEF UsesNat
  <2>8. CASE r.w = 0
    <3>1. pipes' = [pipes EXCEPT ![r.obj].readopen = 0]
      <4>1. r.w # 1
        BY <2>8
      <4> QED
        BY Zenon, <1>3, <1>11, <4>1 DEF fileclose_drop
    <3>2. \A q \in PipePages : /\ q = r.obj => Uses("PIPE", q, 0)' = Uses("PIPE", q, 0) - 1
                               /\ q # r.obj => Uses("PIPE", q, 0)' = Uses("PIPE", q, 0)
                               /\ Uses("PIPE", q, 1)' = Uses("PIPE", q, 1)
      BY <2>4, <2>8
    <3>3. \A q \in PipePages : q = r.obj => Uses("PIPE", q, 0)' = 0
      <4>1. \A q \in PipePages : Uses("PIPE", q, 0) \in 0 .. 1
        BY Zenon, <2>0 DEF Ends
      <4> QED
        BY <4>1, <3>2, <2>7
    <3>4. /\ pipes' \in [PipePages -> Ends]
          /\ \A q \in PipePages : /\ q = r.obj => pipes'[q].readopen = 0
                                  /\ q # r.obj => pipes'[q].readopen = pipes[q].readopen
                                  /\ pipes'[q].writeopen = pipes[q].writeopen
      <4>1. PICK f, g : f = pipes /\ g = pipes' /\ f \in [PipePages -> Ends] /\ ShutsRead(f, g, r.obj)
        BY Zenon, <2>0, <3>1 DEF ShutsRead
      <4>2. /\ g \in [PipePages -> Ends]
            /\ \A q \in PipePages : /\ q = r.obj => g[q].readopen = 0
                                    /\ q # r.obj => g[q].readopen = f[q].readopen
                                    /\ g[q].writeopen = f[q].writeopen
        BY SMT, <4>1, ReadEndShut
      <4> QED
        BY Zenon, <4>1, <4>2
    <3>5. \A q \in PipePages : pipes'[q].readopen = Uses("PIPE", q, 0)' /\ pipes'[q].writeopen = Uses("PIPE", q, 1)'
      BY Zenon, <2>0, <3>2, <3>3, <3>4
    <3>6. ObjectsClosedOnce'
      BY Zenon, <2>3, <3>5 DEF ObjectsClosedOnce
    <3> QED
      BY Zenon, <1>8, <2>1, <3>4, <3>6 DEF ObjInv
  <2>9. CASE r.w = 1
    <3>1. pipes' = [pipes EXCEPT ![r.obj].writeopen = 0]
      BY Zenon, <1>3, <1>11, <2>9 DEF fileclose_drop
    <3>2. \A q \in PipePages : /\ q = r.obj => Uses("PIPE", q, 1)' = Uses("PIPE", q, 1) - 1
                               /\ q # r.obj => Uses("PIPE", q, 1)' = Uses("PIPE", q, 1)
                               /\ Uses("PIPE", q, 0)' = Uses("PIPE", q, 0)
      BY <2>4, <2>9
    <3>3. \A q \in PipePages : q = r.obj => Uses("PIPE", q, 1)' = 0
      <4>1. \A q \in PipePages : Uses("PIPE", q, 1) \in 0 .. 1
        BY Zenon, <2>0 DEF Ends
      <4> QED
        BY <4>1, <3>2, <2>7
    <3>4. /\ pipes' \in [PipePages -> Ends]
          /\ \A q \in PipePages : /\ q = r.obj => pipes'[q].writeopen = 0
                                  /\ q # r.obj => pipes'[q].writeopen = pipes[q].writeopen
                                  /\ pipes'[q].readopen = pipes[q].readopen
      <4>1. PICK f, g : f = pipes /\ g = pipes' /\ f \in [PipePages -> Ends] /\ ShutsWrite(f, g, r.obj)
        BY Zenon, <2>0, <3>1 DEF ShutsWrite
      <4>2. /\ g \in [PipePages -> Ends]
            /\ \A q \in PipePages : /\ q = r.obj => g[q].writeopen = 0
                                    /\ q # r.obj => g[q].writeopen = f[q].writeopen
                                    /\ g[q].readopen = f[q].readopen
        BY SMT, <4>1, WriteEndShut
      <4> QED
        BY Zenon, <4>1, <4>2
    <3>5. \A q \in PipePages : pipes'[q].readopen = Uses("PIPE", q, 0)' /\ pipes'[q].writeopen = Uses("PIPE", q, 1)'
      BY Zenon, <2>0, <3>2, <3>3, <3>4
    <3>6. ObjectsClosedOnce'
      BY Zenon, <2>3, <3>5 DEF ObjectsClosedOnce
    <3> QED
      BY Zenon, <1>8, <2>1, <3>4, <3>6 DEF ObjInv
  <2>10. r.w = 0 \/ r.w = 1
    BY <1>3
  <2> QED
    BY Zenon, <2>8, <2>9, <2>10
<1> QED
    BY Zenon, <1>2, <1>9, <1>10, <1>11 DEF DropRec, FileRec

\* A new pipe: both ends are shut, and get one file each.
LEMMA PipeallocObjects ==
    ASSUME ObjInv, NEW p \in FProcs, NEW q \in PipePages, pipealloc(p, q)
    PROVE  ObjInv'
<1>0. /\ FtInv /\ FtTypeOK /\ CallsInv /\ Blank /\ UNCHANGED iref /\ pipes \in [PipePages -> Ends]
      /\ pipes[q] = [readopen |-> 0, writeopen |-> 0] /\ half[p] # 0
      /\ pipes' = [pipes EXCEPT ![q] = [readopen |-> 1, writeopen |-> 1]]
      /\ half \in [FProcs -> 0 .. NFILE] /\ half' = [half EXCEPT ![p] = 0]
      /\ closing \in [FProcs -> Seq(Closes)]
    BY Zenon DEF ObjInv, FtInv, FtTypeOK, pipealloc
<1>1. PICK f0, f1 : /\ f0 = half[p] /\ f1 \in File /\ ftable[f1].ref = 0
                    /\ ftable' = [ftable EXCEPT ![f0] = PipeEnd(q, 0), ![f1] = PipeEnd(q, 1)]
                    /\ \/ UNCHANGED closing
                       \/ closing' = [closing EXCEPT ![p] = PipeUndo(f0, f1)]
    BY Zenon DEF pipealloc, Lowest, FreeFiles
<1>2. f0 \in File /\ ftable[f0].ref = 1 /\ ftable[f0].type = "NONE" /\ closing[p] = <<>>
    BY Zenon, <1>0, <1>1, HalfAlone DEF Blank, CallsInv
<1>3. f0 # f1
    BY <1>1, <1>2
<1>4. /\ ftable'[f0] = PipeEnd(q, 0) /\ ftable'[f1] = PipeEnd(q, 1)
      /\ \A g \in File \ {f0, f1} : ftable'[g] = ftable[g]
    BY Zenon, <1>0, <1>1, <1>2, <1>3 DEF FtTypeOK
<1>5. \A v : PipeEnd(q, v).ref = 1 /\ PipeEnd(q, v).type = "PIPE" /\ PipeEnd(q, v).obj = q /\ PipeEnd(q, v).w = v
    BY Zenon DEF PipeEnd
<1>6. 1 > 0 /\ ~(0 > 0) /\ 1 # 0
    OBVIOUS
<1>7. \A ty, o, w : Dropping(ty, o, w)' = Dropping(ty, o, w)
  <2>1. CASE UNCHANGED closing
    BY Zenon, <2>1, DroppingIs
  <2>2. CASE closing' = [closing EXCEPT ![p] = PipeUndo(f0, f1)]
    <3>1. closing'[p] = << <<"close", f0>>, <<"close", f1>> >> /\ \A c \in FProcs \ {p} : closing'[c] = closing[c]
      BY Zenon, <1>0, <2>2 DEF PipeUndo
    <3> QED
      BY Zenon, <1>2, <3>1, NoDrop
  <2> QED
    BY Zenon, <1>1, <2>1, <2>2
<1>8. \A ty \in Objects : \A o, w :
         /\ ty = "PIPE" /\ o = q /\ w = 0 => InUse(ty, o, w)' = InUse(ty, o, w) \cup {f0}
         /\ ty = "PIPE" /\ o = q /\ w = 1 => InUse(ty, o, w)' = InUse(ty, o, w) \cup {f1}
         /\ ~(ty = "PIPE" /\ o = q /\ w \in {0, 1}) => InUse(ty, o, w)' = InUse(ty, o, w)
         /\ f0 \notin InUse(ty, o, w) /\ f1 \notin InUse(ty, o, w)
  <2> SUFFICES ASSUME NEW ty \in Objects, NEW o, NEW w
               PROVE  /\ ty = "PIPE" /\ o = q /\ w = 0 => InUse(ty, o, w)' = InUse(ty, o, w) \cup {f0}
                      /\ ty = "PIPE" /\ o = q /\ w = 1 => InUse(ty, o, w)' = InUse(ty, o, w) \cup {f1}
                      /\ ~(ty = "PIPE" /\ o = q /\ w \in {0, 1}) => InUse(ty, o, w)' = InUse(ty, o, w)
                      /\ f0 \notin InUse(ty, o, w) /\ f1 \notin InUse(ty, o, w)
    BY Zenon
  <2>1. ty # "NONE"
    BY Zenon DEF Objects
  <2>2. f0 \notin InUse(ty, o, w) /\ f1 \notin InUse(ty, o, w)
    BY Zenon, <1>1, <1>2, <1>6, <2>1 DEF InUse, Counted
  <2>3. InUse(ty, o, w)' = {g \in File : Counted(ftable'[g], ty, o, w)}
    BY Zenon DEF InUse, Counted
  <2>4. /\ f0 \in InUse(ty, o, w)' <=> ty = "PIPE" /\ o = q /\ w = 0
        /\ f1 \in InUse(ty, o, w)' <=> ty = "PIPE" /\ o = q /\ w = 1
    <3>1. /\ f0 \in InUse(ty, o, w)' <=> Counted(PipeEnd(q, 0), ty, o, w)
          /\ f1 \in InUse(ty, o, w)' <=> Counted(PipeEnd(q, 1), ty, o, w)
      BY Zenon, <1>1, <1>2, <1>4, <2>3
    <3> QED
      BY <1>5, <3>1 DEF Counted
  <2>5. \A g \in File \ {f0, f1} : g \in InUse(ty, o, w)' <=> g \in InUse(ty, o, w)
    BY Zenon, <1>4, <2>3 DEF InUse
  <2>6. InUse(ty, o, w) \subseteq File /\ InUse(ty, o, w)' \subseteq File
    BY Zenon, <2>3 DEF InUse
  <2>7. ty = "PIPE" /\ o = q /\ w = 0 => InUse(ty, o, w)' = InUse(ty, o, w) \cup {f0}
    BY Zenon, <2>2, <2>4, <2>5, <2>6, <1>2, <1>6
  <2>8. ty = "PIPE" /\ o = q /\ w = 1 => InUse(ty, o, w)' = InUse(ty, o, w) \cup {f1}
    BY Zenon, <2>2, <2>4, <2>5, <2>6, <1>1, <1>6
  <2>9. ~(ty = "PIPE" /\ o = q /\ w \in {0, 1}) => InUse(ty, o, w)' = InUse(ty, o, w)
    BY <2>2, <2>4, <2>5, <2>6
  <2> QED
    BY Zenon, <2>2, <2>7, <2>8, <2>9
<1>9. \A ty \in Objects : \A o, w :
         /\ ty = "PIPE" /\ o = q /\ w \in {0, 1} => Uses(ty, o, w)' = Uses(ty, o, w) + 1
         /\ ~(ty = "PIPE" /\ o = q /\ w \in {0, 1}) => Uses(ty, o, w)' = Uses(ty, o, w)
  <2> SUFFICES ASSUME NEW ty \in Objects, NEW o, NEW w
               PROVE  /\ ty = "PIPE" /\ o = q /\ w \in {0, 1} => Uses(ty, o, w)' = Uses(ty, o, w) + 1
                      /\ ~(ty = "PIPE" /\ o = q /\ w \in {0, 1}) => Uses(ty, o, w)' = Uses(ty, o, w)
    BY Zenon
  <2>1. ASSUME ty = "PIPE" /\ o = q /\ w \in {0, 1}
        PROVE  Uses(ty, o, w)' = Uses(ty, o, w) + 1
    <3>0. \E f : f \notin InUse(ty, o, w) /\ InUse(ty, o, w)' = InUse(ty, o, w) \cup {f}
      BY <1>8, <2>1
    <3>1. Changes(InUse(ty, o, w), InUse(ty, o, w)', 1)
      BY Zenon, <3>0 DEF Changes, Grows
    <3>2. Changes(Dropping(ty, o, w), Dropping(ty, o, w)', 0)
      BY Zenon, <1>7 DEF Changes
    <3>3. Uses(ty, o, w)' = Uses(ty, o, w) + 1 + 0
      BY SMT, <1>0, <3>1, <3>2, UsesChange
    <3>4. Uses(ty, o, w) \in Nat
      BY Zenon, <1>0, UsesFinite
    <3> QED
      BY <3>3, <3>4
  <2>2. ASSUME ~(ty = "PIPE" /\ o = q /\ w \in {0, 1})
        PROVE  Uses(ty, o, w)' = Uses(ty, o, w)
    BY Zenon, <1>7, <1>8, <2>2, UsesKept
  <2> QED
    BY Zenon, <2>1, <2>2
<1>10. ObjectsClosedOnce' /\ pipes' \in [PipePages -> Ends]
  <2>0. "INODE" \in Objects /\ "PIPE" \in Objects /\ "INODE" # "PIPE"
    BY Zenon DEF Objects
  <2>1. \A i \in OpenInodes : iref'[i] = Uses("INODE", i, 0)' + Uses("INODE", i, 1)'
    BY Zenon, <1>0, <1>9, <2>0 DEF ObjInv, ObjectsClosedOnce
  <2>2. Uses("PIPE", q, 0) = 0 /\ Uses("PIPE", q, 1) = 0
    <3>1. pipes[q].readopen = 0 /\ pipes[q].writeopen = 0
      BY <1>0
    <3> QED
      BY Zenon, <3>1 DEF ObjInv, ObjectsClosedOnce
  <2>3. Uses("PIPE", q, 0)' = 1 /\ Uses("PIPE", q, 1)' = 1
    <3>1. Uses("PIPE", q, 0)' = Uses("PIPE", q, 0) + 1 /\ Uses("PIPE", q, 1)' = Uses("PIPE", q, 1) + 1
      BY Zenon, <1>9, <2>0
    <3> QED
      BY <2>2, <3>1
  <2>4. PICK e : e = [readopen |-> 1, writeopen |-> 1]
    BY Zenon
  <2>5. e \in Ends /\ e.readopen = 1 /\ e.writeopen = 1
    BY <2>4 DEF Ends
  <2>6. pipes' \in [PipePages -> Ends] /\ pipes'[q] = e /\ \A c \in PipePages \ {q} : pipes'[c] = pipes[c]
    BY Zenon, <1>0, <2>4, <2>5
  <2>7. \A c \in PipePages \ {q} : /\ pipes[c].readopen = Uses("PIPE", c, 0)' /\ pipes[c].writeopen = Uses("PIPE", c, 1)'
    <3> SUFFICES ASSUME NEW c \in PipePages, c # q
                 PROVE  pipes[c].readopen = Uses("PIPE", c, 0)' /\ pipes[c].writeopen = Uses("PIPE", c, 1)'
      BY Zenon
    <3>1. Uses("PIPE", c, 0)' = Uses("PIPE", c, 0) /\ Uses("PIPE", c, 1)' = Uses("PIPE", c, 1)
      BY Zenon, <1>9, <2>0
    <3> QED
      BY Zenon, <3>1 DEF ObjInv, ObjectsClosedOnce
  <2>8. \A c \in PipePages : /\ pipes'[c].readopen = Uses("PIPE", c, 0)'
                             /\ pipes'[c].writeopen = Uses("PIPE", c, 1)'
    BY Zenon, <2>3, <2>5, <2>6, <2>7
  <2> QED
    BY Zenon, <2>1, <2>6, <2>8 DEF ObjectsClosedOnce
<1>11. Blank'
  <2>1. \A g \in File : ftable'[g].ref = 0 => ftable'[g].type = "NONE"
    <3>1. ftable'[f0].ref # 0 /\ ftable'[f1].ref # 0
      BY <1>4, <1>5
    <3> QED
      BY Zenon, <3>1, <1>0, <1>4 DEF Blank
  <2>2. \A c \in FProcs : half'[c] # 0 => c # p /\ half'[c] = half[c]
    BY Zenon, <1>0
  <2>3. \A c \in FProcs \ {p} : half[c] # 0 => half[c] \in File /\ half[c] # f0 /\ half[c] # f1
    BY Zenon, <1>0, <1>1, <1>2, <1>6, HalfAlone DEF InFlight
  <2>4. \A c \in FProcs : half'[c] # 0 => ftable'[half'[c]].type = "NONE"
    BY Zenon, <2>2, <2>3, <1>0, <1>4 DEF Blank
  <2> QED
    BY Zenon, <2>1, <2>4 DEF Blank
<1>12. FtInv'
    BY Zenon, <1>0, PipeallocPreserves
<1> QED
    BY Zenon, <1>0, <1>10, <1>11, <1>12 DEF ObjInv

-----------------------------------------------------------------------------
LEMMA ObjInitInv == FtInit => ObjInv
<1> SUFFICES ASSUME FtInit
             PROVE  ObjInv
    BY Zenon
<1>1. FtInv
    BY Zenon, FtInitInv
<1>2. iref \in [OpenInodes -> Int] /\ pipes \in [PipePages -> Ends]
    BY DEF FtInit, Ends
<1>3. \A g \in File : ftable[g].ref = 0 /\ ftable[g].type = "NONE"
    BY Zenon DEF FtInit, NoFile
<1>4. Blank
    BY Zenon, <1>3 DEF Blank, FtInit
<1>5. \A ty, o, w : Uses(ty, o, w) = 0
  <2> SUFFICES ASSUME NEW ty, NEW o, NEW w
               PROVE  Uses(ty, o, w) = 0
    BY Zenon
  <2>1. InUse(ty, o, w) = {}
    BY <1>3 DEF InUse, Counted
  <2>2. Dropping(ty, o, w) = {}
    <3>1. \A c \in FProcs : \A e : Spots(closing[c], e) = {}
      BY Zenon, NoSpots DEF FtInit
    <3> QED
      BY <3>1, EntryMember, DroppingIs
  <2>3. Cardinality({}) = 0
    BY Zenon, FS_EmptySet
  <2>4. Uses(ty, o, w) = 0 + 0
    BY Zenon, <2>1, <2>2, <2>3, UsesAre
  <2> QED
    BY <2>4
<1>6. ObjectsClosedOnce
  <2>1. \A i \in OpenInodes : iref[i] = 0
    BY Zenon DEF FtInit
  <2>2. \A c \in PipePages : pipes[c].readopen = 0 /\ pipes[c].writeopen = 0
    BY Zenon DEF FtInit
  <2>3. \A i \in OpenInodes : iref[i] = Uses("INODE", i, 0) + Uses("INODE", i, 1)
    BY <2>1, <1>5
  <2> QED
    BY Zenon, <2>2, <2>3, <1>5 DEF ObjectsClosedOnce
<1> QED
    BY Zenon, <1>1, <1>2, <1>4, <1>6 DEF ObjInv

LEMMA ObjNextInv == ObjInv /\ [FtNext]_ftVars => ObjInv'
<1> SUFFICES ASSUME ObjInv, [FtNext]_ftVars
             PROVE  ObjInv'
    BY Zenon
<1>1. CASE UNCHANGED ftVars
  <2>1. UNCHANGED <<ftable, half, closing, iref, pipes>>
    BY Zenon, <1>1 DEF ftVars
  <2>2. \A ty, o, w : Dropping(ty, o, w)' = Dropping(ty, o, w)
    BY Zenon, <2>1, DroppingIs
  <2>3. FtInv'
    BY Zenon, FtNextInv DEF ObjInv
  <2> QED
    BY Zenon, <2>1, <2>2, <2>3, TableKept
<1>2. CASE FtNext
  <2>1. PICK p \in FProcs :
            \/ \E i \in OpenInodes : sys_open(p, i) \/ sys_open_full(p, i)
            \/ \E d \in Fd : sys_dup(p, d) \/ sys_close(p, d)
            \/ fileclose(p) \/ fileclose_drop(p)
            \/ sys_pipe(p) \/ pipealloc_bad(p) \/ \E q \in PipePages : pipealloc(p, q)
            \/ \E c \in FProcs : fork(p, c)
            \/ exit(p) \/ exit_close(p)
    BY Zenon, <1>2 DEF FtNext
  <2> QED
    BY Zenon, <2>1, OpenObjects, OpenFullObjects, DupObjects, CloseObjects, FilecloseObjects,
       DropObjects, PipeObjects, PipeBadObjects, PipeallocObjects, ForkObjects,
       ExitObjects, ExitCloseObjects
<1> QED
    BY Zenon, <1>1, <1>2

(* Every inode reference and every pipe end that open files hold is given  *)
(* back exactly once, on every path of open(), pipe(), dup(), fork() and   *)
(* exit(), although fileclose() frees the table entry before it drops the  *)
(* object and other processes reuse the entry in between (file.c).         *)
THEOREM ObjectsOnce == FtSpec => []ObjectsClosedOnce
<1>1. ObjInv => ObjectsClosedOnce
    BY Zenon DEF ObjInv
<1> QED
    BY <1>1, ObjInitInv, ObjNextInv, PTL DEF FtSpec

=============================================================================
