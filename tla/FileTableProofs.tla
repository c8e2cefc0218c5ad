--------------------------- MODULE FileTableProofs ---------------------------
(***************************************************************************)
(* The reference counts of open files are exact, for any number of         *)
(* processes, files, descriptors, inodes and pipes.                        *)
(*                                                                         *)
(* FileRefsExact is not inductive: pipealloc() gives the file it got first *)
(* a count of one, which is right only because nobody else can have come   *)
(* to it; fork() fills the table of a slot without looking at what is in   *)
(* it; and sys_pipe() and exit() start a list of closes where there must   *)
(* be none.                                                                *)
(***************************************************************************)
EXTENDS FileTable, FiniteSetTheorems, TLAPS

FileRec == [ref : Nat, type : {"NONE", "INODE", "PIPE"}, obj : OpenInodes \cup PipePages \cup {0}, w : 0 .. 1]
DropRec == {r \in FileRec : r.ref = 0}
Closes == ({"close"} \X File) \cup ({"drop"} \X DropRec)

FtTypeOK ==
    /\ ftable \in [File -> FileRec]
    /\ ofile \in [FProcs -> [Fd -> 0 .. NFILE]]
    /\ fstate \in [FProcs -> {"unused", "running", "exiting"}]
    /\ half \in [FProcs -> 0 .. NFILE]
    /\ closing \in [FProcs -> Seq(Closes)]

CallsInv ==
    \A p \in FProcs :
       /\ Len(closing[p]) <= 2
       /\ half[p] # 0 => ftable[half[p]].ref = 1 /\ closing[p] = <<>> /\ fstate[p] = "running"
       /\ fstate[p] = "unused" => \A d \in Fd : ofile[p][d] = 0

FtInv == FtTypeOK /\ CallsInv /\ FileRefsExact

-----------------------------------------------------------------------------
(* The lists of closes.                                                    *)
PlacesOf(c, f, p) == {k \in 0 .. Len(c[p]) - 1 : c[p][Len(c[p]) - k] = <<"close", f>>}
ClosingOf(c, f) == UNION {{p} \X PlacesOf(c, f, p) : p \in FProcs}

LEMMA ClosingIs == \A f : Closing(f) = ClosingOf(closing, f) /\ Closing(f)' = ClosingOf(closing', f)
    BY Zenon DEF Closing, ClosingOf, PlacesOf, Places, ToDo

LEMMA ClosingMember ==
    ASSUME NEW c, NEW f
    PROVE  /\ \A x \in ClosingOf(c, f) : \E q, k : x = <<q, k>>
           /\ \A q, k : <<q, k>> \in ClosingOf(c, f) <=> q \in FProcs /\ k \in PlacesOf(c, f, q)
    BY DEF ClosingOf

LEMMA PopHead ==
    ASSUME NEW c \in [FProcs -> Seq(Closes)], NEW p \in FProcs, c[p] # <<>>, NEW f
    PROVE  /\ ClosingOf([c EXCEPT ![p] = Tail(@)], f) = ClosingOf(c, f) \ {<<p, Len(c[p]) - 1>>}
           /\ <<p, Len(c[p]) - 1>> \in ClosingOf(c, f) <=> Head(c[p]) = <<"close", f>>
<1> DEFINE d == [c EXCEPT ![p] = Tail(@)]
           n == Len(c[p])
<1>1. n \in Nat \ {0} /\ d[p] = Tail(c[p]) /\ Len(d[p]) = n - 1 /\ Head(c[p]) = c[p][1]
    OBVIOUS
<1>2. \A k \in 0 .. n - 2 : d[p][n - 1 - k] = c[p][n - k]
    BY <1>1
<1>3. \A q \in FProcs \ {p} : d[q] = c[q]
    BY Zenon
<1> HIDE DEF d, n
<1>4. \A q, k : <<q, k>> \in ClosingOf(d, f) <=> <<q, k>> \in ClosingOf(c, f) /\ <<q, k>> # <<p, n - 1>>
  <2> SUFFICES ASSUME NEW q, NEW k
               PROVE  <<q, k>> \in ClosingOf(d, f) <=> <<q, k>> \in ClosingOf(c, f) /\ <<q, k>> # <<p, n - 1>>
    BY Zenon
  <2>1. CASE q # p
    BY <2>1, <1>3, ClosingMember DEF PlacesOf
  <2>2. CASE q = p
    <3>1. k \in 0 .. Len(d[p]) - 1 <=> k \in 0 .. n - 1 /\ k # n - 1
      BY <1>1
    <3>2. k \in 0 .. n - 2 => d[p][Len(d[p]) - k] = c[p][n - k]
      BY Zenon, <1>1, <1>2
    <3>3. n = Len(c[p])
      BY Zenon DEF n
    <3>4. k \in PlacesOf(d, f, p) <=> k \in PlacesOf(c, f, p) /\ k # n - 1
      BY <3>1, <3>2, <3>3, <1>1 DEF PlacesOf
    <3> QED
      BY Zenon, <3>4, <2>2, ClosingMember
  <2> QED
    BY Zenon, <2>1, <2>2
<1>5. \A x \in ClosingOf(c, f) \cup ClosingOf(d, f) : \E q, k : x = <<q, k>>
    BY ClosingMember
<1>6. ClosingOf(d, f) = ClosingOf(c, f) \ {<<p, n - 1>>}
    BY <1>4, <1>5
<1>7. <<p, n - 1>> \in ClosingOf(c, f) <=> Head(c[p]) = <<"close", f>>
  <2>1. n - (n - 1) = 1 /\ n - 1 \in 0 .. n - 1
    BY <1>1
  <2> QED
    BY <2>1, <1>1, ClosingMember DEF n, PlacesOf
<1> QED
    BY Zenon, <1>6, <1>7 DEF d, n

LEMMA SwapHead ==
    ASSUME NEW c \in [FProcs -> Seq(Closes)], NEW p \in FProcs, c[p] # <<>>, NEW f,
           NEW r \in DropRec
    PROVE  ClosingOf([c EXCEPT ![p] = << <<"drop", r>> >> \o Tail(@)], f)
              = ClosingOf(c, f) \ {<<p, Len(c[p]) - 1>>}
<1> DEFINE s == << <<"drop", r>> >> \o Tail(c[p])
           d == [c EXCEPT ![p] = s]
           n == Len(c[p])
<1>1. n \in Nat \ {0} /\ Tail(c[p]) \in Seq(Closes) /\ Len(Tail(c[p])) = n - 1
    OBVIOUS
<1>2. << <<"drop", r>> >> \in Seq(Closes) /\ Len(<< <<"drop", r>> >>) = 1
    BY DEF Closes
<1>3. Len(s) = n /\ s[1] = <<"drop", r>> /\ \A j \in 2 .. n : s[j] = c[p][j]
    BY <1>1, <1>2
<1>4. d[p] = s /\ \A q \in FProcs \ {p} : d[q] = c[q]
    BY Zenon
<1>5. n = Len(c[p])
    BY Zenon
<1> HIDE DEF s, d, n
<1>6. \A q, k : <<q, k>> \in ClosingOf(d, f) <=> <<q, k>> \in ClosingOf(c, f) /\ <<q, k>> # <<p, n - 1>>
  <2> SUFFICES ASSUME NEW q, NEW k
               PROVE  <<q, k>> \in ClosingOf(d, f) <=> <<q, k>> \in ClosingOf(c, f) /\ <<q, k>> # <<p, n - 1>>
    BY Zenon
  <2>1. CASE q # p
    BY <2>1, <1>4, ClosingMember DEF PlacesOf
  <2>2. CASE q = p
    <3>1. k \in 0 .. n - 2 => n - k \in 2 .. n /\ s[n - k] = c[p][n - k]
      BY <1>1, <1>3
    <3>2. k = n - 1 => s[n - k] # <<"close", f>>
      BY <1>1, <1>3
    <3>3. k \in PlacesOf(d, f, p) <=> k \in PlacesOf(c, f, p) /\ k # n - 1
      BY <3>1, <3>2, <1>1, <1>3, <1>4, <1>5 DEF PlacesOf
    <3> QED
      BY Zenon, <3>3, <2>2, ClosingMember
  <2> QED
    BY Zenon, <2>1, <2>2
<1>7. \A x \in ClosingOf(c, f) \cup ClosingOf(d, f) : \E q, k : x = <<q, k>>
    BY ClosingMember
<1>8. ClosingOf(d, f) = ClosingOf(c, f) \ {<<p, n - 1>>}
    BY <1>6, <1>7
<1> QED
    BY Zenon, <1>8 DEF d, n, s

\* A process starts a list of one or two closes.
Starts(c, d, p) == p \in FProcs /\ c[p] = <<>> /\ \A q \in FProcs \ {p} : d[q] = c[q]

StartsOne(c, d, p, g) == Starts(c, d, p) /\ d[p] = << <<"close", g>> >>
StartsTwo(c, d, p, g, e) == Starts(c, d, p) /\ d[p] = << <<"close", g>>, e>> /\ e # <<"close", g>>

LEMMA StartList ==
    ASSUME NEW c, NEW d, NEW p, Starts(c, d, p), NEW f
    PROVE  /\ ClosingOf(d, f) = ClosingOf(c, f) \cup {<<p, k>> : k \in PlacesOf(d, f, p)}
           /\ \A k : <<p, k>> \notin ClosingOf(c, f)
<1>1. PlacesOf(c, f, p) = {} /\ p \in FProcs
    BY DEF PlacesOf, Starts
<1>2. \A q \in FProcs \ {p} : PlacesOf(d, f, q) = PlacesOf(c, f, q)
    BY Zenon DEF PlacesOf, Starts
<1>3. \A q, k : <<q, k>> \in ClosingOf(d, f) <=>
                  <<q, k>> \in ClosingOf(c, f) \/ (q = p /\ k \in PlacesOf(d, f, p))
    BY ZenonT(30), <1>1, <1>2, ClosingMember
<1>4. \A x \in ClosingOf(c, f) \cup ClosingOf(d, f) : \E q, k : x = <<q, k>>
    BY ClosingMember
<1>5. \A k : <<p, k>> \notin ClosingOf(c, f)
    BY Zenon, <1>1, ClosingMember
<1>6. ClosingOf(d, f) = ClosingOf(c, f) \cup {<<p, k>> : k \in PlacesOf(d, f, p)}
    BY <1>3, <1>4
<1> QED
    BY Zenon, <1>5, <1>6

LEMMA StartOne ==
    ASSUME NEW c, NEW d, NEW p, NEW f, NEW g, StartsOne(c, d, p, g)
    PROVE  /\ f = g => ClosingOf(d, f) = ClosingOf(c, f) \cup {<<p, 0>>}
           /\ f # g => ClosingOf(d, f) = ClosingOf(c, f)
           /\ <<p, 0>> \notin ClosingOf(c, f)
<1>2. PlacesOf(d, f, p) = {k \in {0} : f = g}
    BY DEF PlacesOf, StartsOne
<1>3. /\ ClosingOf(d, f) = ClosingOf(c, f) \cup {<<p, k>> : k \in PlacesOf(d, f, p)}
      /\ <<p, 0>> \notin ClosingOf(c, f)
    BY StartList DEF StartsOne
<1> QED
    BY Zenon, <1>2, <1>3

LEMMA StartTwo ==
    ASSUME NEW c, NEW d, NEW p, NEW f, NEW g, NEW e, StartsTwo(c, d, p, g, e)
    PROVE  /\ f = g => ClosingOf(d, f) = ClosingOf(c, f) \cup {<<p, 1>>}
           /\ f # g /\ e = <<"close", f>> => ClosingOf(d, f) = ClosingOf(c, f) \cup {<<p, 0>>}
           /\ f # g /\ e # <<"close", f>> => ClosingOf(d, f) = ClosingOf(c, f)
           /\ <<p, 0>> \notin ClosingOf(c, f) /\ <<p, 1>> \notin ClosingOf(c, f)
<1>2. \A k : k \in PlacesOf(d, f, p) <=> (k = 1 /\ f = g) \/ (k = 0 /\ e = <<"close", f>>)
    BY DEF PlacesOf, StartsTwo
<1>3. /\ ClosingOf(d, f) = ClosingOf(c, f) \cup {<<p, k>> : k \in PlacesOf(d, f, p)}
      /\ <<p, 0>> \notin ClosingOf(c, f) /\ <<p, 1>> \notin ClosingOf(c, f)
    BY StartList DEF StartsTwo
<1>4. e # <<"close", g>>
    BY Zenon DEF StartsTwo
<1>5. CASE f = g
  <2>1. PlacesOf(d, f, p) = {1}
    BY Zenon, <1>2, <1>4, <1>5
  <2> QED
    BY Zenon, <1>3, <1>5, <2>1
<1>6. CASE f # g /\ e = <<"close", f>>
  <2>1. PlacesOf(d, f, p) = {0}
    BY Zenon, <1>2, <1>6
  <2> QED
    BY Zenon, <1>3, <1>6, <2>1
<1>7. CASE f # g /\ e # <<"close", f>>
  <2>1. PlacesOf(d, f, p) = {}
    BY Zenon, <1>2, <1>7
  <2> QED
    BY Zenon, <1>3, <1>7, <2>1
<1> QED
    BY Zenon, <1>5, <1>6, <1>7

-----------------------------------------------------------------------------
(* The three kinds of reference.                                           *)
LEMMA RefsFinite ==
    ASSUME FtTypeOK, CallsInv, NEW f
    PROVE  /\ IsFiniteSet(Holders(f)) /\ IsFiniteSet(InFlight(f)) /\ IsFiniteSet(Closing(f))
           /\ Cardinality(Holders(f)) \in Nat /\ Cardinality(InFlight(f)) \in Nat
           /\ Cardinality(Closing(f)) \in Nat
           /\ Cardinality(Holders(f)) = 0 <=> Holders(f) = {}
           /\ Cardinality(InFlight(f)) = 0 <=> InFlight(f) = {}
           /\ Cardinality(Closing(f)) = 0 <=> Closing(f) = {}
<1>1. IsFiniteSet(FProcs \X Fd) /\ IsFiniteSet(FProcs \X (0 .. 1))
  <2>1. IsFiniteSet(Fd) /\ IsFiniteSet(0 .. 1) /\ IsFiniteSet(FProcs)
    <3>1. NOFILE - 1 \in Int /\ 0 \in Int /\ 1 \in Int
      BY FileTableAssumption
    <3> QED
      BY Zenon, <3>1, FileTableAssumption, FS_Interval DEF Fd
  <2> QED
    BY Zenon, <2>1, FS_Product
<1>2. Closing(f) \subseteq FProcs \X (0 .. 1)
  <2>1. \A q \in FProcs : Len(closing[q]) \in Nat /\ Len(closing[q]) <= 2
    BY DEF FtTypeOK, CallsInv
  <2>2. \A q \in FProcs : PlacesOf(closing, f, q) \subseteq 0 .. 1
    BY <2>1 DEF PlacesOf
  <2> QED
    BY <2>2, ClosingIs, ClosingMember
<1>3. IsFiniteSet(Holders(f)) /\ IsFiniteSet(InFlight(f)) /\ IsFiniteSet(Closing(f))
    BY Zenon, <1>1, <1>2, FS_Subset, FileTableAssumption DEF Holders, InFlight
<1> QED
    BY Zenon, <1>3, FS_CardinalityType, FS_EmptySet

\* A descriptor changes.
SetsFd(p, d, v) == /\ p \in FProcs /\ d \in Fd /\ v \in 0 .. NFILE
                   /\ ofile' = [ofile EXCEPT ![p][d] = v]

LEMMA HoldersStep ==
    ASSUME FtTypeOK, NEW p, NEW d, NEW v, SetsFd(p, d, v), NEW g
    PROVE  /\ ofile' \in [FProcs -> [Fd -> 0 .. NFILE]]
           /\ v = g /\ ofile[p][d] # g => Holders(g)' = Holders(g) \cup {<<p, d>>} /\ <<p, d>> \notin Holders(g)
           /\ v # g /\ ofile[p][d] = g => Holders(g)' = Holders(g) \ {<<p, d>>} /\ <<p, d>> \in Holders(g)
           /\ v # g /\ ofile[p][d] # g => Holders(g)' = Holders(g)
<1>1. [ofile[p] EXCEPT ![d] = v] \in [Fd -> 0 .. NFILE]
    BY Zenon DEF FtTypeOK, SetsFd
<1>2. ofile' \in [FProcs -> [Fd -> 0 .. NFILE]] /\ p \in FProcs /\ d \in Fd
    BY Zenon, <1>1 DEF FtTypeOK, SetsFd
<1>3. \A q \in FProcs : \A e \in Fd : ofile'[q][e] = IF q = p /\ e = d THEN v ELSE ofile[q][e]
    BY Zenon DEF FtTypeOK, SetsFd
<1>4. Holders(g)' = {x \in FProcs \X Fd : IF x = <<p, d>> THEN v = g ELSE ofile[x[1]][x[2]] = g}
    BY <1>3 DEF Holders
<1> QED
    BY <1>2, <1>4 DEF Holders

\* pipealloc()'s first file comes or goes.
LEMMA InFlightStep ==
    ASSUME FtTypeOK, NEW p \in FProcs, NEW v \in 0 .. NFILE, half' = [half EXCEPT ![p] = v], NEW g
    PROVE  /\ half' \in [FProcs -> 0 .. NFILE]
           /\ v = g /\ half[p] # g => InFlight(g)' = InFlight(g) \cup {p} /\ p \notin InFlight(g)
           /\ v # g /\ half[p] = g => InFlight(g)' = InFlight(g) \ {p} /\ p \in InFlight(g)
           /\ v # g /\ half[p] # g => InFlight(g)' = InFlight(g)
    BY Zenon DEF FtTypeOK, InFlight

LEMMA PlusOne ==
    ASSUME NEW S, IsFiniteSet(S), NEW x, x \notin S, NEW T, T = S \cup {x}
    PROVE  Cardinality(T) = Cardinality(S) + 1 /\ IsFiniteSet(T)
    BY Zenon, FS_AddElement

LEMMA MinusOne ==
    ASSUME NEW S, IsFiniteSet(S), NEW x, x \in S, NEW T, T = S \ {x}
    PROVE  Cardinality(T) = Cardinality(S) - 1 /\ IsFiniteSet(T)
    BY Zenon, FS_RemoveElement

\* A file without references is free in every sense.
LEMMA FreeUnused ==
    ASSUME FtInv, NEW f \in File, ftable[f].ref = 0
    PROVE  Holders(f) = {} /\ InFlight(f) = {} /\ Closing(f) = {}
<1>1. 0 = Cardinality(Holders(f)) + Cardinality(InFlight(f)) + Cardinality(Closing(f))
    BY Zenon DEF FtInv, FileRefsExact
<1>2. Cardinality(Holders(f)) = 0 /\ Cardinality(InFlight(f)) = 0 /\ Cardinality(Closing(f)) = 0
    BY <1>1, RefsFinite DEF FtInv
<1> QED
    BY Zenon, <1>2, RefsFinite DEF FtInv

\* Nobody else has the file that pipealloc() got first.
LEMMA HalfAlone ==
    ASSUME FtInv, NEW p \in FProcs, half[p] # 0
    PROVE  /\ half[p] \in File /\ InFlight(half[p]) = {p} /\ ftable[half[p]].ref = 1
           /\ Holders(half[p]) = {} /\ Closing(half[p]) = {}
<1> DEFINE f == half[p]
<1>1. f \in File /\ ftable[f].ref = 1 /\ p \in InFlight(f)
    BY FileTableAssumption DEF FtInv, FtTypeOK, CallsInv, File, InFlight
<1>2. 1 = Cardinality(Holders(f)) + Cardinality(InFlight(f)) + Cardinality(Closing(f))
    BY Zenon, <1>1 DEF FtInv, FileRefsExact
<1> HIDE DEF f
<1>3. /\ Cardinality(InFlight(f)) = 1 /\ Cardinality(Holders(f)) = 0 /\ Cardinality(Closing(f)) = 0
      /\ IsFiniteSet(InFlight(f)) /\ Holders(f) = {} /\ Closing(f) = {}
    BY <1>1, <1>2, RefsFinite DEF FtInv
<1>4. Cardinality(InFlight(f) \ {p}) = 0 /\ IsFiniteSet(InFlight(f) \ {p})
    BY <1>1, <1>3, FS_RemoveElement
<1>5. InFlight(f) \ {p} = {}
    BY Zenon, <1>4, FS_EmptySet
<1> QED
    BY Zenon, <1>1, <1>3, <1>5 DEF f

LEMMA TableStep ==
    ASSUME FtTypeOK, NEW f \in File, NEW r \in FileRec, ftable' = [ftable EXCEPT ![f] = r]
    PROVE  /\ ftable' \in [File -> FileRec]
           /\ \A g \in File : ftable'[g] = IF g = f THEN r ELSE ftable[g]
    BY Zenon DEF FtTypeOK

LEMMA RefTyped ==
    ASSUME NEW r \in FileRec
    PROVE  \A n \in Nat : [r EXCEPT !.ref = n] \in FileRec /\ [r EXCEPT !.ref = n].ref = n
    BY Zenon DEF FileRec

LEMMA RefStep ==
    ASSUME FtTypeOK, NEW f \in File, NEW n \in Nat,
           ftable' = [ftable EXCEPT ![f] = [ftable[f] EXCEPT !.ref = n]]
    PROVE  /\ ftable' \in [File -> FileRec] /\ ftable'[f].ref = n
           /\ \A g \in File \ {f} : ftable'[g] = ftable[g]
<1>1. ftable[f] \in FileRec
    BY Zenon DEF FtTypeOK
<1> DEFINE r == [ftable[f] EXCEPT !.ref = n]
<1>2. r \in FileRec /\ r.ref = n
    BY Zenon, <1>1, RefTyped
<1>3. ftable' = [ftable EXCEPT ![f] = r]
    BY Zenon
<1> HIDE DEF r
<1> QED
    BY Zenon, <1>2, <1>3, TableStep

\* A count changes by as much as its references do.
Delta(g, h, i, c) ==
    /\ Cardinality(Holders(g)') = Cardinality(Holders(g)) + h
    /\ Cardinality(InFlight(g)') = Cardinality(InFlight(g)) + i
    /\ Cardinality(Closing(g)') = Cardinality(Closing(g)) + c
    /\ ftable'[g].ref = ftable[g].ref + h + i + c

HasDelta(g) == \E h, i, c \in Int : Delta(g, h, i, c)

LEMMA ExactStep ==
    ASSUME FtInv, \A g \in File : HasDelta(g)
    PROVE  FileRefsExact'
<1> SUFFICES ASSUME NEW g \in File
             PROVE  ftable'[g].ref = Cardinality(Holders(g)') + Cardinality(InFlight(g)') + Cardinality(Closing(g)')
    BY Zenon DEF FileRefsExact
<1>1. ftable[g].ref = Cardinality(Holders(g)) + Cardinality(InFlight(g)) + Cardinality(Closing(g))
    BY Zenon DEF FtInv, FileRefsExact
<1>2. /\ Cardinality(Holders(g)) \in Nat /\ Cardinality(InFlight(g)) \in Nat
      /\ Cardinality(Closing(g)) \in Nat
    BY Zenon, RefsFinite DEF FtInv
<1> QED
    BY <1>1, <1>2 DEF Delta, HasDelta

\* Where nothing changes.
LEMMA SameCounts ==
    ASSUME FtInv, NEW g \in File, Holders(g)' = Holders(g), InFlight(g)' = InFlight(g),
           Closing(g)' = Closing(g), ftable'[g] = ftable[g]
    PROVE  HasDelta(g)
<1>1. /\ Cardinality(Holders(g)) \in Nat /\ Cardinality(InFlight(g)) \in Nat
      /\ Cardinality(Closing(g)) \in Nat /\ ftable[g].ref \in Nat
    BY Zenon, RefsFinite DEF FtInv, FtTypeOK, FileRec
<1>2. /\ Cardinality(Holders(g)') = Cardinality(Holders(g)) + 0
      /\ Cardinality(InFlight(g)') = Cardinality(InFlight(g)) + 0
      /\ Cardinality(Closing(g)') = Cardinality(Closing(g)) + 0
      /\ ftable'[g].ref = ftable[g].ref + 0 + 0 + 0
    BY <1>1
<1>3. Delta(g, 0, 0, 0)
    BY Zenon, <1>2 DEF Delta
<1> QED
    BY <1>3 DEF HasDelta

-----------------------------------------------------------------------------
(* One lemma for each action.                                              *)
LEMMA OpenPreserves ==
    ASSUME FtInv, NEW p \in FProcs, NEW i \in OpenInodes, sys_open(p, i)
    PROVE  FtInv'
<1> DEFINE r == [ref |-> 1, type |-> "INODE", obj |-> i, w |-> 1]
<1>0. FtTypeOK /\ CallsInv
    BY Zenon DEF FtInv
<1>1. PICK f \in File, d \in Fd :
          /\ ftable[f].ref = 0 /\ ofile[p][d] = 0
          /\ ftable' = [ftable EXCEPT ![f] = r]
          /\ ofile' = [ofile EXCEPT ![p][d] = f]
    BY Zenon DEF sys_open, Lowest, FreeFiles, FreeFds
<1>2. fstate[p] = "running" /\ UNCHANGED <<fstate, half, closing>>
    BY Zenon DEF sys_open, InUser
<1>3. r \in FileRec /\ r.ref = 1
    BY DEF FileRec
<1>4. /\ ftable' \in [File -> FileRec]
      /\ \A g \in File : ftable'[g] = IF g = f THEN r ELSE ftable[g]
    BY Zenon, <1>0, <1>1, <1>3, TableStep
<1> HIDE DEF r
<1>5. f \in 0 .. NFILE /\ f # 0 /\ \A g \in File : g # 0
    BY FileTableAssumption DEF File
<1>6. /\ ofile' \in [FProcs -> [Fd -> 0 .. NFILE]]
      /\ Holders(f)' = Holders(f) \cup {<<p, d>>} /\ <<p, d>> \notin Holders(f)
      /\ \A g \in File \ {f} : Holders(g)' = Holders(g)
  <2>1. \A g : /\ ofile' \in [FProcs -> [Fd -> 0 .. NFILE]]
               /\ f = g /\ ofile[p][d] # g => Holders(g)' = Holders(g) \cup {<<p, d>>} /\ <<p, d>> \notin Holders(g)
               /\ f # g /\ ofile[p][d] # g => Holders(g)' = Holders(g)
    <3>1. SetsFd(p, d, f)
      BY Zenon, <1>1, <1>5 DEF SetsFd
    <3> QED
      BY Zenon, <3>1, <1>0, HoldersStep
  <2> QED
    BY Zenon, <2>1, <1>1, <1>5
<1>7. \A g : InFlight(g)' = InFlight(g) /\ Closing(g)' = Closing(g)
    BY Zenon, <1>2, ClosingIs DEF InFlight
<1>8. FtTypeOK'
    BY Zenon, <1>0, <1>2, <1>4, <1>6 DEF FtTypeOK
<1>9. CallsInv'
  <2>1. \A q \in FProcs : half[q] # 0 => half[q] # f /\ half[q] \in File
    BY <1>0, <1>1, HalfAlone
  <2>2. \A q \in FProcs : fstate[q] = "unused" => \A e \in Fd : ofile'[q][e] = 0
    BY Zenon, <1>0, <1>1, <1>2 DEF CallsInv, FtTypeOK
  <2> QED
    BY <2>1, <2>2, <1>0, <1>2, <1>4 DEF CallsInv
<1>10. FileRefsExact'
  <2>1. Holders(f) = {} /\ InFlight(f) = {} /\ Closing(f) = {}
    BY Zenon, <1>1, FreeUnused
  <2>2. Cardinality(Holders(f)') = Cardinality(Holders(f)) + 1
    BY Zenon, <1>0, <1>6, PlusOne, RefsFinite
  <2>3. \A g \in File \ {f} : ftable'[g].ref = Cardinality(Holders(g)') + Cardinality(InFlight(g)') + Cardinality(Closing(g)')
    BY Zenon, <1>4, <1>6, <1>7 DEF FtInv, FileRefsExact
  <2>4. 0 = Cardinality(Holders(f)) + Cardinality(InFlight(f)) + Cardinality(Closing(f))
    BY Zenon, <1>1 DEF FtInv, FileRefsExact
  <2>5. ftable'[f].ref = Cardinality(Holders(f)') + Cardinality(InFlight(f)') + Cardinality(Closing(f)')
    BY <2>2, <2>4, <1>0, <1>3, <1>4, <1>7, RefsFinite
  <2> QED
    BY Zenon, <2>3, <2>5 DEF FileRefsExact
<1> QED
    BY Zenon, <1>8, <1>9, <1>10 DEF FtInv

LEMMA OpenFullPreserves ==
    ASSUME FtInv, NEW p \in FProcs, NEW i \in OpenInodes, sys_open_full(p, i)
    PROVE  FtInv'
<1> DEFINE e == <<"drop", [ref |-> 0, type |-> "INODE", obj |-> i, w |-> 0]>>
<1>0. FtTypeOK /\ CallsInv
    BY Zenon DEF FtInv
<1>1. PICK f \in File : /\ ftable[f].ref = 0
                        /\ ftable' = [ftable EXCEPT ![f] = [ftable[f] EXCEPT !.ref = 1]]
                        /\ closing' = [closing EXCEPT ![p] = << <<"close", f>>, e>>]
    BY Zenon DEF sys_open_full, Lowest, FreeFiles, filealloc
<1>2. fstate[p] = "running" /\ closing[p] = <<>> /\ half[p] = 0 /\ UNCHANGED <<ofile, fstate, half>>
    BY Zenon DEF sys_open_full, InUser
<1>3. /\ ftable' \in [File -> FileRec] /\ ftable'[f].ref = 1
      /\ \A g \in File \ {f} : ftable'[g] = ftable[g]
    BY Zenon, <1>0, <1>1, RefStep
<1>4. e \in Closes /\ \A g : e # <<"close", g>>
  <2>1. [ref |-> 0, type |-> "INODE", obj |-> i, w |-> 0] \in DropRec
    BY DEF FileRec, DropRec
  <2> QED
    BY Zenon, <2>1 DEF Closes
<1> HIDE DEF e
<1>5. << <<"close", f>>, e>> \in Seq(Closes) /\ Len(<< <<"close", f>>, e>>) = 2
    BY <1>4 DEF Closes
<1>6. /\ closing' \in [FProcs -> Seq(Closes)] /\ closing'[p] = << <<"close", f>>, e>>
      /\ \A q \in FProcs \ {p} : closing'[q] = closing[q]
    BY Zenon, <1>0, <1>1, <1>5 DEF FtTypeOK
<1>7. /\ Closing(f)' = Closing(f) \cup {<<p, 1>>} /\ <<p, 1>> \notin Closing(f)
      /\ \A g \in File \ {f} : Closing(g)' = Closing(g)
  <2>1. \A g : /\ g = f => ClosingOf(closing', g) = ClosingOf(closing, g) \cup {<<p, 1>>}
               /\ g # f => ClosingOf(closing', g) = ClosingOf(closing, g)
               /\ <<p, 1>> \notin ClosingOf(closing, g)
    <3> SUFFICES ASSUME NEW g
                 PROVE  /\ g = f => ClosingOf(closing', g) = ClosingOf(closing, g) \cup {<<p, 1>>}
                        /\ g # f => ClosingOf(closing', g) = ClosingOf(closing, g)
                        /\ <<p, 1>> \notin ClosingOf(closing, g)
      BY Zenon
    <3>1. StartsTwo(closing, closing', p, f, e) /\ e # <<"close", g>>
      BY Zenon, <1>2, <1>4, <1>6 DEF Starts, StartsTwo
    <3>2. /\ g = f => ClosingOf(closing', g) = ClosingOf(closing, g) \cup {<<p, 1>>}
          /\ g # f /\ e = <<"close", g>> => ClosingOf(closing', g) = ClosingOf(closing, g) \cup {<<p, 0>>}
          /\ g # f /\ e # <<"close", g>> => ClosingOf(closing', g) = ClosingOf(closing, g)
          /\ <<p, 0>> \notin ClosingOf(closing, g) /\ <<p, 1>> \notin ClosingOf(closing, g)
      BY Zenon, <3>1, StartTwo
    <3> QED
      BY Zenon, <3>1, <3>2
  <2> QED
    BY Zenon, <2>1, ClosingIs
<1>8. \A g : InFlight(g)' = InFlight(g) /\ Holders(g)' = Holders(g)
    BY Zenon, <1>2 DEF InFlight, Holders
<1>9. FtTypeOK'
    BY Zenon, <1>0, <1>2, <1>3, <1>6 DEF FtTypeOK
<1>10. CallsInv'
  <2>1. \A q \in FProcs : half[q] # 0 => half[q] # f /\ half[q] \in File
    BY <1>0, <1>1, HalfAlone
  <2>2. \A q \in FProcs : Len(closing'[q]) <= 2
    <3>1. Len(closing'[p]) <= 2
      BY <1>5, <1>6
    <3>2. \A q \in FProcs \ {p} : Len(closing'[q]) <= 2
      BY Zenon, <1>0, <1>6 DEF CallsInv
    <3> QED
      BY Zenon, <3>1, <3>2
  <2>3. \A q \in FProcs : half[q] # 0 => ftable'[half[q]].ref = 1 /\ closing'[q] = <<>> /\ fstate[q] = "running"
    BY <2>1, <1>0, <1>2, <1>3, <1>6 DEF CallsInv
  <2> QED
    BY Zenon, <2>2, <2>3, <1>0, <1>2 DEF CallsInv
<1>11. FileRefsExact'
  <2>1. Cardinality(Closing(f)') = Cardinality(Closing(f)) + 1
    BY Zenon, <1>0, <1>7, PlusOne, RefsFinite
  <2>2. HasDelta(f)
    <3>1. Delta(f, 0, 0, 1)
      BY <2>1, <1>0, <1>1, <1>3, <1>8, RefsFinite DEF Delta
    <3> QED
      BY <3>1 DEF HasDelta
  <2>3. \A g \in File \ {f} : HasDelta(g)
    BY Zenon, <1>3, <1>7, <1>8, SameCounts
  <2> QED
    BY Zenon, <2>2, <2>3, ExactStep
<1> QED
    BY Zenon, <1>9, <1>10, <1>11 DEF FtInv


\* A set that gains or loses one element.
Grows(S, T) == \E x : x \notin S /\ T = S \cup {x}
Shrinks(S, T) == \E x : x \in S /\ T = S \ {x}

LEMMA CountGrows ==
    ASSUME NEW S, IsFiniteSet(S), NEW T, Grows(S, T)
    PROVE  Cardinality(T) = Cardinality(S) + 1
<1>1. PICK x : x \notin S /\ T = S \cup {x}
    BY Zenon DEF Grows
<1> QED
    BY Zenon, <1>1, PlusOne

LEMMA CountShrinks ==
    ASSUME NEW S, IsFiniteSet(S), NEW T, Shrinks(S, T)
    PROVE  Cardinality(T) = Cardinality(S) - 1
<1>1. PICK x : x \in S /\ T = S \ {x}
    BY Zenon DEF Shrinks
<1> QED
    BY Zenon, <1>1, MinusOne

Changes(S, T, n) == (n = 0 /\ T = S) \/ (n = 1 /\ Grows(S, T)) \/ (n = -1 /\ Shrinks(S, T))

LEMMA ChangeCount ==
    ASSUME NEW S, IsFiniteSet(S), NEW T, NEW n, Changes(S, T, n)
    PROVE  n \in Int /\ Cardinality(T) = Cardinality(S) + n
<1>1. Cardinality(S) \in Nat
    BY Zenon, FS_CardinalityType
<1>2. CASE n = 0 /\ T = S
    BY <1>1, <1>2
<1>3. CASE n = 1 /\ Grows(S, T)
    BY <1>3, CountGrows
<1>4. CASE n = -1 /\ Shrinks(S, T)
  <2>1. Cardinality(T) = Cardinality(S) - 1
    BY Zenon, <1>4, CountShrinks
  <2> QED
    BY <1>1, <1>4, <2>1
<1> QED
    BY Zenon, <1>2, <1>3, <1>4 DEF Changes

LEMMA DeltaOf ==
    ASSUME FtInv, NEW g \in File, NEW h, NEW i, NEW c,
           Changes(Holders(g), Holders(g)', h), Changes(InFlight(g), InFlight(g)', i),
           Changes(Closing(g), Closing(g)', c), ftable'[g].ref = ftable[g].ref + h + i + c
    PROVE  HasDelta(g)
<1>1. IsFiniteSet(Holders(g)) /\ IsFiniteSet(InFlight(g)) /\ IsFiniteSet(Closing(g))
    BY Zenon, RefsFinite DEF FtInv
<1>2. h \in Int /\ Cardinality(Holders(g)') = Cardinality(Holders(g)) + h
    BY Zenon, <1>1, ChangeCount
<1>3. i \in Int /\ Cardinality(InFlight(g)') = Cardinality(InFlight(g)) + i
    BY Zenon, <1>1, ChangeCount
<1>4. c \in Int /\ Cardinality(Closing(g)') = Cardinality(Closing(g)) + c
    BY Zenon, <1>1, ChangeCount
<1>5. Delta(g, h, i, c)
    BY Zenon, <1>2, <1>3, <1>4 DEF Delta
<1> QED
    BY Zenon, <1>2, <1>3, <1>4, <1>5 DEF HasDelta

\* Who holds a file holds one with references that nobody has in flight.
LEMMA HeldFile ==
    ASSUME FtInv, NEW f \in File, Holders(f) # {} \/ Closing(f) # {}
    PROVE  \A q \in FProcs : half[q] # 0 => half[q] # f /\ half[q] \in File
    BY Zenon, HalfAlone

LEMMA DescriptorHolds ==
    ASSUME FtInv, NEW p \in FProcs, NEW d \in Fd, ofile[p][d] # 0
    PROVE  ofile[p][d] \in File /\ <<p, d>> \in Holders(ofile[p][d])
    BY FileTableAssumption DEF FtInv, FtTypeOK, File, Holders

LEMMA DupPreserves ==
    ASSUME FtInv, NEW p \in FProcs, NEW d \in Fd, sys_dup(p, d)
    PROVE  FtInv'
<1>0. FtTypeOK /\ CallsInv
    BY Zenon DEF FtInv
<1>1. PICK f \in File : f = ofile[p][d] /\ Holders(f) # {} /\ f # 0
    BY Zenon, DescriptorHolds DEF sys_dup, argfd, filedup
<1> DEFINE n == ftable[f].ref + 1
<1>2. n \in Nat /\ ftable' = [ftable EXCEPT ![f] = [ftable[f] EXCEPT !.ref = n]]
    BY <1>0, <1>1 DEF sys_dup, argfd, filedup, FtTypeOK, FileRec
<1>3. PICK e \in Fd : ofile[p][e] = 0 /\ ofile' = [ofile EXCEPT ![p][e] = f]
    BY Zenon, <1>1 DEF sys_dup, argfd, filedup, Lowest, FreeFds
<1>4. fstate[p] = "running" /\ UNCHANGED <<fstate, half, closing>>
    BY Zenon DEF sys_dup, argfd, filedup, InUser
<1>5. /\ ftable' \in [File -> FileRec] /\ ftable'[f].ref = n
      /\ \A g \in File \ {f} : ftable'[g] = ftable[g]
  <2> HIDE DEF n
  <2> QED
    BY Zenon, <1>0, <1>1, <1>2, RefStep
<1>6. f \in 0 .. NFILE /\ \A g \in File : g # 0
    BY <1>1, FileTableAssumption DEF File
<1>7. /\ ofile' \in [FProcs -> [Fd -> 0 .. NFILE]]
      /\ Grows(Holders(f), Holders(f)')
      /\ \A g \in File \ {f} : Holders(g)' = Holders(g)
  <2>1. \A g : /\ ofile' \in [FProcs -> [Fd -> 0 .. NFILE]]
               /\ f = g /\ ofile[p][e] # g => Holders(g)' = Holders(g) \cup {<<p, e>>} /\ <<p, e>> \notin Holders(g)
               /\ f # g /\ ofile[p][e] # g => Holders(g)' = Holders(g)
    <3>1. SetsFd(p, e, f)
      BY Zenon, <1>3, <1>6 DEF SetsFd
    <3> QED
      BY Zenon, <3>1, <1>0, HoldersStep
  <2>2. Holders(f)' = Holders(f) \cup {<<p, e>>} /\ <<p, e>> \notin Holders(f)
    BY Zenon, <2>1, <1>1, <1>3
  <2>3. Grows(Holders(f), Holders(f)')
    BY Zenon, <2>2 DEF Grows
  <2> QED
    BY Zenon, <2>1, <2>3, <1>3, <1>6
<1>8. \A g : InFlight(g)' = InFlight(g) /\ Closing(g)' = Closing(g)
    BY Zenon, <1>4, ClosingIs DEF InFlight
<1>9. FtTypeOK'
    BY Zenon, <1>0, <1>4, <1>5, <1>7 DEF FtTypeOK
<1>10. CallsInv'
  <2>1. \A q \in FProcs : half[q] # 0 => half[q] # f /\ half[q] \in File
    BY Zenon, <1>1, HeldFile
  <2>2. \A q \in FProcs : fstate[q] = "unused" => \A a \in Fd : ofile'[q][a] = 0
    BY Zenon, <1>0, <1>3, <1>4 DEF CallsInv, FtTypeOK
  <2> QED
    BY <2>1, <2>2, <1>0, <1>4, <1>5 DEF CallsInv
<1>11. FileRefsExact'
  <2>1. /\ Changes(Holders(f), Holders(f)', 1) /\ Changes(InFlight(f), InFlight(f)', 0)
        /\ Changes(Closing(f), Closing(f)', 0)
    BY Zenon, <1>7, <1>8 DEF Changes
  <2>2. ftable'[f].ref = ftable[f].ref + 1 + 0 + 0
    BY <1>0, <1>1, <1>5 DEF FtTypeOK, FileRec
  <2>4. HasDelta(f)
    BY Zenon, <1>1, <2>1, <2>2, DeltaOf
  <2>3. \A g \in File \ {f} : HasDelta(g)
    BY Zenon, <1>5, <1>7, <1>8, SameCounts
  <2> QED
    BY Zenon, <2>4, <2>3, <1>1, ExactStep
<1> QED
    BY Zenon, <1>9, <1>10, <1>11 DEF FtInv

\* A list of one close: the counts and the types.
LEMMA StartClose ==
    ASSUME FtInv, NEW p \in FProcs, closing[p] = <<>>, NEW f \in File,
           closing' = [closing EXCEPT ![p] = << <<"close", f>> >>]
    PROVE  /\ closing' \in [FProcs -> Seq(Closes)]
           /\ \A q \in FProcs : Len(closing'[q]) <= 2 /\ (q # p => closing'[q] = closing[q])
           /\ Grows(Closing(f), Closing(f)')
           /\ \A g \in File \ {f} : Closing(g)' = Closing(g)
<1>0. closing \in [FProcs -> Seq(Closes)] /\ \A q \in FProcs : Len(closing[q]) <= 2
    BY Zenon DEF FtInv, FtTypeOK, CallsInv
<1> DEFINE s == << <<"close", f>> >>
<1>1. s \in Seq(Closes) /\ Len(s) = 1
    BY DEF Closes
<1>2. /\ closing' \in [FProcs -> Seq(Closes)] /\ closing'[p] = s
      /\ \A q \in FProcs \ {p} : closing'[q] = closing[q]
  <2> HIDE DEF s
  <2>1. closing' = [closing EXCEPT ![p] = s]
    BY Zenon DEF s
  <2> QED
    BY Zenon, <2>1, <1>0, <1>1
<1>3. StartsOne(closing, closing', p, f)
    BY Zenon, <1>2 DEF Starts, StartsOne
<1>4. \A g : /\ g = f => ClosingOf(closing', g) = ClosingOf(closing, g) \cup {<<p, 0>>}
             /\ g # f => ClosingOf(closing', g) = ClosingOf(closing, g)
             /\ <<p, 0>> \notin ClosingOf(closing, g)
  <2> SUFFICES ASSUME NEW g
               PROVE  /\ g = f => ClosingOf(closing', g) = ClosingOf(closing, g) \cup {<<p, 0>>}
                      /\ g # f => ClosingOf(closing', g) = ClosingOf(closing, g)
                      /\ <<p, 0>> \notin ClosingOf(closing, g)
    BY Zenon
  <2> QED
    BY SMTT(30), <1>3, StartOne
<1>5. /\ Closing(f)' = Closing(f) \cup {<<p, 0>>} /\ <<p, 0>> \notin Closing(f)
      /\ \A g \in File \ {f} : Closing(g)' = Closing(g)
    BY Zenon, <1>4, ClosingIs
<1>6. \A q \in FProcs : Len(closing'[q]) <= 2 /\ (q # p => closing'[q] = closing[q])
  <2>1. Len(closing'[p]) <= 2
    BY <1>1, <1>2
  <2> QED
    BY Zenon, <2>1, <1>0, <1>2
<1> QED
    BY Zenon, <1>2, <1>5, <1>6 DEF Grows

LEMMA ClearFd ==
    ASSUME FtTypeOK, NEW p, NEW d, SetsFd(p, d, 0)
    PROVE  \A g : /\ ofile' \in [FProcs -> [Fd -> 0 .. NFILE]]
                  /\ 0 # g /\ ofile[p][d] = g => Holders(g)' = Holders(g) \ {<<p, d>>} /\ <<p, d>> \in Holders(g)
                  /\ 0 # g /\ ofile[p][d] # g => Holders(g)' = Holders(g)
<1>1. PICK v : v = 0 /\ SetsFd(p, d, v)
    BY Zenon
<1>2. \A g : /\ ofile' \in [FProcs -> [Fd -> 0 .. NFILE]]
             /\ v # g /\ ofile[p][d] = g => Holders(g)' = Holders(g) \ {<<p, d>>} /\ <<p, d>> \in Holders(g)
             /\ v # g /\ ofile[p][d] # g => Holders(g)' = Holders(g)
    BY Zenon, <1>1, HoldersStep
<1> QED
    BY Zenon, <1>1, <1>2

\* sys_close() and exit() move a reference from a descriptor to the list.
LEMMA CloseFdPreserves ==
    ASSUME FtInv, NEW p \in FProcs, NEW d \in Fd, NEW f, f = ofile[p][d], f # 0,
           closing[p] = <<>>, half[p] = 0,
           SetsFd(p, d, 0),
           closing' = [closing EXCEPT ![p] = << <<"close", f>> >>],
           UNCHANGED <<ftable, fstate, half>>
    PROVE  FtInv'
<1>0. FtTypeOK /\ CallsInv
    BY Zenon DEF FtInv
<1>1. f \in File /\ 0 \in 0 .. NFILE /\ \A g \in File : g # 0
  <2>1. f \in File
    BY Zenon, DescriptorHolds
  <2> QED
    BY <2>1, FileTableAssumption DEF File
<1>2. /\ closing' \in [FProcs -> Seq(Closes)]
      /\ \A q \in FProcs : Len(closing'[q]) <= 2 /\ (q # p => closing'[q] = closing[q])
      /\ Grows(Closing(f), Closing(f)')
      /\ \A g \in File \ {f} : Closing(g)' = Closing(g)
    BY Zenon, <1>1, StartClose
<1>3. /\ ofile' \in [FProcs -> [Fd -> 0 .. NFILE]]
      /\ Shrinks(Holders(f), Holders(f)')
      /\ \A g \in File \ {f} : Holders(g)' = Holders(g)
  <2>1. \A g : /\ ofile' \in [FProcs -> [Fd -> 0 .. NFILE]]
               /\ 0 # g /\ ofile[p][d] = g => Holders(g)' = Holders(g) \ {<<p, d>>} /\ <<p, d>> \in Holders(g)
               /\ 0 # g /\ ofile[p][d] # g => Holders(g)' = Holders(g)
    BY Zenon, <1>0, ClearFd
  <2>2. Holders(f)' = Holders(f) \ {<<p, d>>} /\ <<p, d>> \in Holders(f)
    BY Zenon, <2>1
  <2>3. Shrinks(Holders(f), Holders(f)')
    BY Zenon, <2>2 DEF Shrinks
  <2> QED
    BY Zenon, <2>1, <2>3, <1>1
<1>4. \A g : InFlight(g)' = InFlight(g)
    BY Zenon DEF InFlight
<1>5. FtTypeOK'
    BY Zenon, <1>0, <1>2, <1>3 DEF FtTypeOK
<1>6. CallsInv'
  <2>1. \A q \in FProcs : fstate[q] = "unused" => \A a \in Fd : ofile'[q][a] = 0
    BY Zenon, <1>0 DEF CallsInv, FtTypeOK, SetsFd
  <2> QED
    BY Zenon, <2>1, <1>0, <1>2 DEF CallsInv
<1>7. FileRefsExact'
  <2>1. /\ Changes(Holders(f), Holders(f)', -1) /\ Changes(InFlight(f), InFlight(f)', 0)
        /\ Changes(Closing(f), Closing(f)', 1)
    BY Zenon, <1>2, <1>3, <1>4 DEF Changes
  <2>2. ftable'[f].ref = ftable[f].ref + (-1) + 0 + 1
    BY <1>0, <1>1 DEF FtTypeOK, FileRec
  <2>3. HasDelta(f)
    BY Zenon, <1>1, <2>1, <2>2, DeltaOf
  <2>4. \A g \in File \ {f} : HasDelta(g)
    BY Zenon, <1>2, <1>3, <1>4, SameCounts
  <2> QED
    BY Zenon, <2>3, <2>4, <1>1, ExactStep
<1> QED
    BY Zenon, <1>5, <1>6, <1>7 DEF FtInv

LEMMA ClosePreserves ==
    ASSUME FtInv, NEW p \in FProcs, NEW d \in Fd, sys_close(p, d)
    PROVE  FtInv'
<1>1. PICK f : f = ofile[p][d]
    BY Zenon
<1>2. /\ f # 0 /\ closing[p] = <<>> /\ half[p] = 0
      /\ ofile' = [ofile EXCEPT ![p][d] = 0]
      /\ closing' = [closing EXCEPT ![p] = << <<"close", f>> >>]
      /\ UNCHANGED <<ftable, fstate, half>>
    BY Zenon, <1>1 DEF sys_close, argfd, InUser
<1>3. SetsFd(p, d, 0)
    BY <1>2, FileTableAssumption DEF SetsFd
<1> QED
    BY Zenon, <1>1, <1>2, <1>3, CloseFdPreserves

LEMMA ExitClosePreserves ==
    ASSUME FtInv, NEW p \in FProcs, exit_close(p)
    PROVE  FtInv'
<1>0. FtTypeOK /\ CallsInv /\ fstate[p] = "exiting" /\ closing[p] = <<>> /\ UNCHANGED <<ftable, half>>
    BY Zenon DEF FtInv, exit_close
<1>1. half[p] = 0
    BY Zenon, <1>0 DEF CallsInv
<1>2. CASE \E d \in Fd : ofile[p][d] # 0
  <2>1. PICK d \in Fd : /\ ofile[p][d] # 0
                        /\ closing' = [closing EXCEPT ![p] = << <<"close", ofile[p][d]>> >>]
                        /\ ofile' = [ofile EXCEPT ![p][d] = 0]
                        /\ UNCHANGED fstate
    BY Zenon, <1>2 DEF exit_close, Lowest
  <2>2. PICK f : f = ofile[p][d]
    BY Zenon
  <2>3. f # 0 /\ closing' = [closing EXCEPT ![p] = << <<"close", f>> >>]
        /\ UNCHANGED <<ftable, fstate, half>>
    BY Zenon, <2>1, <2>2, <1>0
  <2>4. SetsFd(p, d, 0)
    BY <2>1, FileTableAssumption DEF SetsFd
  <2> QED
    BY Zenon, <1>0, <1>1, <2>2, <2>3, <2>4, CloseFdPreserves
<1>3. CASE ~ \E d \in Fd : ofile[p][d] # 0
  <2>1. fstate' = [fstate EXCEPT ![p] = "unused"] /\ UNCHANGED <<ftable, ofile, half, closing>>
    BY Zenon, <1>3 DEF exit_close
  <2>2. FtTypeOK'
    BY Zenon, <1>0, <2>1 DEF FtTypeOK
  <2>3. CallsInv'
    BY Zenon, <1>0, <1>1, <1>3, <2>1 DEF CallsInv, FtTypeOK
  <2>4. FileRefsExact'
    <3>1. \A g : Holders(g)' = Holders(g) /\ InFlight(g)' = InFlight(g) /\ Closing(g)' = Closing(g)
      BY Zenon, <2>1, ClosingIs DEF Holders, InFlight
    <3> QED
      BY Zenon, <2>1, <3>1, SameCounts, ExactStep
  <2> QED
    BY Zenon, <2>2, <2>3, <2>4 DEF FtInv
<1> QED
    BY Zenon, <1>2, <1>3

\* The first close of a list goes, and maybe leaves a drop in its place.
Pops(p, f) ==
    /\ p \in FProcs /\ closing' \in [FProcs -> Seq(Closes)]
    /\ \A q \in FProcs : Len(closing'[q]) <= 2 /\ (q # p => closing'[q] = closing[q])
    /\ Shrinks(Closing(f), Closing(f)')
    /\ \A g \in File \ {f} : Closing(g)' = Closing(g)

LEMMA ListPop ==
    ASSUME FtInv, NEW p \in FProcs, closing[p] # <<>>
    PROVE  /\ Head(closing[p]) \in Closes /\ half[p] = 0
           /\ [closing EXCEPT ![p] = Tail(@)] \in [FProcs -> Seq(Closes)]
           /\ \A q \in FProcs : /\ Len([closing EXCEPT ![p] = Tail(@)][q]) <= 2
                                /\ q # p => [closing EXCEPT ![p] = Tail(@)][q] = closing[q]
<1>0. /\ closing \in [FProcs -> Seq(Closes)] /\ \A q \in FProcs : Len(closing[q]) <= 2
      /\ half[p] = 0
    BY Zenon DEF FtInv, FtTypeOK, CallsInv
<1>1. /\ closing[p] \in Seq(Closes) /\ Head(closing[p]) \in Closes
      /\ Tail(closing[p]) \in Seq(Closes) /\ Len(Tail(closing[p])) = Len(closing[p]) - 1
    BY <1>0
<1> DEFINE t == Tail(closing[p])
           d == [closing EXCEPT ![p] = t]
<1>2. Len(t) <= 2 /\ t \in Seq(Closes)
    BY <1>0, <1>1
<1> HIDE DEF t
<1>3. d \in [FProcs -> Seq(Closes)] /\ \A q \in FProcs : Len(d[q]) <= 2 /\ (q # p => d[q] = closing[q])
    BY Zenon, <1>0, <1>2
<1> QED
    BY Zenon, <1>0, <1>1, <1>3 DEF t

LEMMA Joined ==
    ASSUME NEW S, NEW a \in Seq(S), NEW b \in Seq(S)
    PROVE  a \o b \in Seq(S) /\ Len(a \o b) = Len(a) + Len(b)
    OBVIOUS

LEMMA ListSwap ==
    ASSUME FtInv, NEW p \in FProcs, closing[p] # <<>>, NEW r \in DropRec
    PROVE  LET d == [closing EXCEPT ![p] = << <<"drop", r>> >> \o Tail(@)] IN
              d \in [FProcs -> Seq(Closes)] /\ \A q \in FProcs : Len(d[q]) <= 2 /\ (q # p => d[q] = closing[q])
<1>0. closing \in [FProcs -> Seq(Closes)] /\ \A q \in FProcs : Len(closing[q]) <= 2
    BY Zenon DEF FtInv, FtTypeOK, CallsInv
<1>1. /\ closing[p] \in Seq(Closes)
      /\ Tail(closing[p]) \in Seq(Closes) /\ Len(Tail(closing[p])) = Len(closing[p]) - 1
    BY <1>0
<1>2. << <<"drop", r>> >> \in Seq(Closes) /\ Len(<< <<"drop", r>> >>) = 1
    BY DEF Closes
<1> DEFINE s == << <<"drop", r>> >>
           t == s \o Tail(closing[p])
           d == [closing EXCEPT ![p] = t]
<1> HIDE DEF s
<1>3. s \in Seq(Closes) /\ Len(s) = 1
    BY Zenon, <1>2 DEF s
<1>4. Len(t) <= 2 /\ t \in Seq(Closes)
  <2>1. t \in Seq(Closes) /\ Len(t) = Len(s) + Len(Tail(closing[p]))
    BY Zenon, <1>1, <1>3, Joined
  <2>2. Len(closing[p]) \in Nat /\ Len(closing[p]) <= 2
    BY <1>0, <1>1
  <2> HIDE DEF t
  <2> QED
    BY <2>1, <2>2, <1>1, <1>3
<1> HIDE DEF t
<1>5. d \in [FProcs -> Seq(Closes)] /\ \A q \in FProcs : Len(d[q]) <= 2 /\ (q # p => d[q] = closing[q])
    BY Zenon, <1>0, <1>4
<1> QED
    BY Zenon, <1>5 DEF t, s

\* What is left of a fileclose() once the new count is known.
LEMMA PopPreserves ==
    ASSUME FtInv, NEW p, NEW f \in File, Pops(p, f), half[p] = 0,
           ftable' \in [File -> FileRec], ftable'[f].ref = ftable[f].ref - 1,
           \A g \in File \ {f} : ftable'[g] = ftable[g],
           UNCHANGED <<ofile, fstate, half>>
    PROVE  FtInv'
<1>0. FtTypeOK /\ CallsInv
    BY Zenon DEF FtInv
<1>1. Closing(f) # {}
    BY Zenon DEF Pops, Shrinks
<1>2. \A g : InFlight(g)' = InFlight(g) /\ Holders(g)' = Holders(g)
    BY Zenon DEF InFlight, Holders
<1>3. FtTypeOK'
    BY Zenon, <1>0 DEF FtTypeOK, Pops
<1>4. CallsInv'
  <2>1. \A q \in FProcs : half[q] # 0 => half[q] # f /\ half[q] \in File
    BY Zenon, <1>1, HeldFile
  <2>2. \A q \in FProcs : Len(closing'[q]) <= 2 /\ (q # p => closing'[q] = closing[q])
    BY Zenon DEF Pops
  <2> QED
    BY <2>1, <2>2, <1>0 DEF CallsInv
<1>5. FileRefsExact'
  <2>1. /\ Changes(Holders(f), Holders(f)', 0) /\ Changes(InFlight(f), InFlight(f)', 0)
        /\ Changes(Closing(f), Closing(f)', -1)
    BY Zenon, <1>2 DEF Changes, Pops
  <2>2. ftable'[f].ref = ftable[f].ref + 0 + 0 + (-1)
    BY <1>0 DEF FtTypeOK, FileRec
  <2>3. HasDelta(f)
    BY Zenon, <2>1, <2>2, DeltaOf
  <2>4. \A g \in File \ {f} : Closing(g)' = Closing(g)
    BY Zenon DEF Pops
  <2>5. \A g \in File \ {f} : HasDelta(g)
    BY Zenon, <1>2, <2>4, SameCounts
  <2> QED
    BY Zenon, <2>3, <2>5, ExactStep
<1> QED
    BY Zenon, <1>3, <1>4, <1>5 DEF FtInv

LEMMA FileclosePreserves ==
    ASSUME FtInv, NEW p \in FProcs, fileclose(p)
    PROVE  FtInv'
<1>0. FtTypeOK /\ CallsInv /\ closing[p] # <<>> /\ UNCHANGED <<ofile, fstate, half>>
    BY Zenon DEF FtInv, fileclose
<1>1. Head(closing[p]) \in Closes /\ half[p] = 0 /\ Head(closing[p])[1] = "close"
    BY Zenon, <1>0, ListPop DEF fileclose
<1>2. PICK f \in File : Head(closing[p]) = <<"close", f>>
    BY <1>1 DEF Closes
<1>3. closing \in [FProcs -> Seq(Closes)] /\ ftable[f] \in FileRec /\ ftable[f].ref \in Nat
    BY Zenon, <1>0 DEF FtTypeOK, FileRec
<1>4. \A g \in File : g # f => Head(closing[p]) # <<"close", g>>
    BY <1>2
<1> DEFINE x == <<p, Len(closing[p]) - 1>>
<1>5. \A g : ClosingOf([closing EXCEPT ![p] = Tail(@)], g) = ClosingOf(closing, g) \ {x}
    BY Zenon, <1>0, <1>3, PopHead
<1>6. \A g : x \in ClosingOf(closing, g) <=> Head(closing[p]) = <<"close", g>>
    BY Zenon, <1>0, <1>3, PopHead
<1> HIDE DEF x
<1>7. x \in ClosingOf(closing, f) /\ \A g \in File \ {f} : x \notin ClosingOf(closing, g)
    BY Zenon, <1>2, <1>4, <1>6
<1>8. CASE ftable[f].ref > 1
  <2>1. /\ ftable' = [ftable EXCEPT ![f] = [ftable[f] EXCEPT !.ref = ftable[f].ref - 1]]
        /\ closing' = [closing EXCEPT ![p] = Tail(@)]
    BY <1>2, <1>3, <1>8 DEF fileclose, FtTypeOK
  <2>2. ftable[f].ref - 1 \in Nat
    BY <1>3, <1>8
  <2>3. /\ ftable' \in [File -> FileRec] /\ ftable'[f].ref = ftable[f].ref - 1
        /\ \A g \in File \ {f} : ftable'[g] = ftable[g]
    <3>1. PICK n \in Nat : n = ftable[f].ref - 1
      BY Zenon, <2>2
    <3>2. ftable' = [ftable EXCEPT ![f] = [ftable[f] EXCEPT !.ref = n]]
      BY Zenon, <2>1, <3>1
    <3> QED
      BY Zenon, <3>1, <3>2, <1>0, RefStep
  <2>4. \A g : ClosingOf(closing', g) = ClosingOf(closing, g) \ {x}
    BY Zenon, <1>5, <2>1
  <2>5. /\ closing' \in [FProcs -> Seq(Closes)]
        /\ \A q \in FProcs : Len(closing'[q]) <= 2 /\ (q # p => closing'[q] = closing[q])
    BY Zenon, <2>1, <1>0, ListPop
  <2>6. Shrinks(Closing(f), Closing(f)')
    BY Zenon, <2>4, <1>7, ClosingIs DEF Shrinks
  <2>7. \A g \in File \ {f} : Closing(g)' = Closing(g)
    BY Zenon, <2>4, <1>7, ClosingIs
  <2>8. Pops(p, f)
    BY Zenon, <2>5, <2>6, <2>7 DEF Pops
  <2> QED
    BY Zenon, <2>3, <2>8, <1>0, <1>1, PopPreserves
<1>9. CASE ~ (ftable[f].ref > 1)
  <2> DEFINE r == [ftable[f] EXCEPT !.ref = 0]
  <2>1. r \in DropRec
    <3>1. 0 \in Nat
      BY Zenon
    <3> QED
      BY Zenon, <3>1, <1>3, RefTyped DEF DropRec
  <2>2. /\ ftable' = [ftable EXCEPT ![f] = NoFile] /\ ftable[f].ref = 1
        /\ closing' = [closing EXCEPT ![p] = << <<"drop", r>> >> \o Tail(@)]
    <3>1. Head(closing[p])[2] = f
      BY <1>2
    <3>2. ftable[f].ref = 1
      BY <1>3, <1>9, <3>1 DEF fileclose
    <3>3. ftable' = [ftable EXCEPT ![f] = NoFile]
      BY Zenon, <1>9, <3>1 DEF fileclose, Cleared
    <3>4. closing' = [closing EXCEPT ![p] = <<ClosedCopy(f)>> \o Tail(@)]
      BY Zenon, <1>9, <3>1 DEF fileclose
    <3> QED
      BY Zenon, <3>2, <3>3, <3>4 DEF ClosedCopy
  <2> HIDE DEF r
  <2>3. NoFile \in FileRec /\ NoFile.ref = 0
    BY DEF NoFile, FileRec
  <2>4. /\ ftable' \in [File -> FileRec] /\ ftable'[f].ref = ftable[f].ref - 1
        /\ \A g \in File \ {f} : ftable'[g] = ftable[g]
    <3>1. PICK v \in FileRec : v = NoFile
      BY Zenon, <2>3
    <3>2. /\ ftable' \in [File -> FileRec]
          /\ \A g \in File : ftable'[g] = IF g = f THEN v ELSE ftable[g]
      BY Zenon, <2>2, <3>1, <1>0, TableStep
    <3> QED
      BY <2>2, <2>3, <3>1, <3>2
  <2>5. \A g : ClosingOf(closing', g) = ClosingOf(closing, g) \ {x}
    BY Zenon, <2>1, <2>2, <1>0, <1>3, SwapHead DEF x
  <2>6. /\ closing' \in [FProcs -> Seq(Closes)]
        /\ \A q \in FProcs : Len(closing'[q]) <= 2 /\ (q # p => closing'[q] = closing[q])
    BY Zenon, <2>1, <2>2, <1>0, ListSwap
  <2>7. Shrinks(Closing(f), Closing(f)')
    BY Zenon, <2>5, <1>7, ClosingIs DEF Shrinks
  <2>8. \A g \in File \ {f} : Closing(g)' = Closing(g)
    BY Zenon, <2>5, <1>7, ClosingIs
  <2>9. Pops(p, f)
    BY Zenon, <2>6, <2>7, <2>8 DEF Pops
  <2> QED
    BY Zenon, <2>4, <2>9, <1>0, <1>1, PopPreserves
<1> QED
    BY Zenon, <1>8, <1>9

LEMMA DropPreserves ==
    ASSUME FtInv, NEW p \in FProcs, fileclose_drop(p)
    PROVE  FtInv'
<1>0. /\ FtTypeOK /\ CallsInv /\ closing[p] # <<>> /\ UNCHANGED <<ftable, ofile, fstate, half>>
      /\ closing' = [closing EXCEPT ![p] = Tail(@)] /\ Head(closing[p])[1] = "drop"
    BY Zenon DEF FtInv, fileclose_drop
<1>1. closing \in [FProcs -> Seq(Closes)] /\ \A g : Head(closing[p]) # <<"close", g>>
    BY <1>0 DEF FtTypeOK
<1>2. /\ closing' \in [FProcs -> Seq(Closes)] /\ half[p] = 0
      /\ \A q \in FProcs : Len(closing'[q]) <= 2 /\ (q # p => closing'[q] = closing[q])
    BY Zenon, <1>0, ListPop
<1> DEFINE x == <<p, Len(closing[p]) - 1>>
<1>3. \A g : ClosingOf(closing', g) = ClosingOf(closing, g) \ {x} /\ x \notin ClosingOf(closing, g)
    BY ZenonT(30), <1>0, <1>1, PopHead
<1>4. \A g : Closing(g)' = Closing(g)
  <2> HIDE DEF x
  <2> QED
    BY Zenon, <1>3, ClosingIs
<1>5. \A g : InFlight(g)' = InFlight(g) /\ Holders(g)' = Holders(g)
    BY Zenon, <1>0 DEF InFlight, Holders
<1>6. FtTypeOK'
    BY Zenon, <1>0, <1>2 DEF FtTypeOK
<1>7. CallsInv'
    BY Zenon, <1>0, <1>2 DEF CallsInv
<1>8. FileRefsExact'
    BY Zenon, <1>0, <1>4, <1>5, SameCounts, ExactStep
<1> QED
    BY Zenon, <1>6, <1>7, <1>8 DEF FtInv

LEMMA PipePreserves ==
    ASSUME FtInv, NEW p \in FProcs, sys_pipe(p)
    PROVE  FtInv'
<1>0. FtTypeOK /\ CallsInv
    BY Zenon DEF FtInv
<1>1. PICK f \in File : /\ ftable[f].ref = 0
                        /\ ftable' = [ftable EXCEPT ![f] = [ftable[f] EXCEPT !.ref = 1]]
                        /\ half' = [half EXCEPT ![p] = f]
    BY Zenon DEF sys_pipe, Lowest, FreeFiles, filealloc
<1>2. fstate[p] = "running" /\ closing[p] = <<>> /\ half[p] = 0 /\ UNCHANGED <<ofile, fstate, closing>>
    BY Zenon DEF sys_pipe, InUser
<1>3. /\ ftable' \in [File -> FileRec] /\ ftable'[f].ref = 1
      /\ \A g \in File \ {f} : ftable'[g] = ftable[g]
    BY Zenon, <1>0, <1>1, RefStep
<1>4. f \in 0 .. NFILE /\ \A g \in File : g # 0
    BY FileTableAssumption DEF File
<1>5. /\ half' \in [FProcs -> 0 .. NFILE]
      /\ Grows(InFlight(f), InFlight(f)')
      /\ \A g \in File \ {f} : InFlight(g)' = InFlight(g)
  <2>1. \A g : /\ half' \in [FProcs -> 0 .. NFILE]
               /\ f = g /\ half[p] # g => InFlight(g)' = InFlight(g) \cup {p} /\ p \notin InFlight(g)
               /\ f # g /\ half[p] # g => InFlight(g)' = InFlight(g)
    BY Zenon, <1>0, <1>1, <1>4, InFlightStep
  <2>2. InFlight(f)' = InFlight(f) \cup {p} /\ p \notin InFlight(f)
    BY Zenon, <2>1, <1>2, <1>4
  <2>3. Grows(InFlight(f), InFlight(f)')
    BY Zenon, <2>2 DEF Grows
  <2> QED
    BY Zenon, <2>1, <2>3, <1>2, <1>4
<1>6. \A g : Holders(g)' = Holders(g) /\ Closing(g)' = Closing(g)
    BY Zenon, <1>2, ClosingIs DEF Holders
<1>7. FtTypeOK'
    BY Zenon, <1>0, <1>2, <1>3, <1>5 DEF FtTypeOK
<1>8. CallsInv'
  <2>1. \A q \in FProcs : half[q] # 0 => half[q] # f /\ half[q] \in File
    BY <1>1, HalfAlone
  <2>2. half'[p] = f /\ \A q \in FProcs \ {p} : half'[q] = half[q]
    BY Zenon, <1>0, <1>1 DEF FtTypeOK
  <2> QED
    BY <2>1, <2>2, <1>0, <1>2, <1>3 DEF CallsInv
<1>9. FileRefsExact'
  <2>1. /\ Changes(Holders(f), Holders(f)', 0) /\ Changes(InFlight(f), InFlight(f)', 1)
        /\ Changes(Closing(f), Closing(f)', 0)
    BY Zenon, <1>5, <1>6 DEF Changes
  <2>2. ftable'[f].ref = ftable[f].ref + 0 + 1 + 0
    BY <1>1, <1>3
  <2>3. HasDelta(f)
    BY Zenon, <2>1, <2>2, DeltaOf
  <2>4. \A g \in File \ {f} : HasDelta(g)
    BY Zenon, <1>3, <1>5, <1>6, SameCounts
  <2> QED
    BY Zenon, <2>3, <2>4, ExactStep
<1> QED
    BY Zenon, <1>7, <1>8, <1>9 DEF FtInv

\* pipealloc() lets go of the file it got first.
LetsGo(p, f) == p \in FProcs /\ f = half[p] /\ f # 0 /\ half' = [half EXCEPT ![p] = 0]

LEMMA HalfGone ==
    ASSUME FtInv, NEW p, NEW f, LetsGo(p, f)
    PROVE  /\ f \in File /\ half' \in [FProcs -> 0 .. NFILE] /\ half'[p] = 0
           /\ \A q \in FProcs \ {p} : half'[q] = half[q] /\ half[q] # f
           /\ Shrinks(InFlight(f), InFlight(f)')
           /\ \A g \in File \ {f} : InFlight(g)' = InFlight(g)
<1>0. /\ FtTypeOK /\ CallsInv
      /\ p \in FProcs /\ f = half[p] /\ f # 0 /\ half' = [half EXCEPT ![p] = 0]
    BY Zenon DEF FtInv, LetsGo
<1>1. f \in File /\ InFlight(f) = {p}
    BY Zenon, <1>0, HalfAlone
<1>2. /\ half' \in [FProcs -> 0 .. NFILE] /\ half'[p] = 0
      /\ \A q \in FProcs \ {p} : half'[q] = half[q]
    BY <1>0, FileTableAssumption DEF FtTypeOK
<1>3. \A q \in FProcs \ {p} : half[q] # f
    BY Zenon, <1>0, <1>1 DEF InFlight
<1>4. InFlight(f)' = {} /\ \A g \in File \ {f} : InFlight(g)' = InFlight(g)
    BY <1>0, <1>1, <1>2, <1>3, FileTableAssumption DEF InFlight, File
<1>5. InFlight(f)' = InFlight(f) \ {p} /\ p \in InFlight(f)
    BY Zenon, <1>1, <1>4
<1>6. Shrinks(InFlight(f), InFlight(f)')
    BY Zenon, <1>5 DEF Shrinks
<1> QED
    BY Zenon, <1>1, <1>2, <1>3, <1>4, <1>6

LEMMA PipeBadPreserves ==
    ASSUME FtInv, NEW p \in FProcs, pipealloc_bad(p)
    PROVE  FtInv'
<1>0. FtTypeOK /\ CallsInv /\ UNCHANGED <<ftable, ofile, fstate>> /\ half' = [half EXCEPT ![p] = 0]
    BY Zenon DEF FtInv, pipealloc_bad
<1>1. PICK f : f = half[p] /\ f # 0
    BY Zenon DEF pipealloc_bad
<1>2. closing[p] = <<>> /\ closing' = [closing EXCEPT ![p] = << <<"close", f>> >>]
    BY Zenon, <1>0, <1>1 DEF CallsInv, pipealloc_bad
<1>3. /\ f \in File /\ half' \in [FProcs -> 0 .. NFILE] /\ half'[p] = 0
      /\ \A q \in FProcs \ {p} : half'[q] = half[q] /\ half[q] # f
      /\ Shrinks(InFlight(f), InFlight(f)')
      /\ \A g \in File \ {f} : InFlight(g)' = InFlight(g)
  <2>1. LetsGo(p, f)
    BY Zenon, <1>0, <1>1 DEF LetsGo
  <2> QED
    BY Zenon, <2>1, HalfGone
<1>4. /\ closing' \in [FProcs -> Seq(Closes)]
      /\ \A q \in FProcs : Len(closing'[q]) <= 2 /\ (q # p => closing'[q] = closing[q])
      /\ Grows(Closing(f), Closing(f)')
      /\ \A g \in File \ {f} : Closing(g)' = Closing(g)
    BY Zenon, <1>2, <1>3, StartClose
<1>5. \A g : Holders(g)' = Holders(g)
    BY Zenon, <1>0 DEF Holders
<1>6. FtTypeOK'
    BY Zenon, <1>0, <1>3, <1>4 DEF FtTypeOK
<1>7. CallsInv'
    BY Zenon, <1>0, <1>3, <1>4 DEF CallsInv
<1>8. FileRefsExact'
  <2>1. /\ Changes(Holders(f), Holders(f)', 0) /\ Changes(InFlight(f), InFlight(f)', -1)
        /\ Changes(Closing(f), Closing(f)', 1)
    BY Zenon, <1>3, <1>4, <1>5 DEF Changes
  <2>2. ftable'[f].ref = ftable[f].ref + 0 + (-1) + 1
    BY <1>0, <1>3 DEF FtTypeOK, FileRec
  <2>3. HasDelta(f)
    BY Zenon, <1>3, <2>1, <2>2, DeltaOf
  <2>4. \A g \in File \ {f} : HasDelta(g)
    BY Zenon, <1>0, <1>3, <1>4, <1>5, SameCounts
  <2> QED
    BY Zenon, <2>3, <2>4, <1>3, ExactStep
<1> QED
    BY Zenon, <1>6, <1>7, <1>8 DEF FtInv

LEMMA ExitPreserves ==
    ASSUME FtInv, NEW p \in FProcs, exit(p)
    PROVE  FtInv'
<1>0. /\ FtTypeOK /\ CallsInv /\ half[p] = 0 /\ fstate' = [fstate EXCEPT ![p] = "exiting"]
      /\ UNCHANGED <<ftable, ofile, half, closing>>
    BY Zenon DEF FtInv, exit, InUser
<1>1. \A g : Holders(g)' = Holders(g) /\ InFlight(g)' = InFlight(g) /\ Closing(g)' = Closing(g)
    BY Zenon, <1>0, ClosingIs DEF Holders, InFlight
<1>2. FtTypeOK'
    BY Zenon, <1>0 DEF FtTypeOK
<1>3. CallsInv'
    BY Zenon, <1>0 DEF CallsInv, FtTypeOK
<1>4. FileRefsExact'
    BY Zenon, <1>0, <1>1, SameCounts, ExactStep
<1> QED
    BY Zenon, <1>2, <1>3, <1>4 DEF FtInv

\* The two ends of a new pipe get two descriptors, or a list of two closes.
SetsTwo(p, d0, d1, f0, f1) ==
    /\ p \in FProcs /\ d0 \in Fd /\ d1 \in Fd /\ d0 # d1 /\ f0 \in File /\ f1 \in File /\ f0 # f1
    /\ ofile[p][d0] = 0 /\ ofile[p][d1] = 0
    /\ ofile' = [ofile EXCEPT ![p][d0] = f0, ![p][d1] = f1]

LEMMA TwoFds ==
    ASSUME FtInv, NEW p, NEW d0, NEW d1, NEW f0, NEW f1, SetsTwo(p, d0, d1, f0, f1)
    PROVE  /\ ofile' \in [FProcs -> [Fd -> 0 .. NFILE]]
           /\ \A q \in FProcs \ {p} : ofile'[q] = ofile[q]
           /\ Grows(Holders(f0), Holders(f0)') /\ Grows(Holders(f1), Holders(f1)')
           /\ \A g \in File \ {f0, f1} : Holders(g)' = Holders(g)
<1>0. ofile \in [FProcs -> [Fd -> 0 .. NFILE]] /\ \A g \in File : g \in 0 .. NFILE /\ g # 0
    BY FileTableAssumption DEF FtInv, FtTypeOK, File
<1>a. /\ p \in FProcs /\ d0 \in Fd /\ d1 \in Fd /\ d0 # d1 /\ f0 \in File /\ f1 \in File /\ f0 # f1
      /\ ofile[p][d0] = 0 /\ ofile[p][d1] = 0
    BY Zenon DEF SetsTwo
<1> DEFINE t == [[ofile[p] EXCEPT ![d0] = f0] EXCEPT ![d1] = f1]
<1>1. ofile' = [ofile EXCEPT ![p] = t]
    BY Zenon, <1>0 DEF SetsTwo
<1>2. t \in [Fd -> 0 .. NFILE] /\ t[d0] = f0 /\ t[d1] = f1 /\ \A e \in Fd \ {d0, d1} : t[e] = ofile[p][e]
    BY Zenon, <1>0, <1>a
<1> HIDE DEF t
<1>3. /\ ofile' \in [FProcs -> [Fd -> 0 .. NFILE]] /\ ofile'[p] = t
      /\ \A q \in FProcs \ {p} : ofile'[q] = ofile[q]
    BY Zenon, <1>0, <1>1, <1>2, <1>a
<1>4. \A g \in File, q \in FProcs, e \in Fd :
         ofile'[q][e] = g <=> \/ ofile[q][e] = g
                              \/ q = p /\ e = d0 /\ g = f0
                              \/ q = p /\ e = d1 /\ g = f1
    BY Zenon, <1>0, <1>2, <1>3, <1>a
<1>5. \A g \in File : Holders(g)' = Holders(g) \cup {x \in FProcs \X Fd : \/ x = <<p, d0>> /\ g = f0
                                                                          \/ x = <<p, d1>> /\ g = f1}
  <2> SUFFICES ASSUME NEW g \in File, NEW x \in FProcs \X Fd
               PROVE  ofile'[x[1]][x[2]] = g
                       <=> ofile[x[1]][x[2]] = g \/ (x = <<p, d0>> /\ g = f0) \/ (x = <<p, d1>> /\ g = f1)
    BY DEF Holders
  <2>1. x[1] \in FProcs /\ x[2] \in Fd /\ x = <<x[1], x[2]>>
    OBVIOUS
  <2> QED
    BY <2>1, <1>4, <1>a
<1>6. \A g \in File : <<p, d0>> \notin Holders(g) /\ <<p, d1>> \notin Holders(g)
    BY Zenon, <1>0, <1>a DEF Holders
<1>7. Holders(f0)' = Holders(f0) \cup {<<p, d0>>} /\ Holders(f1)' = Holders(f1) \cup {<<p, d1>>}
    BY <1>5, <1>a
<1>8. Grows(Holders(f0), Holders(f0)') /\ Grows(Holders(f1), Holders(f1)')
    BY Zenon, <1>6, <1>7, <1>a DEF Grows
<1>9. \A g \in File \ {f0, f1} : Holders(g)' = Holders(g)
    BY Zenon, <1>5
<1> QED
    BY Zenon, <1>3, <1>8, <1>9

Undoes(p, f0, f1) ==
    /\ p \in FProcs /\ closing[p] = <<>> /\ f0 \in File /\ f1 \in File /\ f0 # f1
    /\ closing' = [closing EXCEPT ![p] = << <<"close", f0>>, <<"close", f1>> >>]

LEMMA StartUndo ==
    ASSUME FtInv, NEW p, NEW f0, NEW f1, Undoes(p, f0, f1)
    PROVE  /\ closing' \in [FProcs -> Seq(Closes)]
           /\ \A q \in FProcs : Len(closing'[q]) <= 2 /\ (q # p => closing'[q] = closing[q])
           /\ Grows(Closing(f0), Closing(f0)') /\ Grows(Closing(f1), Closing(f1)')
           /\ \A g \in File \ {f0, f1} : Closing(g)' = Closing(g)
<1>0. closing \in [FProcs -> Seq(Closes)] /\ \A q \in FProcs : Len(closing[q]) <= 2
    BY Zenon DEF FtInv, FtTypeOK, CallsInv
<1>a. p \in FProcs /\ closing[p] = <<>> /\ f0 \in File /\ f1 \in File /\ f0 # f1
    BY Zenon DEF Undoes
<1> DEFINE e == <<"close", f1>>
           s == << <<"close", f0>>, e>>
<1>1. s \in Seq(Closes) /\ Len(s) = 2 /\ e # <<"close", f0>>
    BY <1>a DEF Closes
<1>2. /\ closing' \in [FProcs -> Seq(Closes)] /\ closing'[p] = s
      /\ \A q \in FProcs \ {p} : closing'[q] = closing[q]
  <2> HIDE DEF s
  <2>1. closing' = [closing EXCEPT ![p] = s]
    BY Zenon DEF s, Undoes
  <2> QED
    BY Zenon, <2>1, <1>0, <1>1, <1>a
<1>3. StartsTwo(closing, closing', p, f0, e)
    BY Zenon, <1>1, <1>2, <1>a DEF Starts, StartsTwo
<1>4. \A g : e = <<"close", g>> <=> g = f1
    BY Zenon
<1> HIDE DEF e, s
<1>5. \A g : /\ g = f0 => ClosingOf(closing', g) = ClosingOf(closing, g) \cup {<<p, 1>>}
             /\ g # f0 /\ e = <<"close", g>> => ClosingOf(closing', g) = ClosingOf(closing, g) \cup {<<p, 0>>}
             /\ g # f0 /\ e # <<"close", g>> => ClosingOf(closing', g) = ClosingOf(closing, g)
             /\ <<p, 0>> \notin ClosingOf(closing, g) /\ <<p, 1>> \notin ClosingOf(closing, g)
  <2> SUFFICES ASSUME NEW g
               PROVE  /\ g = f0 => ClosingOf(closing', g) = ClosingOf(closing, g) \cup {<<p, 1>>}
                      /\ g # f0 /\ e = <<"close", g>> => ClosingOf(closing', g) = ClosingOf(closing, g) \cup {<<p, 0>>}
                      /\ g # f0 /\ e # <<"close", g>> => ClosingOf(closing', g) = ClosingOf(closing, g)
                      /\ <<p, 0>> \notin ClosingOf(closing, g) /\ <<p, 1>> \notin ClosingOf(closing, g)
    BY Zenon
  <2> QED
    BY Zenon, <1>3, StartTwo
<1>6. /\ Closing(f0)' = Closing(f0) \cup {<<p, 1>>} /\ <<p, 1>> \notin Closing(f0)
      /\ Closing(f1)' = Closing(f1) \cup {<<p, 0>>} /\ <<p, 0>> \notin Closing(f1)
      /\ \A g \in File \ {f0, f1} : Closing(g)' = Closing(g)
    BY Zenon, <1>4, <1>5, <1>a, ClosingIs
<1>7. Grows(Closing(f0), Closing(f0)') /\ Grows(Closing(f1), Closing(f1)')
    BY Zenon, <1>6 DEF Grows
<1>8. \A q \in FProcs : Len(closing'[q]) <= 2 /\ (q # p => closing'[q] = closing[q])
  <2>1. Len(closing'[p]) <= 2
    <3>1. Len(closing'[p]) = 2
      BY Zenon, <1>1, <1>2
    <3> QED
      BY <3>1
  <2> QED
    BY Zenon, <2>1, <1>0, <1>2
<1> QED
    BY Zenon, <1>2, <1>6, <1>7, <1>8

LEMMA PipeallocPreserves ==
    ASSUME FtInv, NEW p \in FProcs, NEW q \in PipePages, pipealloc(p, q)
    PROVE  FtInv'
<1>0. FtTypeOK /\ CallsInv /\ UNCHANGED fstate /\ half' = [half EXCEPT ![p] = 0]
    BY Zenon DEF FtInv, pipealloc
<1>1. PICK f0, f1 : /\ f0 = half[p] /\ f0 # 0 /\ f1 \in File /\ ftable[f1].ref = 0
                    /\ ftable' = [ftable EXCEPT ![f0] = PipeEnd(q, 0), ![f1] = PipeEnd(q, 1)]
                    /\ IF Cardinality(FreeFds(p)) >= 2
                       THEN /\ \E d0 \in Lowest(FreeFds(p)) : \E d1 \in Lowest(FreeFds(p) \ {d0}) :
                                  ofile' = [ofile EXCEPT ![p][d0] = f0, ![p][d1] = f1]
                            /\ UNCHANGED closing
                       ELSE /\ closing' = [closing EXCEPT ![p] = PipeUndo(f0, f1)]
                            /\ UNCHANGED ofile
    BY Zenon DEF pipealloc, Lowest, FreeFiles
<1>2. closing[p] = <<>> /\ ftable[f0].ref = 1 /\ fstate[p] = "running"
    BY Zenon, <1>0, <1>1 DEF CallsInv
<1>3. /\ f0 \in File /\ half' \in [FProcs -> 0 .. NFILE] /\ half'[p] = 0
      /\ \A c \in FProcs \ {p} : half'[c] = half[c] /\ half[c] # f0
      /\ Shrinks(InFlight(f0), InFlight(f0)')
      /\ \A g \in File \ {f0} : InFlight(g)' = InFlight(g)
  <2>1. LetsGo(p, f0)
    BY Zenon, <1>0, <1>1 DEF LetsGo
  <2> QED
    BY Zenon, <2>1, HalfGone
<1>4. f0 # f1
    BY <1>1, <1>2
<1>5. /\ ftable' \in [File -> FileRec] /\ ftable'[f0].ref = 1 /\ ftable'[f1].ref = 1
      /\ \A g \in File \ {f0, f1} : ftable'[g] = ftable[g]
  <2>1. PipeEnd(q, 0) \in FileRec /\ PipeEnd(q, 1) \in FileRec /\ PipeEnd(q, 0).ref = 1 /\ PipeEnd(q, 1).ref = 1
    BY DEF PipeEnd, FileRec
  <2> QED
    BY Zenon, <2>1, <1>0, <1>1, <1>3, <1>4 DEF FtTypeOK
<1>6. \A c \in FProcs : half'[c] # 0 => half'[c] \in File /\ half'[c] # f0 /\ half'[c] # f1 /\ half'[c] = half[c] /\ c # p
    BY <1>1, <1>3, HalfAlone
<1>7. CASE Cardinality(FreeFds(p)) >= 2
  <2>1. PICK d0, d1 : SetsTwo(p, d0, d1, f0, f1)
    BY Zenon, <1>1, <1>3, <1>4, <1>7 DEF SetsTwo, Lowest, FreeFds
  <2>2. /\ ofile' \in [FProcs -> [Fd -> 0 .. NFILE]]
        /\ \A c \in FProcs \ {p} : ofile'[c] = ofile[c]
        /\ Grows(Holders(f0), Holders(f0)') /\ Grows(Holders(f1), Holders(f1)')
        /\ \A g \in File \ {f0, f1} : Holders(g)' = Holders(g)
    BY SMTT(30), <2>1, TwoFds
  <2>3. UNCHANGED closing /\ \A g : Closing(g)' = Closing(g)
    BY Zenon, <1>1, <1>7, ClosingIs
  <2>4. FtTypeOK'
    BY Zenon, <1>0, <1>3, <1>5, <2>2, <2>3 DEF FtTypeOK
  <2>5. CallsInv'
    BY <1>0, <1>2, <1>5, <1>6, <2>2, <2>3 DEF CallsInv
  <2>6. HasDelta(f0)
    <3>1. /\ Changes(Holders(f0), Holders(f0)', 1) /\ Changes(InFlight(f0), InFlight(f0)', -1)
          /\ Changes(Closing(f0), Closing(f0)', 0)
      BY Zenon, <1>3, <2>2, <2>3 DEF Changes
    <3>2. ftable'[f0].ref = ftable[f0].ref + 1 + (-1) + 0
      BY <1>2, <1>5
    <3> QED
      BY Zenon, <3>1, <3>2, <1>3, DeltaOf
  <2>7. HasDelta(f1)
    <3>1. /\ Changes(Holders(f1), Holders(f1)', 1) /\ Changes(InFlight(f1), InFlight(f1)', 0)
          /\ Changes(Closing(f1), Closing(f1)', 0)
      BY Zenon, <1>1, <1>3, <1>4, <2>2, <2>3 DEF Changes
    <3>2. ftable'[f1].ref = ftable[f1].ref + 1 + 0 + 0
      BY <1>1, <1>5
    <3> QED
      BY Zenon, <3>1, <3>2, <1>1, DeltaOf
  <2>8. \A g \in File \ {f0, f1} : HasDelta(g)
    BY Zenon, <1>3, <1>5, <2>2, <2>3, SameCounts
  <2>9. FileRefsExact'
    BY Zenon, <2>6, <2>7, <2>8, ExactStep
  <2> QED
    BY Zenon, <2>4, <2>5, <2>9 DEF FtInv
<1>8. CASE ~ (Cardinality(FreeFds(p)) >= 2)
  <2>1. Undoes(p, f0, f1) /\ UNCHANGED ofile
    BY Zenon, <1>1, <1>2, <1>3, <1>4, <1>8 DEF Undoes, PipeUndo
  <2>2. /\ closing' \in [FProcs -> Seq(Closes)]
        /\ \A c \in FProcs : Len(closing'[c]) <= 2 /\ (c # p => closing'[c] = closing[c])
        /\ Grows(Closing(f0), Closing(f0)') /\ Grows(Closing(f1), Closing(f1)')
        /\ \A g \in File \ {f0, f1} : Closing(g)' = Closing(g)
    BY Zenon, <2>1, StartUndo
  <2>3. \A g : Holders(g)' = Holders(g)
    BY Zenon, <2>1 DEF Holders
  <2>4. FtTypeOK'
    BY Zenon, <1>0, <1>3, <1>5, <2>1, <2>2 DEF FtTypeOK
  <2>5. CallsInv'
    BY SMTT(30), <1>0, <1>2, <1>5, <1>6, <2>1, <2>2 DEF CallsInv
  <2>6. HasDelta(f0)
    <3>1. /\ Changes(Holders(f0), Holders(f0)', 0) /\ Changes(InFlight(f0), InFlight(f0)', -1)
          /\ Changes(Closing(f0), Closing(f0)', 1)
      BY Zenon, <1>3, <2>2, <2>3 DEF Changes
    <3>2. ftable'[f0].ref = ftable[f0].ref + 0 + (-1) + 1
      BY <1>2, <1>5
    <3> QED
      BY Zenon, <3>1, <3>2, <1>3, DeltaOf
  <2>7. HasDelta(f1)
    <3>1. /\ Changes(Holders(f1), Holders(f1)', 0) /\ Changes(InFlight(f1), InFlight(f1)', 0)
          /\ Changes(Closing(f1), Closing(f1)', 1)
      BY Zenon, <1>1, <1>3, <1>4, <2>2, <2>3 DEF Changes
    <3>2. ftable'[f1].ref = ftable[f1].ref + 0 + 0 + 1
      BY <1>1, <1>5
    <3> QED
      BY Zenon, <3>1, <3>2, <1>1, DeltaOf
  <2>8. \A g \in File \ {f0, f1} : HasDelta(g)
    BY Zenon, <1>3, <1>5, <2>2, <2>3, SameCounts
  <2>9. FileRefsExact'
    BY Zenon, <2>6, <2>7, <2>8, ExactStep
  <2> QED
    BY Zenon, <2>4, <2>5, <2>9 DEF FtInv
<1> QED
    BY Zenon, <1>7, <1>8

\* fork() copies the parent's table to a slot that has none.
LEMMA ForkPreserves ==
    ASSUME FtInv, NEW p \in FProcs, NEW c \in FProcs, fork(p, c)
    PROVE  FtInv'
<1> DEFINE F(g) == {d \in Fd : ofile[p][d] = g}
<1>0. /\ FtTypeOK /\ CallsInv /\ fstate[p] = "running" /\ fstate[c] = "unused" /\ half[c] = 0
      /\ ftable' = DupAll(p) /\ ofile' = [ofile EXCEPT ![c] = ofile[p]]
      /\ fstate' = [fstate EXCEPT ![c] = "running"] /\ UNCHANGED <<half, closing>>
    BY Zenon DEF FtInv, fork, InUser, CallsInv
<1>1. c # p /\ (\A d \in Fd : ofile[c][d] = 0) /\ \A g \in File : g # 0
    BY <1>0, FileTableAssumption DEF CallsInv, File
<1>2. \A g : F(g) \subseteq Fd /\ IsFiniteSet(F(g)) /\ Cardinality(F(g)) \in Nat
  <2>1. IsFiniteSet(Fd)
    <3>1. NOFILE - 1 \in Int /\ 0 \in Int
      BY FileTableAssumption
    <3> QED
      BY Zenon, <3>1, FS_Interval DEF Fd
  <2>2. \A g : F(g) \subseteq Fd
    BY Zenon
  <2> QED
    BY Zenon, <2>1, <2>2, FS_Subset, FS_CardinalityType
<1>3. /\ ftable' \in [File -> FileRec]
      /\ \A g \in File : ftable'[g].ref = ftable[g].ref + Cardinality(F(g))
  <2>1. \A g \in File : ftable[g] \in FileRec /\ ftable[g].ref + Cardinality(F(g)) \in Nat
    <3>1. \A g \in File : ftable[g] \in FileRec /\ ftable[g].ref \in Nat
      BY Zenon, <1>0 DEF FtTypeOK, FileRec
    <3> HIDE DEF F
    <3> QED
      BY <3>1, <1>2
  <2> DEFINE R(g) == [ftable[g] EXCEPT !.ref = ftable[g].ref + Cardinality(F(g))]
  <2>2. \A g \in File : R(g) \in FileRec /\ R(g).ref = ftable[g].ref + Cardinality(F(g))
    BY Zenon, <2>1, RefTyped
  <2>3. ftable' = [g \in File |-> R(g)]
    BY Zenon, <1>0 DEF DupAll
  <2> HIDE DEF R
  <2> QED
    BY Zenon, <2>2, <2>3
<1>4. /\ ofile' \in [FProcs -> [Fd -> 0 .. NFILE]] /\ ofile'[c] = ofile[p]
      /\ \A q \in FProcs \ {c} : ofile'[q] = ofile[q]
    BY Zenon, <1>0 DEF FtTypeOK
<1>5. \A g \in File : Holders(g)' = Holders(g) \cup ({c} \X F(g)) /\ Holders(g) \cap ({c} \X F(g)) = {}
    BY <1>1, <1>4 DEF Holders
<1>6. \A g : InFlight(g)' = InFlight(g) /\ Closing(g)' = Closing(g)
    BY Zenon, <1>0, ClosingIs DEF InFlight
<1>7. FtTypeOK'
    BY Zenon, <1>0, <1>3, <1>4 DEF FtTypeOK
<1>8. CallsInv'
  <2>1. \A q \in FProcs : half[q] # 0 => half[q] \in File /\ Holders(half[q]) = {} /\ ftable[half[q]].ref = 1
    BY Zenon, HalfAlone
  <2>2. \A g \in File : Holders(g) = {} => F(g) = {}
    <3> SUFFICES ASSUME NEW g \in File, NEW d \in Fd, ofile[p][d] = g
                 PROVE  Holders(g) # {}
      BY Zenon
    <3>1. <<p, d>> \in Holders(g)
      BY Zenon DEF Holders
    <3> QED
      BY Zenon, <3>1
  <2>3. Cardinality({}) = 0
    BY Zenon, FS_EmptySet
  <2> HIDE DEF F
  <2>4. \A q \in FProcs : half[q] # 0 => ftable'[half[q]].ref = 1
    <3> SUFFICES ASSUME NEW q \in FProcs, half[q] # 0
                 PROVE  ftable'[half[q]].ref = 1
      BY Zenon
    <3>1. PICK g \in File : g = half[q] /\ Holders(g) = {} /\ ftable[g].ref = 1
      BY Zenon, <2>1
    <3>2. Cardinality(F(g)) = 0
      BY Zenon, <3>1, <2>2, <2>3
    <3>3. ftable'[g].ref = ftable[g].ref + Cardinality(F(g))
      BY Zenon, <1>3
    <3> QED
      BY <3>1, <3>2, <3>3
  <2>5. \A q \in FProcs : half[q] # 0 => q # c
    BY Zenon, <1>0
  <2>6. /\ \A q \in FProcs \ {c} : fstate'[q] = fstate[q] 
        /\ fstate'[c] = "running"
    BY Zenon, <1>0 DEF FtTypeOK
  <2> QED
    BY SMTT(30), <2>4, <2>5, <2>6, <1>0, <1>4 DEF CallsInv
<1>9. FileRefsExact'
  <2> SUFFICES ASSUME NEW g \in File
               PROVE  HasDelta(g)
    BY Zenon, ExactStep
  <2>1. /\ IsFiniteSet({c} \X F(g)) /\ Cardinality({c} \X F(g)) = Cardinality(F(g))
    <3>1. IsFiniteSet({c}) /\ Cardinality({c}) = 1
      BY Zenon, FS_Singleton
    <3>2. PICK G : G = F(g) /\ IsFiniteSet(G) /\ Cardinality(G) \in Nat
      BY Zenon, <1>2
    <3>3. IsFiniteSet({c} \X G) /\ Cardinality({c} \X G) = Cardinality({c}) * Cardinality(G)
      BY Zenon, <3>1, <3>2, FS_Product
    <3>4. Cardinality({c} \X G) = Cardinality(G)
      BY <3>1, <3>2, <3>3
    <3> QED
      BY Zenon, <3>2, <3>3, <3>4
  <2>2. /\ IsFiniteSet(Holders(g)) /\ Cardinality(Holders(g)) \in Nat
        /\ Cardinality(InFlight(g)) \in Nat /\ Cardinality(Closing(g)) \in Nat
    BY Zenon, <1>0, RefsFinite
  <2>3. Cardinality(Holders(g)') = Cardinality(Holders(g)) + Cardinality(F(g))
    <3>1. PICK X : X = {c} \X F(g)
      BY Zenon
    <3>2. /\ Holders(g)' = Holders(g) \cup X /\ Holders(g) \cap X = {}
          /\ IsFiniteSet(X) /\ Cardinality(X) = Cardinality(F(g))
      BY Zenon, <3>1, <2>1, <1>5
    <3>3. Cardinality(Holders(g) \cup X) = Cardinality(Holders(g)) + Cardinality(X) - Cardinality(Holders(g) \cap X)
      BY Zenon, <2>2, <3>2, FS_Union
    <3> HIDE DEF F
    <3>4. Cardinality(Holders(g) \cap X) = 0
      BY Zenon, <3>2, FS_EmptySet
    <3> QED
      BY <2>2, <3>2, <3>3, <3>4, <1>2
  <2> HIDE DEF F
  <2>4. PICK n \in Nat : n = Cardinality(F(g))
    BY Zenon, <1>2
  <2>5. Delta(g, n, 0, 0)
    <3>1. /\ Cardinality(InFlight(g)') = Cardinality(InFlight(g)) + 0
          /\ Cardinality(Closing(g)') = Cardinality(Closing(g)) + 0
      BY <2>2, <1>6
    <3>2. ftable'[g].ref = ftable[g].ref + n + 0 + 0
      BY <2>4, <1>0, <1>3 DEF FtTypeOK, FileRec
    <3> QED
      BY Zenon, <2>3, <2>4, <3>1, <3>2 DEF Delta
  <2> QED
    BY <2>5 DEF HasDelta
<1> QED
    BY Zenon, <1>7, <1>8, <1>9 DEF FtInv

-----------------------------------------------------------------------------
LEMMA FtInitInv == FtInit => FtInv
<1> SUFFICES ASSUME FtInit
             PROVE  FtInv
    BY Zenon
<1>1. FtTypeOK
  <2>1. NoFile \in FileRec
    BY DEF NoFile, FileRec
  <2>2. <<>> \in Seq(Closes)
    OBVIOUS
  <2>3. 0 \in 0 .. NFILE
    BY FileTableAssumption
  <2> QED
    BY Zenon, <2>1, <2>2, <2>3 DEF FtInit, FtTypeOK
<1>2. CallsInv
    BY DEF FtInit, CallsInv
<1>3. FileRefsExact
  <2> SUFFICES ASSUME NEW f \in File
               PROVE  ftable[f].ref = Cardinality(Holders(f)) + Cardinality(InFlight(f)) + Cardinality(Closing(f))
    BY Zenon DEF FileRefsExact
  <2>1. f # 0 /\ ftable[f].ref = 0
    BY FileTableAssumption DEF File, FtInit, NoFile
  <2>2. Holders(f) = {} /\ InFlight(f) = {}
    BY Zenon, <2>1 DEF FtInit, Holders, InFlight
  <2>3. Closing(f) = {}
    <3>1. \A q \in FProcs : PlacesOf(closing, f, q) = {}
      BY DEF FtInit, PlacesOf
    <3> QED
      BY <3>1, ClosingMember, ClosingIs
  <2> QED
    BY <2>1, <2>2, <2>3, FS_EmptySet
<1> QED
    BY Zenon, <1>1, <1>2, <1>3 DEF FtInv

LEMMA FtNextInv == FtInv /\ [FtNext]_ftVars => FtInv'
<1> SUFFICES ASSUME FtInv, [FtNext]_ftVars
             PROVE  FtInv'
    BY Zenon
<1>1. CASE UNCHANGED ftVars
  <2>1. UNCHANGED <<ftable, ofile, fstate, half, closing>>
    BY Zenon, <1>1 DEF ftVars
  <2>2. \A g : Holders(g)' = Holders(g) /\ InFlight(g)' = InFlight(g) /\ Closing(g)' = Closing(g)
    BY Zenon, <2>1, ClosingIs DEF Holders, InFlight
  <2>3. FileRefsExact'
    BY Zenon, <2>1, <2>2, SameCounts, ExactStep
  <2> QED
    BY Zenon, <2>1, <2>3 DEF FtInv, FtTypeOK, CallsInv
<1>2. CASE FtNext
  <2>1. PICK p \in FProcs :
            \/ \E i \in OpenInodes : sys_open(p, i) \/ sys_open_full(p, i)
            \/ \E d \in Fd : sys_dup(p, d) \/ sys_close(p, d)
            \/ fileclose(p) \/ fileclose_drop(p)
            \/ sys_pipe(p) \/ pipealloc_bad(p) \/ \E q \in PipePages : pipealloc(p, q)
            \/ \E c \in FProcs : fork(p, c)
            \/ exit(p) \/ exit_close(p)
    BY Zenon, <1>2 DEF FtNext
  <2> QED
    BY Zenon, <2>1, OpenPreserves, OpenFullPreserves, DupPreserves, ClosePreserves, FileclosePreserves,
       DropPreserves, PipePreserves, PipeBadPreserves, PipeallocPreserves, ForkPreserves,
       ExitPreserves, ExitClosePreserves
<1> QED
    BY Zenon, <1>1, <1>2

(* The count of every entry of ftable is the number of descriptors that    *)
(* name it and of references that system calls hold on the way, through    *)
(* open(), dup(), pipe(), fork(), exit() and fileclose() interleaved in    *)
(* any way, on tables of any size (file.c, sysfile.c).                     *)
THEOREM FileCounts == FtSpec => []FileRefsExact
<1>1. FtInv => FileRefsExact
    BY Zenon DEF FtInv
<1> QED
    BY <1>1, FtInitInv, FtNextInv, PTL DEF FtSpec
=============================================================================
