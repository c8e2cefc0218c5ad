----------------------------- MODULE RingProofs -----------------------------
(***************************************************************************)
(* The parts of the kernel that count modulo a power of two: pipes, the    *)
(* console's input ring and the clock, for any number of processes, any    *)
(* size of the buffers and any width of the counters that is a multiple.   *)
(*                                                                         *)
(* The counters wrap and so do the places of a buffer.  The proofs are     *)
(* about differences: the bytes in the pipe, the characters completed and  *)
(* typed, the ticks that passed.  They stay below the width, so that one   *)
(* counter and the difference determine the other.                         *)
(***************************************************************************)
EXTENDS Pipe, Console, Clock, SequenceTheorems, TLAPS

(* Arithmetic of the counters.                                             *)

LEMMA Division ==
    ASSUME NEW a \in Int, NEW n \in Nat \ {0}
    PROVE  a = n * (a \div n) + (a % n) /\ a % n \in 0 .. n - 1 /\ a \div n \in Int
    OBVIOUS

LEMMA Remainder ==
    ASSUME NEW n \in Nat \ {0}, NEW q \in Int, NEW u \in 0 .. n - 1
    PROVE  (n * q + u) % n = u
    OBVIOUS

\* A sum or a difference leaves a range by less than its length.
LEMMA OneTurn ==
    ASSUME NEW n \in Nat \ {0}, NEW x \in Int
    PROVE  /\ 0 <= x /\ x < n => x % n = x
           /\ n <= x /\ x < n + n => x % n = x - n
           /\ -n <= x /\ x < 0 => x % n = x + n
<1>1. 0 <= x /\ x < n => x % n = x
    OBVIOUS
<1>2. n <= x /\ x < n + n => x % n = x - n
    OBVIOUS
<1>3. -n <= x /\ x < 0 => x % n = x + n
    OBVIOUS
<1> QED
    BY Zenon, <1>1, <1>2, <1>3

LEMMA Congruent ==
    ASSUME NEW n \in Nat \ {0}, NEW a \in Int, NEW q \in Int
    PROVE  (a + n * q) % n = a % n
<1>1. a = n * (a \div n) + (a % n) /\ a % n \in 0 .. n - 1 /\ a \div n \in Int
    BY Zenon, Division
<1> DEFINE d == a \div n
           u == a % n
<1>2. d \in Int /\ u \in 0 .. n - 1 /\ a = n * d + u
    BY Zenon, <1>1
<1> HIDE DEF d, u
<1>3. a + n * q = n * (d + q) + u
    BY <1>2
<1>4. (n * (d + q) + u) % n = u
    BY <1>2, Remainder
<1> QED
    BY Zenon, <1>3, <1>4 DEF u

-----------------------------------------------------------------------------
(* Pipes.                                                                  *)

PipeTypeOK ==
    /\ data \in [0 .. PIPESIZE - 1 -> Data]
    /\ nread \in 0 .. UMax - 1 /\ nwrite \in 0 .. UMax - 1
    /\ readopen \in 0 .. 1 /\ writeopen \in 0 .. 1
    /\ ends \in [Procs -> SUBSET {"r", "w"}]
    /\ pc \in [Procs -> {"idle", "write", "sleep_nwrite", "asleep_nwrite",
                        "read", "sleep_nread", "asleep_nread"}]
    /\ todo \in [Procs -> Seq(Data)]
    /\ want \in [Procs -> Nat]
    /\ killed \in SUBSET Procs /\ unwoken \in SUBSET Procs

\* Who is in a call has the end for it, and an end somebody has is open.
EndsInv ==
    \A p \in Procs :
        /\ pc[p] \in {"write", "sleep_nwrite", "asleep_nwrite"} => "w" \in ends[p]
        /\ pc[p] \in {"read", "sleep_nread", "asleep_nread"} => "r" \in ends[p] /\ want[p] >= 1
        /\ "w" \in ends[p] => writeopen = 1
        /\ "r" \in ends[p] => readopen = 1

\* Who is on the way into sleep() holds p->lock, so what it has tested holds.
TestedInv ==
    \A p \in Procs :
        /\ pc[p] = "sleep_nwrite" => Full /\ readopen = 1
        /\ pc[p] = "sleep_nread" => Empty /\ writeopen = 1

PipeInv == PipeTypeOK /\ Count <= PIPESIZE /\ EndsInv /\ TestedInv /\ SleepersHaveReason

-----------------------------------------------------------------------------
(* The counters of a pipe.                                                 *)

\* The number of bytes between two counters, and the counters that are a
\* number of bytes further on.
Bytes(u, v) == UInt(v - u)

LEMMA Sizes == PIPESIZE \in Nat \ {0} /\ UMax \in Nat \ {0} /\ PIPESIZE < UMax
    BY PipeAssumption

LEMMA Multiple == \E m \in Int : UMax = PIPESIZE * m
<1>1. UMax \div PIPESIZE \in Int /\ UMax = PIPESIZE * (UMax \div PIPESIZE) + (UMax % PIPESIZE)
    BY Sizes, Division
<1>2. UMax = PIPESIZE * (UMax \div PIPESIZE)
    BY <1>1, Sizes, PipeAssumption
<1> QED
    BY Zenon, <1>1, <1>2

LEMMA Wrap ==
    /\ \A x \in 0 .. UMax - 1 : UInt(x) = x
    /\ \A x \in Int : UMax <= x /\ x < UMax + UMax => UInt(x) = x - UMax
    /\ \A x \in Int : -UMax <= x /\ x < 0 => UInt(x) = x + UMax
<1> SUFFICES ASSUME NEW x \in Int
             PROVE  /\ 0 <= x /\ x < UMax => UInt(x) = x
                    /\ UMax <= x /\ x < UMax + UMax => UInt(x) = x - UMax
                    /\ -UMax <= x /\ x < 0 => UInt(x) = x + UMax
    BY Sizes
<1>1. UMax \in Nat \ {0}
    BY Zenon, Sizes
<1>2. UInt(x) = x % UMax
    BY Zenon DEF UInt
<1> QED
    BY Zenon, <1>1, <1>2, OneTurn

LEMMA BytesIs ==
    \A u, v \in 0 .. UMax - 1 : Bytes(u, v) = IF v >= u THEN v - u ELSE v - u + UMax
    BY Sizes, Wrap DEF Bytes

LEMMA Counters ==
    ASSUME NEW u \in 0 .. UMax - 1, NEW v \in 0 .. UMax - 1
    PROVE  /\ Bytes(u, v) \in 0 .. UMax - 1
           /\ v = UInt(u + Bytes(u, v))
           /\ Bytes(u, v) = 0 <=> u = v
    BY Sizes, Wrap, BytesIs

LEMMA FullIs ==
    ASSUME NEW u \in 0 .. UMax - 1, NEW v \in 0 .. UMax - 1
    PROVE  v = UInt(u + PIPESIZE) <=> Bytes(u, v) = PIPESIZE
    BY Sizes, Wrap, BytesIs

LEMMA Writing ==
    ASSUME NEW u \in 0 .. UMax - 1, NEW v \in 0 .. UMax - 1, NEW k \in Nat, Bytes(u, v) + k < UMax
    PROVE  UInt(v + k) \in 0 .. UMax - 1 /\ Bytes(u, UInt(v + k)) = Bytes(u, v) + k
    BY Sizes, Wrap, BytesIs

LEMMA Reading ==
    ASSUME NEW u \in 0 .. UMax - 1, NEW v \in 0 .. UMax - 1, NEW k \in 0 .. Bytes(u, v)
    PROVE  UInt(u + k) \in 0 .. UMax - 1 /\ Bytes(UInt(u + k), v) = Bytes(u, v) - k
    BY Sizes, Wrap, BytesIs

\* A counter that wrapped still names the same place of the buffer.
LEMMA Places ==
    ASSUME NEW u \in 0 .. UMax - 1, NEW n \in 0 .. UMax - 1, NEW x \in Int
    PROVE  (UInt(u + n) + x) % PIPESIZE = (u + n + x) % PIPESIZE
<1>1. PICK m \in Int : UMax = PIPESIZE * m
    BY Zenon, Multiple
<1>2. UInt(u + n) = u + n \/ UInt(u + n) = u + n - UMax
    BY Sizes, Wrap
<1>3. CASE UInt(u + n) = u + n - UMax
  <2> DEFINE y == u + n + x
             q == -m
  <2>1. y \in Int /\ q \in Int /\ UInt(u + n) + x = y + PIPESIZE * q
    BY <1>1, <1>3, Sizes
  <2>2. (y + PIPESIZE * q) % PIPESIZE = y % PIPESIZE
    <3> HIDE DEF y, q
    <3> QED  BY Zenon, <2>1, Congruent, Sizes
  <2> QED
    BY Zenon, <2>1, <2>2
<1> QED
    BY Zenon, <1>2, <1>3

-----------------------------------------------------------------------------
(* The ring as a queue.                                                    *)

Ring(d, u, n) == [j \in 1 .. n |-> d[(u + j - 1) % PIPESIZE]]
Stored(d, v, s, k) == [i \in DOMAIN d |-> LET j == (i - v) % PIPESIZE
                                          IN  IF j < k THEN s[j + 1] ELSE d[i]]
Prefix(s, k) == [j \in 1 .. k |-> s[j]]

\* How far a place of the ring is from the one to be written next.
LEMMA Distance ==
    ASSUME NEW u \in 0 .. UMax - 1, NEW n \in 0 .. PIPESIZE, NEW j \in 1 .. PIPESIZE
    PROVE  /\ (u + j - 1) % PIPESIZE \in 0 .. PIPESIZE - 1
           /\ (((u + j - 1) % PIPESIZE) - UInt(u + n)) % PIPESIZE
                = IF j <= n THEN j - 1 - n + PIPESIZE ELSE j - 1 - n
<1> DEFINE x == u + j - 1
           i == x % PIPESIZE
           a == x \div PIPESIZE
           v == UInt(u + n)
<1>1. x \in Int /\ i \in 0 .. PIPESIZE - 1 /\ a \in Int /\ x = PIPESIZE * a + i
    BY Division, Sizes
<1>2. PICK b \in Int : v = u + n + PIPESIZE * b
  <2>1. PICK m \in Int : UMax = PIPESIZE * m
    BY Zenon, Multiple
  <2>2. v = u + n + PIPESIZE * 0 \/ v = u + n + PIPESIZE * (-m)
    BY <2>1, Sizes, Wrap
  <2> QED
    BY <2>1, <2>2
<1>3. i - v = (j - 1 - n) + PIPESIZE * (-(a + b))
  <2> HIDE DEF i, a, v
  <2> QED
    BY <1>1, <1>2, Sizes
<1>4. ((j - 1 - n) + PIPESIZE * (-(a + b))) % PIPESIZE = (j - 1 - n) % PIPESIZE
  <2> DEFINE y == j - 1 - n
             q == -(a + b)
  <2>1. y \in Int /\ q \in Int
    BY <1>1, Sizes
  <2> HIDE DEF y, q
  <2> QED
    BY Zenon, <2>1, Congruent, Sizes DEF y, q
<1>5. (j - 1 - n) % PIPESIZE = IF j <= n THEN j - 1 - n + PIPESIZE ELSE j - 1 - n
  <2> DEFINE y == j - 1 - n
  <2>1. y \in Int /\ -PIPESIZE <= y /\ y < PIPESIZE /\ (y < 0 <=> j <= n)
    BY Sizes
  <2> HIDE DEF y
  <2>2. /\ 0 <= y /\ y < PIPESIZE => y % PIPESIZE = y
        /\ -PIPESIZE <= y /\ y < 0 => y % PIPESIZE = y + PIPESIZE
    BY Zenon, <2>1, Sizes, OneTurn
  <2>3. y % PIPESIZE = IF j <= n THEN y + PIPESIZE ELSE y
    BY <2>1, <2>2
  <2> QED
    BY Zenon, <2>3 DEF y
<1> HIDE DEF i, a, v
<1>6. (i - v) % PIPESIZE = IF j <= n THEN j - 1 - n + PIPESIZE ELSE j - 1 - n
    BY Zenon, <1>3, <1>4, <1>5
<1> QED
    BY Zenon, <1>1, <1>6 DEF i, v

LEMMA RingIsSeq ==
    ASSUME NEW d \in [0 .. PIPESIZE - 1 -> Data], NEW u \in 0 .. UMax - 1, NEW n \in 0 .. PIPESIZE
    PROVE  Ring(d, u, n) \in Seq(Data) /\ Len(Ring(d, u, n)) = n
<1>1. \A j \in 1 .. n : (u + j - 1) % PIPESIZE \in 0 .. PIPESIZE - 1
    BY Distance, Sizes
<1> QED
    BY <1>1, Sizes DEF Ring

\* Bytes stored from nwrite on come after those that are there.
LEMMA RingPut ==
    ASSUME NEW d \in [0 .. PIPESIZE - 1 -> Data], NEW u \in 0 .. UMax - 1, NEW n \in Nat,
           NEW s \in Seq(Data), NEW k \in 0 .. Len(s), n + k <= PIPESIZE
    PROVE  /\ Stored(d, UInt(u + n), s, k) \in [0 .. PIPESIZE - 1 -> Data]
           /\ Ring(Stored(d, UInt(u + n), s, k), u, n + k) = Ring(d, u, n) \o Prefix(s, k)
<1> DEFINE v == UInt(u + n)
           f == Stored(d, v, s, k)
           Q == Ring(d, u, n)
           t == Prefix(s, k)
<1>0. n \in 0 .. PIPESIZE /\ k \in 0 .. PIPESIZE /\ PIPESIZE \in Nat
    BY Sizes
<1>1. f \in [0 .. PIPESIZE - 1 -> Data]
  <2>1. ASSUME NEW i \in 0 .. PIPESIZE - 1, (i - v) % PIPESIZE < k PROVE s[((i - v) % PIPESIZE) + 1] \in Data
    <3>1. v \in Int /\ i - v \in Int
        BY Wrap, Sizes, <1>0
    <3>2. (i - v) % PIPESIZE \in 0 .. PIPESIZE - 1
        BY Zenon, <3>1, Division, Sizes
    <3> QED
        BY <2>1, <3>2, <1>0
  <2> QED
    BY Zenon, <2>1 DEF Stored
<1>2. ASSUME NEW j \in 1 .. n + k PROVE f[(u + j - 1) % PIPESIZE] = IF j <= n THEN Q[j] ELSE t[j - n]
  <2> DEFINE i == (u + j - 1) % PIPESIZE
  <2>1. i \in 0 .. PIPESIZE - 1 /\ (i - v) % PIPESIZE = IF j <= n THEN j - 1 - n + PIPESIZE ELSE j - 1 - n
    <3>1. j \in 1 .. PIPESIZE
        BY <1>0
    <3> QED
        BY Zenon, <3>1, <1>0, Distance
  <2> HIDE DEF i, v
  <2>2. f[i] = IF (i - v) % PIPESIZE < k THEN s[((i - v) % PIPESIZE) + 1] ELSE d[i]
    BY Zenon, <2>1 DEF Stored
  <2>3. CASE j <= n
    <3>1. ~((i - v) % PIPESIZE < k)
        BY <2>1, <2>3, <1>0
    <3>2. Q[j] = d[i]
        BY <2>3, <1>0 DEF Ring, i
    <3> QED
        BY Zenon, <2>2, <2>3, <3>1, <3>2 DEF i
  <2>4. CASE j > n
    <3>1. (i - v) % PIPESIZE < k /\ ((i - v) % PIPESIZE) + 1 = j - n
        BY <2>1, <2>4, <1>0
    <3>2. t[j - n] = s[j - n]
        BY <2>4, <1>0 DEF Prefix
    <3> QED
        BY <2>2, <2>4, <3>1, <3>2, <1>0 DEF i
  <2> QED
    BY <2>3, <2>4, <1>0
<1>3. Q \in Seq(Data) /\ Len(Q) = n /\ t \in Seq(Data) /\ Len(t) = k
    BY RingIsSeq, <1>0 DEF Prefix
<1>4. Ring(f, u, n + k) \in Seq(Data) /\ Len(Ring(f, u, n + k)) = n + k
    BY RingIsSeq, <1>0, <1>1
<1>5. \A j \in 1 .. n + k : Ring(f, u, n + k)[j] = IF j <= n THEN Q[j] ELSE t[j - n]
  <2> HIDE DEF f, Q, t
  <2> QED
    BY Zenon, <1>2 DEF Ring
<1>6. Ring(f, u, n + k) = Q \o t
  <2> HIDE DEF f, Q, t
  <2>1. /\ Q \o t \in Seq(Data) /\ Len(Q \o t) = n + k
        /\ \A j \in 1 .. n + k : (Q \o t)[j] = IF j <= n THEN Q[j] ELSE t[j - n]
    BY Zenon, <1>3, ConcatProperties
  <2> QED
    BY Zenon, <1>4, <1>5, <2>1, SeqEqual
<1> QED
    BY Zenon, <1>1, <1>6

\* Bytes taken from nread on leave the others in order.
LEMMA RingGet ==
    ASSUME NEW d \in [0 .. PIPESIZE - 1 -> Data], NEW u \in 0 .. UMax - 1,
           NEW n \in 0 .. PIPESIZE, NEW k \in 0 .. n
    PROVE  /\ Ring(d, u, k) = SubSeq(Ring(d, u, n), 1, k)
           /\ Ring(d, UInt(u + k), n - k) = SubSeq(Ring(d, u, n), k + 1, n)
<1> DEFINE Q == Ring(d, u, n)
           A == Ring(d, u, k)
           B == Ring(d, UInt(u + k), n - k)
<1>0. UInt(u + k) \in 0 .. UMax - 1 /\ n - k \in 0 .. PIPESIZE /\ k \in 0 .. UMax - 1
    BY Wrap, Sizes
<1>1. /\ Q \in Seq(Data) /\ Len(Q) = n /\ A \in Seq(Data) /\ Len(A) = k
      /\ B \in Seq(Data) /\ Len(B) = n - k
  <2>1. k \in 0 .. PIPESIZE
    BY Sizes
  <2> QED
    BY Zenon, <2>1, <1>0, RingIsSeq
<1>2. \A j \in 1 .. k : A[j] = Q[j]
    BY DEF Ring
<1>3. ASSUME NEW j \in 1 .. n - k PROVE B[j] = Q[k + j]
  <2>1. (UInt(u + k) + (j - 1)) % PIPESIZE = (u + k + (j - 1)) % PIPESIZE
    BY <1>0, Places
  <2>2. B[j] = d[(UInt(u + k) + j - 1) % PIPESIZE] /\ Q[k + j] = d[(u + (k + j) - 1) % PIPESIZE]
    BY <1>0 DEF Ring
  <2>3. UInt(u + k) + j - 1 = UInt(u + k) + (j - 1) /\ u + (k + j) - 1 = u + k + (j - 1)
    BY <1>0
  <2> QED
    BY Zenon, <2>1, <2>2, <2>3
<1> HIDE DEF Q, A, B
<1>4. /\ SubSeq(Q, 1, k) \in Seq(Data) /\ Len(SubSeq(Q, 1, k)) = k
      /\ \A j \in 1 .. k : SubSeq(Q, 1, k)[j] = Q[j]
    BY <1>1, SubSeqProperties
<1>5. /\ SubSeq(Q, k + 1, n) \in Seq(Data) /\ Len(SubSeq(Q, k + 1, n)) = n - k
      /\ \A j \in 1 .. n - k : SubSeq(Q, k + 1, n)[j] = Q[k + j]
    BY <1>1, <1>0, SubSeqProperties
<1>6. A = SubSeq(Q, 1, k)
    BY Zenon, <1>1, <1>2, <1>4, SeqEqual
<1>7. B = SubSeq(Q, k + 1, n)
  <2>1. \A j \in 1 .. Len(B) : B[j] = SubSeq(Q, k + 1, n)[j]
    BY Zenon, <1>1, <1>3, <1>5
  <2>2. Len(B) = Len(SubSeq(Q, k + 1, n))
    BY Zenon, <1>1, <1>5
  <2> QED
    BY Zenon, <1>1, <1>5, <2>1, <2>2, SeqEqual
<1> QED
    BY Zenon, <1>6, <1>7 DEF Q, A, B

-----------------------------------------------------------------------------
(* The state of the pipe.                                                  *)

LEMMA Facts ==
    ASSUME PipeInv
    PROVE  /\ Count = Bytes(nread, nwrite) /\ Count \in 0 .. PIPESIZE /\ PIPESIZE \in Nat
           /\ nwrite = UInt(nread + Count)
           /\ Queue = Ring(data, nread, Count) /\ Queue \in Seq(Data) /\ Len(Queue) = Count
           /\ Empty <=> Count = 0
           /\ Full <=> Count = PIPESIZE
<1>1. nread \in 0 .. UMax - 1 /\ nwrite \in 0 .. UMax - 1 /\ data \in [0 .. PIPESIZE - 1 -> Data]
    BY Zenon DEF PipeInv, PipeTypeOK
<1>2. Count = Bytes(nread, nwrite) /\ Queue = Ring(data, nread, Count)
    BY Zenon DEF Count, Bytes, Queue, Ring
<1>3. Count \in 0 .. PIPESIZE /\ nwrite = UInt(nread + Count) /\ (Empty <=> Count = 0)
  <2>1. /\ Bytes(nread, nwrite) \in 0 .. UMax - 1 /\ nwrite = UInt(nread + Bytes(nread, nwrite))
        /\ Bytes(nread, nwrite) = 0 <=> nread = nwrite
    BY Zenon, <1>1, Counters
  <2>2. Count <= PIPESIZE
    BY Zenon DEF PipeInv
  <2> QED
    BY <2>1, <2>2, <1>2, Sizes DEF Empty
<1>4. Queue \in Seq(Data) /\ Len(Queue) = Count
    BY Zenon, <1>1, <1>2, <1>3, RingIsSeq
<1>5. Full <=> Count = PIPESIZE
    BY Zenon, <1>1, <1>2, FullIs DEF Full
<1> QED
    BY Zenon, <1>2, <1>3, <1>4, <1>5, Sizes

\* The same about the next state, of which less is known so far.
LEMMA FactsNext ==
    ASSUME nread' \in 0 .. UMax - 1, nwrite' \in 0 .. UMax - 1
    PROVE  /\ Count' = Bytes(nread', nwrite')
           /\ Queue' = Ring(data', nread', Count')
           /\ Empty' <=> Count' = 0
           /\ Full' <=> Count' = PIPESIZE
<1>1. Count' = Bytes(nread', nwrite') /\ Queue' = Ring(data', nread', Count')
    BY Zenon DEF Count, Bytes, UInt, Queue, Ring
<1>2. Empty' <=> Count' = 0
    BY Zenon, <1>1, Counters DEF Empty
<1>3. Full' <=> nwrite' = UInt(nread' + PIPESIZE)
    BY Zenon DEF Full, UInt
<1> QED
    BY Zenon, <1>1, <1>2, <1>3, FullIs

LEMMA Keeps_pipewrite ==
    ASSUME PipeInv, NEW p \in Procs, pipewrite(p)
    PROVE  PipeInv' /\ [BS!Next]_BS!vars
<1> DEFINE n == Count
           len == Len(todo[p])
           k == Lesser(len, PIPESIZE - Count)
           rest == SubSeq(todo[p], k + 1, len)
           quit == rest # <<>> /\ (readopen = 0 \/ p \in killed)
           stay == [pc EXCEPT ![p] = IF rest = <<>> THEN "idle" ELSE "sleep_nwrite"]
<1>1. /\ n \in 0 .. PIPESIZE /\ len \in Nat /\ k \in 0 .. len /\ n + k <= PIPESIZE
      /\ k = len \/ n + k = PIPESIZE
      /\ todo[p] \in Seq(Data) /\ PIPESIZE \in Nat
    BY Facts DEF PipeInv, PipeTypeOK, Lesser
<1>2. rest \in Seq(Data) /\ (rest # <<>> => n + k = PIPESIZE)
  <2>1. rest \in Seq(Data)
    BY <1>1, SubSeqProperties
  <2>2. k = len => rest = <<>>
    BY <1>1, SubSeqEmpty
  <2> QED
    BY Zenon, <2>1, <2>2, <1>1
<1>3. /\ pc[p] = "write" /\ Unlocked /\ data' = Stored(data, nwrite, todo[p], k) /\ nwrite' = UInt(nwrite + k)
      /\ pc' = IF quit THEN [pc EXCEPT ![p] = "idle"] ELSE WakeReaders(stay)
      /\ todo' = [todo EXCEPT ![p] = IF quit THEN <<>> ELSE rest]
      /\ unwoken' = IF quit THEN ReadersAsleep(pc) ELSE {}
      /\ UNCHANGED <<nread, readopen, writeopen, ends, want, killed, result>>
    BY Zenon DEF pipewrite, Stored
<1> HIDE DEF n, len, k, rest, quit, stay
<1>4. nread \in 0 .. UMax - 1 /\ nwrite \in 0 .. UMax - 1 /\ data \in [0 .. PIPESIZE - 1 -> Data]
    BY Zenon DEF PipeInv, PipeTypeOK
<1>5. nwrite' \in 0 .. UMax - 1 /\ Bytes(nread, nwrite') = n + k
  <2>1. Bytes(nread, nwrite) = n /\ k \in Nat /\ n + k < UMax
    BY <1>1, Facts, Sizes DEF n
  <2> QED
    BY Zenon, <2>1, <1>3, <1>4, Writing
<1>6. Count' = n + k /\ (Full' <=> n + k = PIPESIZE) /\ (Empty' <=> n + k = 0) /\ Queue' = Ring(data', nread, n + k)
    BY Zenon, <1>3, <1>4, <1>5, FactsNext
<1>7. data' \in [0 .. PIPESIZE - 1 -> Data] /\ Queue' = Queue \o Prefix(todo[p], k)
  <2>1. nwrite = UInt(nread + n) /\ Queue = Ring(data, nread, n)
    BY Facts, Zenon DEF n
  <2>2. /\ data \in [0 .. PIPESIZE - 1 -> Data] /\ nread \in 0 .. UMax - 1 /\ n \in Nat
        /\ todo[p] \in Seq(Data) /\ k \in 0 .. Len(todo[p]) /\ n + k <= PIPESIZE
    BY <1>1, <1>4 DEF len
  <2>3. /\ Stored(data, UInt(nread + n), todo[p], k) \in [0 .. PIPESIZE - 1 -> Data]
        /\ Ring(Stored(data, UInt(nread + n), todo[p], k), nread, n + k)
             = Ring(data, nread, n) \o Prefix(todo[p], k)
    BY Zenon, <2>2, RingPut
  <2> QED
    BY <2>1, <2>3, <1>3, <1>6, Zenon
<1>8. PipeTypeOK'
    BY <1>2, <1>3, <1>5, <1>7 DEF PipeInv, PipeTypeOK, WakeReaders, wakeup, stay, ReadersAsleep
<1>9. EndsInv'
    BY Zenon, <1>3 DEF PipeInv, PipeTypeOK, EndsInv, WakeReaders, wakeup, stay
<1>10. TestedInv'
  <2> SUFFICES ASSUME NEW q \in Procs, pc'[q] \in {"sleep_nwrite", "sleep_nread"}
               PROVE  pc'[q] = "sleep_nwrite" /\ Full' /\ readopen' = 1
    BY Zenon DEF TestedInv
  <2>1. pc[q] \notin {"sleep_nwrite", "sleep_nread"}
    BY Zenon, <1>3 DEF Unlocked
  <2>2. q = p /\ ~quit /\ rest # <<>> /\ pc'[q] = "sleep_nwrite"
    BY <2>1, <1>3 DEF PipeInv, PipeTypeOK, WakeReaders, wakeup, stay
  <2> QED
    BY <2>2, <1>2, <1>3, <1>6 DEF PipeInv, PipeTypeOK, quit
<1>12. SleepersHaveReason'
  <2> SUFFICES ASSUME NEW q \in Procs
               PROVE  /\ pc'[q] = "asleep_nwrite" => Full' /\ readopen' = 1
                      /\ pc'[q] = "asleep_nread" => writeopen' = 1 /\ (Empty' \/ q \in unwoken')
    BY Zenon DEF SleepersHaveReason
  <2>1. ASSUME pc'[q] = "asleep_nwrite" PROVE Full' /\ readopen' = 1
    <3>1. pc[q] = "asleep_nwrite"
        BY <2>1, <1>3 DEF PipeInv, PipeTypeOK, WakeReaders, wakeup, stay
    <3>2. n = PIPESIZE /\ readopen = 1
        BY Zenon, <3>1, Facts DEF PipeInv, SleepersHaveReason, n
    <3> QED
        BY <3>2, <1>1, <1>3, <1>6
  <2>2. ASSUME pc'[q] = "asleep_nread" PROVE writeopen' = 1 /\ q \in unwoken'
    <3>1. quit /\ pc[q] = "asleep_nread"
        BY <2>2, <1>3 DEF PipeInv, PipeTypeOK, WakeReaders, wakeup, stay
    <3>2. writeopen = 1
        BY Zenon, <3>1 DEF PipeInv, SleepersHaveReason
    <3> QED
        BY Zenon, <3>1, <3>2, <1>3 DEF ReadersAsleep
  <2> QED
    BY Zenon, <2>1, <2>2
<1>11. [BS!Next]_BS!vars
  <2> DEFINE s == Prefix(todo[p], k)
  <2>1. s \in [1 .. k -> Data] /\ s \in Seq(Data) /\ Len(s) = k
    BY <1>1 DEF len, Prefix
  <2> HIDE DEF s
  <2>2. CASE k = 0
    <3>1. Queue' = Queue
        BY Zenon, <2>1, <2>2, <1>7, Facts, EmptySeq, ConcatEmptySeq DEF s
    <3> QED
        BY Zenon, <3>1, <1>3 DEF BS!vars
  <2>3. CASE k # 0
    <3>1. writeopen = 1
        BY Zenon, <1>3 DEF PipeInv, EndsInv
    <3>2. k \in 1 .. PIPESIZE - Len(Queue)
        BY <2>3, <1>1, Facts DEF n
    <3> QED
        BY Zenon, <3>1, <3>2, <2>1, <1>3, <1>7 DEF BS!Next, BS!Put, s
  <2> QED
    BY Zenon, <2>2, <2>3
<1> QED
    BY Zenon, <1>1, <1>6, <1>8, <1>9, <1>10, <1>11, <1>12 DEF PipeInv

LEMMA Keeps_piperead ==
    ASSUME PipeInv, NEW p \in Procs, piperead(p)
    PROVE  PipeInv' /\ [BS!Next]_BS!vars
<1>0. nread \in 0 .. UMax - 1 /\ nwrite \in 0 .. UMax - 1 /\ data \in [0 .. PIPESIZE - 1 -> Data]
    BY Zenon DEF PipeInv, PipeTypeOK
<1>1. CASE Empty /\ writeopen = 1
  <2>1. /\ pc[p] = "read" /\ UNCHANGED <<nread, data, nwrite, readopen, writeopen, ends, todo, killed, unwoken>>
        /\ \/ pc' = [pc EXCEPT ![p] = "idle"] /\ result' = Failed
           \/ pc' = [pc EXCEPT ![p] = "sleep_nread"] /\ result' = result
        /\ want' = [want EXCEPT ![p] = IF pc'[p] = "idle" THEN 0 ELSE @]
    BY Zenon, <1>1 DEF piperead
  <2>2. Count' = Count /\ Queue' = Queue /\ (Full' <=> Full) /\ (Empty' <=> Empty)
    BY Zenon, <2>1 DEF Count, Queue, Full, Empty, UInt
  <2>3. PipeTypeOK' /\ EndsInv'
    BY Zenon, <2>1 DEF PipeInv, PipeTypeOK, EndsInv
  <2>4. TestedInv' /\ SleepersHaveReason'
    BY Zenon, <2>1, <2>2, <1>1 DEF PipeInv, PipeTypeOK, TestedInv, SleepersHaveReason
  <2>5. [BS!Next]_BS!vars
    BY Zenon, <2>1, <2>2 DEF BS!Next, BS!Get, BS!vars
  <2> QED
    BY Zenon, <2>2, <2>3, <2>4, <2>5 DEF PipeInv
<1>2. CASE ~(Empty /\ writeopen = 1)
  <2> DEFINE n == Count
             k == Lesser(want[p], Count)
  <2>1. /\ pc[p] = "read" /\ Unlocked /\ UNCHANGED <<data, nwrite, readopen, writeopen, ends, todo, killed, unwoken>>
        /\ result' = Ring(data, nread, k) /\ nread' = UInt(nread + k)
        /\ pc' = WakeWriters([pc EXCEPT ![p] = "idle"])
        /\ want' = [want EXCEPT ![p] = IF pc'[p] = "idle" THEN 0 ELSE @]
    BY Zenon, <1>2 DEF piperead, Ring
  <2>2. n \in 0 .. PIPESIZE /\ k \in 0 .. n /\ (n # 0 => k >= 1) /\ Bytes(nread, nwrite) = n
    BY <2>1, Facts DEF PipeInv, PipeTypeOK, EndsInv, Lesser
  <2> HIDE DEF n, k
  <2>3. nread' \in 0 .. UMax - 1 /\ Bytes(nread', nwrite) = n - k
    BY Zenon, <2>1, <2>2, <1>0, Reading
  <2>4. Count' = n - k /\ Queue' = Ring(data, nread', n - k)
    BY Zenon, <2>1, <2>3, <1>0, FactsNext
  <2>5. Ring(data, nread, k) = SubSeq(Queue, 1, k) /\ Queue' = SubSeq(Queue, k + 1, n)
    <3>1. Queue = Ring(data, nread, n)
        BY Facts, Zenon DEF n
    <3> QED
        BY Zenon, <3>1, <2>1, <2>2, <2>4, <1>0, RingGet
  <2>6. PipeTypeOK' /\ EndsInv'
    BY Zenon, <2>1, <2>3 DEF PipeInv, PipeTypeOK, EndsInv, WakeWriters, wakeup
  <2>7. TestedInv' /\ SleepersHaveReason'
    <3>1. \A q \in Procs : /\ pc'[q] \notin {"asleep_nwrite", "sleep_nwrite", "sleep_nread"}
                           /\ pc'[q] = "asleep_nread" => pc[q] = "asleep_nread"
        BY <2>1 DEF PipeInv, PipeTypeOK, WakeWriters, wakeup, Unlocked
    <3>2. \A q \in Procs : pc[q] = "asleep_nread" => writeopen = 1 /\ q \in unwoken
        BY Zenon, <1>2 DEF PipeInv, SleepersHaveReason
    <3> QED
        BY Zenon, <3>1, <3>2, <2>1 DEF TestedInv, SleepersHaveReason
  <2>8. BS!Get
    <3>1. Len(Queue) = n /\ Queue \in Seq(Data)
        BY Facts, Zenon DEF n
    <3>2. CASE n # 0
      <4>1. k \in 1 .. Len(Queue)
        BY <3>1, <3>2, <2>2
      <4>2. result' = BS!Take(Queue, k) /\ Queue' = BS!Drop(Queue, k)
        BY Zenon, <2>1, <2>5, <3>1 DEF BS!Take, BS!Drop
      <4> QED
        BY Zenon, <4>1, <4>2, <2>1 DEF BS!Get
    <3>3. CASE n = 0
      <4>1. writeopen = 0
        BY <3>3, <1>2, Facts DEF PipeInv, PipeTypeOK, n
      <4>2. k = 0 /\ SubSeq(Queue, 1, k) = <<>> /\ SubSeq(Queue, k + 1, n) = <<>>
        BY <3>3, <2>2, SubSeqEmpty
      <4>3. Queue = <<>>
        BY Zenon, <3>1, <3>3, EmptySeq
      <4> QED
        BY Zenon, <4>1, <4>2, <4>3, <2>1, <2>5 DEF BS!Get
    <3> QED
        BY Zenon, <3>2, <3>3
  <2> QED
    BY <2>2, <2>4, <2>6, <2>7, <2>8, Sizes DEF PipeInv, BS!Next
<1> QED
    BY Zenon, <1>1, <1>2

\* The other steps leave the ring and its counters alone.
LEMMA SameRing ==
    ASSUME UNCHANGED <<data, nread, nwrite>>
    PROVE  Count' = Count /\ Queue' = Queue /\ (Full' <=> Full) /\ (Empty' <=> Empty)
    BY Zenon DEF Count, Queue, Full, Empty, UInt

LEMMA Keeps_pipeclose ==
    ASSUME PipeInv, NEW p \in Procs, NEW f \in {"r", "w"}, pipeclose(p, f)
    PROVE  PipeInv' /\ [BS!Next]_BS!vars
<1> DEFINE last == \A q \in Procs : f \notin ends'[q]
<1>1. /\ pc[p] = "idle" /\ ends' = [ends EXCEPT ![p] = @ \ {f}] /\ (last => Unlocked)
      /\ writeopen' = IF last /\ f = "w" THEN 0 ELSE writeopen
      /\ readopen' = IF last /\ f = "r" THEN 0 ELSE readopen
      /\ pc' = CASE last /\ f = "w" -> WakeReaders(pc)
                 [] last /\ f = "r" -> WakeWriters(pc)
                 [] OTHER -> pc
      /\ unwoken' = unwoken \intersect ReadersAsleep(pc')
      /\ UNCHANGED <<data, nread, nwrite, todo, want, killed, result>>
    BY Zenon DEF pipeclose
<1>2. Count' = Count /\ Queue' = Queue /\ (Full' <=> Full) /\ (Empty' <=> Empty)
    BY Zenon, <1>1, SameRing
<1>3. \/ last /\ f = "w" /\ pc' = WakeReaders(pc)
      \/ last /\ f = "r" /\ pc' = WakeWriters(pc)
      \/ ~last /\ pc' = pc
    BY Zenon, <1>1
<1>4. PipeTypeOK'
    BY <1>1, <1>3 DEF PipeInv, PipeTypeOK, WakeReaders, WakeWriters, wakeup
<1>5. EndsInv'
    BY Zenon, <1>1, <1>3 DEF PipeInv, PipeTypeOK, EndsInv, WakeReaders, WakeWriters, wakeup
<1>6. TestedInv'
    BY Zenon, <1>1, <1>2, <1>3 DEF PipeInv, PipeTypeOK, TestedInv, Unlocked, WakeReaders, WakeWriters, wakeup
<1>8. SleepersHaveReason'
    BY Zenon, <1>1, <1>2, <1>3
       DEF PipeInv, PipeTypeOK, EndsInv, SleepersHaveReason, ReadersAsleep, WakeReaders, WakeWriters, wakeup
<1>7. [BS!Next]_BS!vars
    BY <1>1, <1>2 DEF PipeInv, PipeTypeOK, BS!Next, BS!Close, BS!vars
<1> QED
    BY Zenon, <1>2, <1>4, <1>5, <1>6, <1>7, <1>8 DEF PipeInv

LEMMA Keeps_calls ==
    ASSUME PipeInv, NEW p \in Procs, sys_write(p) \/ sys_read(p) \/ sleep(p) \/ kill(p)
    PROVE  PipeInv' /\ [BS!Next]_BS!vars
<1>1. UNCHANGED <<data, nread, nwrite, readopen, writeopen, ends, result>>
    BY Zenon DEF sys_write, sys_read, sleep, kill, pipe
<1>2. Count' = Count /\ Queue' = Queue /\ (Full' <=> Full) /\ (Empty' <=> Empty)
    BY Zenon, <1>1, SameRing
<1>3. CASE sys_write(p)
  <2>1. PICK n \in 1 .. MaxIO : \E s \in [1 .. n -> Data] : todo' = [todo EXCEPT ![p] = s]
    BY Zenon, <1>3 DEF sys_write
  <2>2. PICK s \in [1 .. n -> Data] : todo' = [todo EXCEPT ![p] = s]
    BY Zenon, <2>1
  <2>3. s \in Seq(Data)
    BY <2>2, PipeAssumption
  <2>4. PipeTypeOK' /\ EndsInv'
    BY Zenon, <1>1, <1>3, <2>2, <2>3 DEF sys_write, PipeInv, PipeTypeOK, EndsInv
  <2>5. TestedInv' /\ SleepersHaveReason'
    BY Zenon, <1>1, <1>2, <1>3 DEF sys_write, PipeInv, PipeTypeOK, TestedInv, SleepersHaveReason
  <2> QED
    BY Zenon, <1>1, <1>2, <2>4, <2>5 DEF PipeInv, BS!vars
<1>4. CASE sys_read(p)
  <2>1. PipeTypeOK' /\ EndsInv'
    BY <1>1, <1>4, PipeAssumption DEF sys_read, PipeInv, PipeTypeOK, EndsInv
  <2>2. TestedInv' /\ SleepersHaveReason'
    BY Zenon, <1>1, <1>2, <1>4 DEF sys_read, PipeInv, PipeTypeOK, TestedInv, SleepersHaveReason
  <2> QED
    BY Zenon, <1>1, <1>2, <2>1, <2>2 DEF PipeInv, BS!vars
<1>5. CASE kill(p)
  <2>1. PipeTypeOK' /\ EndsInv'
    BY Zenon, <1>1, <1>5, PipeAssumption DEF kill, PipeInv, PipeTypeOK, EndsInv
  <2>2. TestedInv' /\ SleepersHaveReason'
    BY Zenon, <1>1, <1>2, <1>5 DEF kill, PipeInv, PipeTypeOK, TestedInv, SleepersHaveReason
  <2> QED
    BY Zenon, <1>1, <1>2, <2>1, <2>2 DEF PipeInv, BS!vars
<1>6. CASE sleep(p)
  <2>1. PipeTypeOK' /\ EndsInv'
    BY <1>1, <1>6 DEF sleep, PipeInv, PipeTypeOK, EndsInv
  <2>2. TestedInv' /\ SleepersHaveReason'
    BY <1>1, <1>2, <1>6 DEF sleep, PipeInv, PipeTypeOK, TestedInv, SleepersHaveReason
  <2> QED
    BY Zenon, <1>1, <1>2, <2>1, <2>2 DEF PipeInv, BS!vars
<1> QED
    BY Zenon, <1>3, <1>4, <1>5, <1>6

-----------------------------------------------------------------------------
LEMMA Starts == Init => PipeInv /\ BS!Init
<1> SUFFICES ASSUME Init PROVE PipeInv /\ BS!Init
    BY Zenon
<1>1. PipeTypeOK /\ EndsInv /\ TestedInv /\ SleepersHaveReason
    BY Sizes DEF Init, PipeTypeOK, EndsInv, TestedInv, SleepersHaveReason
<1>2. Count = 0
    BY Sizes, Wrap DEF Init, Count
<1>3. PipeInv
    BY <1>1, <1>2, Sizes DEF PipeInv
<1>4. Queue = <<>>
    BY Zenon, <1>2, <1>3, Facts, EmptySeq
<1> QED
    BY Zenon, <1>3, <1>4 DEF Init, BS!Init

LEMMA Steps == PipeInv /\ [Next]_vars => PipeInv' /\ [BS!Next]_BS!vars
<1> SUFFICES ASSUME PipeInv, [Next]_vars PROVE PipeInv' /\ [BS!Next]_BS!vars
    BY Zenon
<1>1. CASE UNCHANGED vars
  <2>1. Count' = Count /\ Queue' = Queue /\ (Full' <=> Full) /\ (Empty' <=> Empty)
    BY Zenon, <1>1, SameRing DEF vars, pipe
  <2>2. PipeTypeOK' /\ EndsInv' /\ TestedInv' /\ SleepersHaveReason'
    BY Zenon, <1>1, <2>1 DEF PipeInv, PipeTypeOK, EndsInv, TestedInv, SleepersHaveReason, vars, pipe
  <2> QED
    BY Zenon, <1>1, <2>1, <2>2 DEF PipeInv, vars, pipe, BS!vars
<1>2. CASE Next
    BY Zenon, <1>2, Keeps_pipewrite, Keeps_piperead, Keeps_pipeclose, Keeps_calls DEF Next
<1> QED
    BY Zenon, <1>1, <1>2

\* pipe.c:85-91, 106: for any number of readers and writers and any size of
\* the pipe, whoever sleeps in it has reason to, but for a reader that a killed
\* writer left asleep beside the bytes it had put in.
THEOREM PipeSleepers == Spec => []SleepersHaveReason
<1>1. PipeInv => SleepersHaveReason
    BY Zenon DEF PipeInv
<1> QED
    BY <1>1, Starts, Steps, PTL DEF Spec

\* For any size of the ring and any width of its counters that is a multiple
\* of it, pipe.c is a bounded first-in first-out stream of bytes.
THEOREM PipeIsStream == Spec => Stream
    BY Starts, Steps, PTL DEF Spec, Stream, BS!Spec

-----------------------------------------------------------------------------
(* The console.  Available and Typed are the distances of input.w and      *)
(* input.e from input.r, and what the ring holds depends on them alone.    *)

Typed == UIntC(e - r)

ConInv ==
    /\ ring \in [0 .. INPUT_BUF - 1 -> Chars]
    /\ r \in 0 .. UMaxC - 1 /\ w \in 0 .. UMaxC - 1 /\ e \in 0 .. UMaxC - 1
    /\ reader \in [Readers -> [pc : {"home", "reading", "asleep", "done"}, n : Int, got : Seq(Chars)]]
    /\ Available <= Typed /\ Typed <= INPUT_BUF
    /\ Typed = INPUT_BUF => w = e
    /\ \A p \in Readers : reader[p].pc = "asleep" => r = w

LEMMA ConSizes == INPUT_BUF \in Nat \ {0} /\ UMaxC \in Nat \ {0} /\ INPUT_BUF < UMaxC
    BY Zenon, ConsoleAssumption

LEMMA Span ==
    /\ \A u, v \in 0 .. UMaxC - 1 : UIntC(v - u) = IF v >= u THEN v - u ELSE v - u + UMaxC
    /\ \A u, k \in 0 .. UMaxC - 1 : UIntC(u + k) = IF u + k < UMaxC THEN u + k ELSE u + k - UMaxC
<1>1. UMaxC \in Nat \ {0}
    BY Zenon, ConSizes
<1>2. ASSUME NEW x \in Int
      PROVE  /\ 0 <= x /\ x < UMaxC => UIntC(x) = x
             /\ UMaxC <= x /\ x < UMaxC + UMaxC => UIntC(x) = x - UMaxC
             /\ -UMaxC <= x /\ x < 0 => UIntC(x) = x + UMaxC
    BY Zenon, <1>1, OneTurn DEF UIntC
<1> QED
    BY <1>1, <1>2

\* An index that wrapped is still the same place of input.buf.
LEMMA SamePlace ==
    ASSUME NEW u \in 0 .. UMaxC - 1, NEW k \in 0 .. UMaxC - 1, NEW x \in Int
    PROVE  (UIntC(u + k) + x) % INPUT_BUF = (u + k + x) % INPUT_BUF
<1>1. UMaxC \div INPUT_BUF \in Int /\ UMaxC = INPUT_BUF * (UMaxC \div INPUT_BUF)
  <2>1. /\ UMaxC = INPUT_BUF * (UMaxC \div INPUT_BUF) + (UMaxC % INPUT_BUF)
        /\ UMaxC \div INPUT_BUF \in Int
    BY ConSizes, Division
  <2> QED
    BY <2>1, ConSizes, ConsoleAssumption
<1>2. UIntC(u + k) = u + k \/ UIntC(u + k) = u + k - UMaxC
    BY Zenon, Span
<1>3. CASE UIntC(u + k) = u + k - UMaxC
  <2> DEFINE y == u + k + x
             q == -(UMaxC \div INPUT_BUF)
  <2>1. y \in Int /\ q \in Int /\ UIntC(u + k) + x = y + INPUT_BUF * q
    BY <1>1, <1>3, ConSizes
  <2>2. (y + INPUT_BUF * q) % INPUT_BUF = y % INPUT_BUF
    <3> HIDE DEF y, q
    <3> QED  BY Zenon, <2>1, Congruent, ConSizes
  <2> QED
    BY Zenon, <2>1, <2>2
<1> QED
    BY Zenon, <1>2, <1>3

\* Indices less than INPUT_BUF apart are different places.
LEMMA Apart ==
    ASSUME NEW n \in Nat \ {0}, NEW x \in Int, NEW y \in Int, x < y, y < x + n
    PROVE  x % n # y % n
<1> DEFINE a == x \div n
           i == x % n
<1>1. a \in Int /\ i \in 0 .. n - 1 /\ x = n * a + i
    BY Zenon, Division
<1> HIDE DEF a, i
<1>2. CASE i + (y - x) < n
  <2>1. y = n * a + (i + (y - x)) /\ i + (y - x) \in 0 .. n - 1
    BY <1>1, <1>2
  <2>2. y % n = i + (y - x)
    BY Zenon, <1>1, <2>1, Remainder
  <2> QED
    BY <1>1, <2>2 DEF i
<1>3. CASE i + (y - x) >= n
  <2>1. y = n * (a + 1) + (i + (y - x) - n) /\ i + (y - x) - n \in 0 .. n - 1
    BY <1>1, <1>3
  <2>2. y % n = i + (y - x) - n
    <3> DEFINE q == a + 1
               j == i + (y - x) - n
    <3>1. q \in Int /\ j \in 0 .. n - 1 /\ y = n * q + j
      BY <1>1, <2>1
    <3> HIDE DEF q, j
    <3>2. y % n = j
      BY Zenon, <3>1, Remainder
    <3> QED
      BY Zenon, <3>2 DEF j
  <2> QED
    BY <1>1, <2>2 DEF i
<1> QED
    BY <1>1, <1>2, <1>3

LEMMA Where ==
    ASSUME ConInv
    PROVE  /\ Available \in 0 .. INPUT_BUF /\ Typed \in 0 .. INPUT_BUF
           /\ w = UIntC(r + Available) /\ e = UIntC(r + Typed)
           /\ Available = 0 <=> r = w
           /\ Available = Typed <=> w = e
<1>1. r \in 0 .. UMaxC - 1 /\ w \in 0 .. UMaxC - 1 /\ e \in 0 .. UMaxC - 1
    BY Zenon DEF ConInv
<1>2. /\ Available = IF w >= r THEN w - r ELSE w - r + UMaxC
      /\ Typed = IF e >= r THEN e - r ELSE e - r + UMaxC
    BY Zenon, <1>1, Span DEF Available, Typed
<1>3. Available \in 0 .. INPUT_BUF /\ Typed \in 0 .. INPUT_BUF
    BY <1>1, <1>2, ConSizes DEF ConInv
<1>4. w = UIntC(r + Available) /\ e = UIntC(r + Typed)
  <2> DEFINE a == Available
             b == Typed
  <2>1. a \in 0 .. UMaxC - 1 /\ b \in 0 .. UMaxC - 1
    BY <1>3, ConSizes
  <2> HIDE DEF a, b
  <2>2. /\ UIntC(r + a) = IF r + a < UMaxC THEN r + a ELSE r + a - UMaxC
        /\ UIntC(r + b) = IF r + b < UMaxC THEN r + b ELSE r + b - UMaxC
    BY Zenon, <1>1, <2>1, Span
  <2> QED
    BY <1>1, <1>2, <2>1, <2>2, ConSizes DEF a, b
<1> QED
    BY <1>1, <1>2, <1>3, <1>4, ConSizes

\* input.e moves by d, forward or back.
LEMMA Moved ==
    ASSUME ConInv, NEW d \in Int, Typed + d \in 0 .. INPUT_BUF
    PROVE  /\ UIntC(e + d) \in 0 .. UMaxC - 1
           /\ UIntC(UIntC(e + d) - r) = Typed + d
           /\ UIntC(e + d) = w <=> Typed + d = Available
<1>1. /\ r \in 0 .. UMaxC - 1 /\ w \in 0 .. UMaxC - 1 /\ e \in 0 .. UMaxC - 1
      /\ Typed \in 0 .. INPUT_BUF
    BY Zenon, Where DEF ConInv
<1>2. /\ Available = IF w >= r THEN w - r ELSE w - r + UMaxC
      /\ Typed = IF e >= r THEN e - r ELSE e - r + UMaxC
    BY Zenon, <1>1, Span DEF Available, Typed
<1>3. UIntC(e + d) = IF e + d < 0 THEN e + d + UMaxC
                     ELSE IF e + d < UMaxC THEN e + d ELSE e + d - UMaxC
  <2>1. CASE d >= 0
    BY <1>1, <2>1, Span, ConSizes
  <2>2. CASE d < 0
    <3> DEFINE k == -d
    <3>1. k \in 0 .. UMaxC - 1 /\ e + d = e - k
      BY <1>1, <2>2, ConSizes
    <3> HIDE DEF k
    <3>2. UIntC(e - k) = IF e >= k THEN e - k ELSE e - k + UMaxC
      BY Zenon, <1>1, <3>1, Span
    <3>3. (e + d < 0 <=> ~(e >= k)) /\ e + d < UMaxC
      BY <1>1, <2>2, <3>1, ConSizes DEF k
    <3> QED
      BY Zenon, <1>1, <3>1, <3>2, <3>3
  <2> QED
    BY <2>1, <2>2
<1> DEFINE f == UIntC(e + d)
<1>4. f \in 0 .. UMaxC - 1
    BY <1>1, <1>3, ConSizes
<1>5. UIntC(f - r) = IF f >= r THEN f - r ELSE f - r + UMaxC
    BY Zenon, <1>1, <1>4, Span
<1>6. UIntC(f - r) = Typed + d
    BY <1>1, <1>2, <1>3, <1>5, ConSizes
<1>7. f = w <=> Typed + d = Available
    BY <1>1, <1>2, <1>4, <1>5, <1>6, ConSizes
<1> QED
    BY Zenon, <1>4, <1>6, <1>7

\* input.r moves over k completed characters.
LEMMA Advanced ==
    ASSUME ConInv, NEW k \in 0 .. Available
    PROVE  /\ UIntC(r + k) \in 0 .. UMaxC - 1
           /\ UIntC(w - UIntC(r + k)) = Available - k
           /\ UIntC(e - UIntC(r + k)) = Typed - k
           /\ k = Available => UIntC(r + k) = w
<1>1. /\ r \in 0 .. UMaxC - 1 /\ w \in 0 .. UMaxC - 1 /\ e \in 0 .. UMaxC - 1
      /\ Available \in 0 .. INPUT_BUF /\ Typed \in 0 .. INPUT_BUF /\ Available <= Typed
    BY Zenon, Where DEF ConInv
<1>2. /\ Available = IF w >= r THEN w - r ELSE w - r + UMaxC
      /\ Typed = IF e >= r THEN e - r ELSE e - r + UMaxC
    BY Zenon, <1>1, Span DEF Available, Typed
<1>3. UIntC(r + k) = IF r + k < UMaxC THEN r + k ELSE r + k - UMaxC
    BY <1>1, Span, ConSizes
<1> DEFINE f == UIntC(r + k)
<1>4. f \in 0 .. UMaxC - 1
    BY <1>1, <1>3, ConSizes
<1>5. /\ UIntC(w - f) = IF w >= f THEN w - f ELSE w - f + UMaxC
      /\ UIntC(e - f) = IF e >= f THEN e - f ELSE e - f + UMaxC
    BY Zenon, <1>1, <1>4, Span
<1>6. UIntC(w - f) = Available - k
    BY <1>1, <1>2, <1>3, <1>5, ConSizes
<1>7. UIntC(e - f) = Typed - k
    BY <1>1, <1>2, <1>3, <1>5, ConSizes
<1>8. k = Available => f = w
    BY Zenon, Where
<1> QED
    BY Zenon, <1>4, <1>6, <1>7, <1>8

LEMMA Intr ==
    ASSUME ConInv, NEW c \in Chars, consoleintr(c)
    PROVE  /\ Typed < INPUT_BUF /\ Typed' = Typed + 1 /\ e' \in 0 .. UMaxC - 1
           /\ r' = r /\ ring' = [ring EXCEPT ![e % INPUT_BUF] = c]
           /\ \/ w' = e' /\ Available' = Typed + 1 /\ reader' = wakeup_readers
              \/ w' = w /\ Available' = Available /\ reader' = reader /\ Typed + 1 < INPUT_BUF
<1>1. Typed \in 0 .. INPUT_BUF /\ Typed < INPUT_BUF /\ r' = r /\ e' = UIntC(e + 1)
    BY Zenon, Where, ConSizes DEF consoleintr, Room, Typed
<1>2. e' \in 0 .. UMaxC - 1 /\ Typed' = Typed + 1
  <2>1. Typed + 1 \in 0 .. INPUT_BUF
    BY <1>1, ConSizes
  <2> QED
    BY <1>1, <2>1, Moved DEF Typed
<1>3. CASE Completes(c)
    BY Zenon, <1>1, <1>2, <1>3 DEF consoleintr, Available, Typed
<1>4. CASE ~Completes(c)
  <2>1. UIntC(e + 1) # UIntC(r + INPUT_BUF)
    BY Zenon, <1>4 DEF Completes
  <2>2. Typed + 1 = INPUT_BUF => e' = UIntC(r + INPUT_BUF)
    <3>1. r \in 0 .. UMaxC - 1 /\ INPUT_BUF \in 0 .. UMaxC - 1
      BY ConSizes DEF ConInv
    <3>2. /\ Typed' = IF e' >= r THEN e' - r ELSE e' - r + UMaxC
          /\ UIntC(r + INPUT_BUF) = IF r + INPUT_BUF < UMaxC THEN r + INPUT_BUF ELSE r + INPUT_BUF - UMaxC
      BY Zenon, <1>1, <1>2, <3>1, Span DEF Typed
    <3> QED
      BY <1>1, <1>2, <3>1, <3>2, ConSizes
  <2>3. w' = w /\ Available' = Available /\ reader' = reader
    BY Zenon, <1>1, <1>4 DEF consoleintr, Available
  <2> QED
    BY <1>1, <1>2, <2>1, <2>2, <2>3, ConSizes DEF consoleintr
<1> QED
    BY Zenon, <1>3, <1>4

LEMMA Edit ==
    ASSUME ConInv, backspace \/ killline
    PROVE  /\ e' \in 0 .. UMaxC - 1 /\ Typed' \in Available .. Typed - 1
           /\ UNCHANGED <<ring, r, w, reader>>
<1>0. /\ Available \in 0 .. INPUT_BUF /\ Typed \in 0 .. INPUT_BUF /\ Available < Typed
      /\ UNCHANGED <<ring, r, w, reader>>
    BY Where, ConSizes DEF ConInv, backspace, killline, Editing
<1>1. ASSUME NEW k \in 1 .. Typed - Available, e' = UIntC(e - k)
      PROVE  e' \in 0 .. UMaxC - 1 /\ Typed' \in Available .. Typed - 1
  <2> DEFINE d == -k
  <2>1. d \in Int /\ Typed + d \in 0 .. INPUT_BUF /\ e - k = e + d
    BY <1>0, ConSizes DEF ConInv
  <2> HIDE DEF d
  <2>2. e' \in 0 .. UMaxC - 1 /\ Typed' = Typed + d
    BY Zenon, <1>0, <1>1, <2>1, Moved DEF Typed
  <2> QED
    BY <1>0, <2>2 DEF d
<1>2. CASE backspace
  <2>1. 1 \in 1 .. Typed - Available
    BY <1>0, ConSizes
  <2> QED
    BY Zenon, <1>0, <1>1, <1>2, <2>1 DEF backspace
<1>3. CASE killline
  <2>1. PICK k \in 1 .. INPUT_BUF :
          e' = UIntC(e - k) /\ \A j \in 1 .. k - 1 : UIntC(e - j) # w
    BY Zenon, <1>3 DEF killline
  <2>2. k <= Typed - Available
    <3> SUFFICES ASSUME k > Typed - Available PROVE FALSE
      BY <1>0, ConSizes
    <3> DEFINE j == Typed - Available
               d == -j
    <3>1. j \in 1 .. k - 1 /\ d \in Int /\ e - j = e + d /\ Typed + d = Available
      BY <1>0, ConSizes DEF ConInv
    <3> HIDE DEF j, d
    <3>2. UIntC(e + d) = w
      BY Zenon, <1>0, <3>1, Moved
    <3> QED
      BY Zenon, <2>1, <3>1, <3>2
  <2> QED
    BY <1>0, <1>1, <2>1, <2>2, ConSizes
<1> QED
    BY Zenon, <1>0, <1>2, <1>3

\* One round of consoleread(): k characters are taken, of those completed.
LEMMA Read ==
    ASSUME ConInv, NEW p \in Readers, consoleread(p)
    PROVE  \E take \in 0 .. Available, copy \in 0 .. Available, c \in {"asleep", "done"} :
              /\ Reads(p, c, take, copy)
              /\ c = "asleep" => take = Available
              /\ c = "done" => /\ take \in {copy, copy + 1}
                               /\ take = copy + 1 => copy = 0 /\ reader[p].got = <<>>
                               /\ \A i \in 1 .. copy : CharAt(r + i - 1) # "eof"
<1>0. Available \in 0 .. INPUT_BUF /\ INPUT_BUF \in Nat
    BY Zenon, Where, ConSizes
<1>1. PICK k \in 1 .. reader[p].n :
          /\ Stops(k, reader[p].n)
          /\ IF k > Available
             THEN Reads(p, "asleep", Available, Available)
             ELSE Reads(p, "done", Takes(reader[p].got, k), Copies(k))
    BY Zenon DEF consoleread
<1>2. CASE k > Available
    BY <1>0, <1>1, <1>2
<1>3. CASE ~(k > Available)
  <2>1. reader[p].n \in Int /\ k \in 1 .. Available
    BY <1>0, <1>3 DEF ConInv
  <2>2. ASSUME NEW i \in 1 .. k - 1 PROVE CharAt(r + i - 1) # "eof"
    <3>1. i \in 1 .. reader[p].n /\ i <= Available /\ ~(k <= i)
      BY <1>0, <2>1
    <3> QED
      BY Zenon, <1>1, <3>1 DEF Stops, StopAt
  <2>3. CASE CharAt(r + k - 1) = "eof"
    <3>1. Copies(k) = k - 1 /\ Takes(reader[p].got, k) = IF reader[p].got # <<>> \/ k > 1 THEN k - 1 ELSE k
      BY Zenon, <2>3 DEF Copies, Takes
    <3> DEFINE t == Takes(reader[p].got, k)
    <3>2. k - 1 \in 0 .. Available /\ t \in 0 .. Available
      BY <1>0, <2>1, <3>1
    <3>3. t \in {k - 1, (k - 1) + 1} /\ (t = (k - 1) + 1 => k - 1 = 0 /\ reader[p].got = <<>>)
      BY <2>1, <3>1
    <3>4. Reads(p, "done", t, k - 1)
      BY Zenon, <1>1, <1>3, <3>1
    <3> HIDE DEF t
    <3> QED
      BY Zenon, <2>2, <3>2, <3>3, <3>4
  <2>4. CASE CharAt(r + k - 1) # "eof"
    <3>1. Copies(k) = k /\ Takes(reader[p].got, k) = k
      BY Zenon, <2>4 DEF Copies, Takes
    <3>2. \A i \in 1 .. k : CharAt(r + i - 1) # "eof"
      BY <2>1, <2>2, <2>4
    <3>3. k \in 0 .. Available /\ k # k + 1
      BY <1>0, <2>1
    <3> QED
      BY Zenon, <1>1, <1>3, <3>1, <3>2, <3>3
  <2> QED
    BY Zenon, <2>3, <2>4
<1> QED
    BY Zenon, <1>2, <1>3

LEMMA ConStep == ConInv /\ [ConNext]_conVars => ConInv'
<1> SUFFICES ASSUME ConInv, [ConNext]_conVars PROVE ConInv'
    BY Zenon
<1> DEFINE Rec == [pc : {"home", "reading", "asleep", "done"}, n : Int, got : Seq(Chars)]
<1>0. /\ Available \in 0 .. INPUT_BUF /\ Typed \in 0 .. INPUT_BUF /\ Available <= Typed
      /\ INPUT_BUF \in Nat \ {0} /\ UMaxC \in Nat
    BY Zenon, Where, ConSizes DEF ConInv
<1>1. ASSUME NEW c \in Chars, consoleintr(c) PROVE ConInv'
  <2>1. /\ Typed < INPUT_BUF /\ Typed' = Typed + 1 /\ e' \in 0 .. UMaxC - 1
        /\ r' = r /\ ring' = [ring EXCEPT ![e % INPUT_BUF] = c]
        /\ \/ w' = e' /\ Available' = Typed + 1 /\ reader' = wakeup_readers
           \/ w' = w /\ Available' = Available /\ reader' = reader /\ Typed + 1 < INPUT_BUF
    BY Zenon, <1>1, Intr
  <2>2. ring' \in [0 .. INPUT_BUF - 1 -> Chars]
    BY Zenon, <2>1 DEF ConInv
  <2>3. CASE w' = e' /\ Available' = Typed + 1 /\ reader' = wakeup_readers
    <3>1. reader' \in [Readers -> Rec] /\ \A p \in Readers : reader'[p].pc # "asleep"
      BY Zenon, <2>3 DEF wakeup_readers, Awake, ConInv
    <3> QED
      BY <1>0, <2>1, <2>2, <2>3, <3>1 DEF ConInv
  <2>4. CASE w' = w /\ Available' = Available /\ reader' = reader /\ Typed + 1 < INPUT_BUF
    BY <1>0, <2>1, <2>2, <2>4 DEF ConInv
  <2> QED
    BY Zenon, <2>1, <2>3, <2>4
<1>2. ASSUME backspace \/ killline PROVE ConInv'
  <2>1. /\ e' \in 0 .. UMaxC - 1 /\ Typed' \in Available .. Typed - 1
        /\ UNCHANGED <<ring, r, w, reader>>
    BY Zenon, <1>2, Edit
  <2>2. Available' = Available
    BY Zenon, <2>1 DEF Available
  <2> QED
    BY <1>0, <2>1, <2>2 DEF ConInv
<1>3. ASSUME NEW p \in Readers, NEW x \in Rec, x.pc # "asleep",
             reader' = [reader EXCEPT ![p] = x], UNCHANGED <<ring, r, w, e>>
      PROVE  ConInv'
  <2>1. Available' = Available /\ Typed' = Typed
    BY Zenon, <1>3 DEF Available, Typed
  <2> QED
    BY Zenon, <1>0, <1>3, <2>1 DEF ConInv
<1>4. AtHome \in Rec /\ AtHome.pc # "asleep"
    BY DEF AtHome
<1>5. ASSUME NEW p \in Readers, NEW n \in 1 .. MaxRead, sys_read_console(p, n) PROVE ConInv'
  <2> DEFINE x == [pc |-> "reading", n |-> n, got |-> <<>>]
  <2>1. x \in Rec /\ x.pc # "asleep"
    BY ConsoleAssumption
  <2> QED
    BY Zenon, <1>3, <1>5, <2>1 DEF sys_read_console
<1>6. ASSUME NEW p \in Readers, consoleread_killed(p) \/ consoleread_return(p) PROVE ConInv'
    BY Zenon, <1>3, <1>4, <1>6 DEF consoleread_killed, consoleread_return
<1>7. ASSUME NEW p \in Readers, consoleread(p) PROVE ConInv'
  <2>1. PICK take \in 0 .. Available, copy \in 0 .. Available, c \in {"asleep", "done"} :
              /\ Reads(p, c, take, copy)
              /\ c = "asleep" => take = Available
    BY Zenon, <1>7, Read
  <2>2. /\ r' = UIntC(r + take) /\ UNCHANGED <<ring, w, e>>
        /\ reader' = [reader EXCEPT ![p] = [pc |-> c, n |-> @.n - copy,
                        got |-> @.got \o [i \in 1 .. copy |-> CharAt(r + i - 1)]]]
    BY Zenon, <2>1 DEF Reads
  <2>3. /\ r' \in 0 .. UMaxC - 1 /\ Available' = Available - take /\ Typed' = Typed - take
        /\ take = Available => r' = w
    BY Zenon, <2>2, Advanced DEF Available, Typed
  <2>4. [i \in 1 .. copy |-> CharAt(r + i - 1)] \in Seq(Chars)
    <3>1. \A i \in 1 .. copy : CharAt(r + i - 1) \in Chars
      <4>1. \A i \in 1 .. copy : (r + i - 1) % INPUT_BUF \in 0 .. INPUT_BUF - 1
        BY <1>0 DEF ConInv
      <4> QED
        BY Zenon, <4>1 DEF CharAt, ConInv
    <3>2. copy \in Nat
      BY <1>0
    <3> QED
      BY <3>1, <3>2
  <2>5. reader' \in [Readers -> Rec]
    <3>1. reader[p] \in Rec
      BY Zenon DEF ConInv
    <3> DEFINE s == [i \in 1 .. copy |-> CharAt(r + i - 1)]
    <3> HIDE DEF s
    <3>2. [pc |-> c, n |-> reader[p].n - copy, got |-> reader[p].got \o s] \in Rec
      BY <1>0, <2>4, <3>1 DEF s
    <3> QED
      BY Zenon, <2>2, <3>2 DEF ConInv, s
  <2>6. \A q \in Readers : reader'[q].pc = "asleep" => r' = w'
    <3>1. ASSUME NEW q \in Readers, q # p, reader'[q].pc = "asleep" PROVE r' = w'
      <4>1. r = w
        BY Zenon, <2>2, <3>1 DEF ConInv
      <4>2. take = Available
        BY <1>0, <4>1, Where
      <4> QED
        BY Zenon, <2>2, <2>3, <4>2
    <3>2. reader'[p].pc = c
      BY Zenon, <2>2 DEF ConInv
    <3> QED
      BY Zenon, <2>1, <2>2, <2>3, <3>1, <3>2
  <2>7. Typed' = INPUT_BUF => w' = e'
    BY <1>0, <2>2, <2>3 DEF ConInv
  <2> QED
    BY <1>0, <2>2, <2>3, <2>5, <2>6, <2>7 DEF ConInv
<1>8. CASE UNCHANGED conVars
  <2>1. Available' = Available /\ Typed' = Typed
    BY Zenon, <1>8 DEF Available, Typed, conVars
  <2> QED
    BY Zenon, <1>8, <2>1 DEF ConInv, conVars
<1> QED
    BY Zenon, <1>1, <1>2, <1>5, <1>6, <1>7, <1>8 DEF ConNext

LEMMA ConStarts == ConInit => ConInv
<1> SUFFICES ASSUME ConInit PROVE ConInv
    BY Zenon
<1>1. r = 0 /\ w = 0 /\ e = 0 /\ UIntC(0 - 0) = 0
  <2>1. 0 \in 0 .. UMaxC - 1
    BY ConSizes
  <2> QED
    BY <2>1, Span DEF ConInit
<1>2. Available = 0 /\ Typed = 0
    BY Zenon, <1>1 DEF Available, Typed
<1> QED
    BY <1>1, <1>2, ConSizes DEF ConInit, ConInv, AtHome, Chars

\* For any ring and any number of readers: a reader sleeps only while no
\* completed character is waiting, and a full ring has something to read.
THEOREM ConsoleNeverStuck == ConSpec => []ReaderSleepsForLine
<1>1. ConInv => ReaderSleepsForLine
    BY Zenon, Where, ConSizes DEF ConInv, ReaderSleepsForLine, Typed
<1> QED
    BY <1>1, ConStarts, ConStep, PTL DEF ConSpec

IsCommitted ==
    /\ Committed \in Seq(Chars) /\ Len(Committed) = Available
    /\ \A i \in 1 .. Available : Committed[i] = CharAt(r + i - 1)

LEMMA CommittedIs == ConInv => IsCommitted
<1> SUFFICES ASSUME ConInv PROVE IsCommitted
    BY Zenon
<1> DEFINE a == Available
           f == [i \in 1 .. a |-> CharAt(r + i - 1)]
<1>1. a \in Nat /\ INPUT_BUF \in Nat \ {0} /\ r \in Nat
    BY Where, ConSizes DEF ConInv
<1>2. Committed = f
    BY Zenon DEF Committed
<1> HIDE DEF a
<1>3. \A i \in 1 .. a : (r + i - 1) % INPUT_BUF \in 0 .. INPUT_BUF - 1
    BY <1>1
<1>4. \A i \in 1 .. a : CharAt(r + i - 1) \in Chars
    BY Zenon, <1>3 DEF CharAt, ConInv
<1>5. f \in [1 .. a -> Chars]
    BY Zenon, <1>4
<1>6. f \in Seq(Chars) /\ Len(f) = a
    <2> HIDE DEF f
    <2> QED  BY <1>1, <1>5
<1> QED
    BY Zenon, <1>2, <1>6 DEF a, IsCommitted

\* What a step may do to the completed characters.
LEMMA Kept ==
    ASSUME ConInv, NEW k \in 0 .. Available, r' = UIntC(r + k), Available' = Available - k,
           \A i \in 1 .. Available : ring'[(r + i - 1) % INPUT_BUF] = ring[(r + i - 1) % INPUT_BUF]
    PROVE  Committed' = SubSeq(Committed, k + 1, Len(Committed)) /\ k \in 0 .. Len(Committed)
<1>0. Available \in Nat /\ INPUT_BUF \in Nat \ {0} /\ r \in Nat /\ k \in Nat /\ k <= Available
    BY Where, ConSizes DEF ConInv
<1> DEFINE a == Available
<1>1. Committed \in Seq(Chars) /\ Len(Committed) = a /\ \A i \in 1 .. a : Committed[i] = CharAt(r + i - 1)
    BY Zenon, CommittedIs DEF IsCommitted
<1>2. ASSUME NEW i \in 1 .. a - k PROVE CharAt(r + i - 1)' = CharAt(r + (k + i) - 1)
  <2>1. r \in 0 .. UMaxC - 1 /\ k \in 0 .. UMaxC - 1 /\ i - 1 \in Int
    BY <1>0, Where, ConSizes DEF ConInv
  <2>2. (UIntC(r + k) + (i - 1)) % INPUT_BUF = (r + k + (i - 1)) % INPUT_BUF
    BY Zenon, <2>1, SamePlace
  <2>3. UIntC(r + k) \in Int
    BY Advanced, ConSizes
  <2>4. r' + i - 1 = UIntC(r + k) + (i - 1) /\ r + (k + i) - 1 = r + k + (i - 1) /\ k + i \in 1 .. Available
    BY <1>0, <2>1, <2>3
  <2>5. ring'[(r + (k + i) - 1) % INPUT_BUF] = ring[(r + (k + i) - 1) % INPUT_BUF]
    BY Zenon, <2>4
  <2> QED
    BY Zenon, <2>2, <2>4, <2>5 DEF CharAt
<1>3. Committed' = [i \in 1 .. a - k |-> CharAt(r + (k + i) - 1)]
    BY Zenon, <1>2 DEF Committed
<1> DEFINE C == Committed
           D == SubSeq(C, k + 1, a)
<1> HIDE DEF a, C
<1>4. D \in Seq(Chars) /\ Len(D) = a - k /\ \A i \in 1 .. a - k : D[i] = C[k + i]
    BY <1>0, <1>1, SubSeqProperties DEF a, C
<1>5. \A i \in 1 .. a - k : D[i] = CharAt(r + (k + i) - 1)
    BY <1>0, <1>1, <1>4 DEF a, C
<1> HIDE DEF D
<1>6. D = [i \in 1 .. a - k |-> CharAt(r + (k + i) - 1)]
    BY <1>0, <1>4, <1>5 DEF a
<1>7. Committed' = SubSeq(Committed, k + 1, a)
    BY Zenon, <1>3, <1>6 DEF C, D
<1> QED
    BY Zenon, <1>0, <1>1, <1>7 DEF a

\* The two halves of CommittedKept.
TakenOrAdded ==
    \/ \E k \in 0 .. Len(Committed) : Committed' = SubSeq(Committed, k + 1, Len(Committed))
    \/ r' = r /\ Len(Committed') > Len(Committed) /\ SubSeq(Committed', 1, Len(Committed)) = Committed
EofAlone ==
    \A p \in Readers : reader[p].pc = "reading" /\ reader'[p].pc = "done" /\ r' # r
        /\ CharAt(UIntC(r' - 1)) = "eof" => reader'[p].got = <<>>

\* The character typed next goes to a place no completed one is in.
LEMMA TypedElsewhere ==
    ASSUME ConInv, Typed < INPUT_BUF, NEW i \in 1 .. Available
    PROVE  (r + i - 1) % INPUT_BUF # e % INPUT_BUF
<1>0. /\ Available \in 0 .. INPUT_BUF /\ Typed \in 0 .. INPUT_BUF /\ Available <= Typed
      /\ r \in 0 .. UMaxC - 1 /\ Typed \in 0 .. UMaxC - 1
      /\ INPUT_BUF \in Nat \ {0} /\ UMaxC \in Nat
    BY Where, ConSizes DEF ConInv
<1>1. e % INPUT_BUF = (r + Typed) % INPUT_BUF
  <2>1. (UIntC(r + Typed) + 0) % INPUT_BUF = (r + Typed + 0) % INPUT_BUF
    BY <1>0, SamePlace
  <2>2. UIntC(r + Typed) = e /\ e + 0 = e /\ r + Typed + 0 = r + Typed
    BY <1>0, Where DEF ConInv
  <2> QED
    BY Zenon, <2>1, <2>2
<1> DEFINE x == r + i - 1
           y == r + Typed
<1>2. x \in Int /\ y \in Int /\ x < y /\ y < x + INPUT_BUF
    BY <1>0
<1> HIDE DEF x, y
<1>3. x % INPUT_BUF # y % INPUT_BUF
    BY Zenon, <1>0, <1>2, Apart
<1> QED
    BY Zenon, <1>1, <1>3 DEF x, y

LEMMA Untouched ==
    ASSUME ConInv, UNCHANGED <<r, w>>,
           \A i \in 1 .. Available : ring'[(r + i - 1) % INPUT_BUF] = ring[(r + i - 1) % INPUT_BUF]
    PROVE  TakenOrAdded
<1>1. 0 \in 0 .. Available /\ UIntC(r + 0) = r /\ Available' = Available - 0
  <2>1. 0 \in 0 .. Available /\ Available \in Int
    BY Where, ConSizes
  <2>2. UIntC(r + 0) = r
    <3>1. r \in 0 .. UMaxC - 1 /\ 0 \in 0 .. UMaxC - 1
      BY ConSizes DEF ConInv
    <3> QED
      BY <3>1, Span
  <2>3. Available' = Available
    BY Zenon DEF Available
  <2> QED
    BY <2>1, <2>2, <2>3
<1>2. Committed' = SubSeq(Committed, 0 + 1, Len(Committed)) /\ 0 \in 0 .. Len(Committed)
    BY Zenon, <1>1, Kept
<1> QED
    BY Zenon, <1>2 DEF TakenOrAdded

LEMMA IntrKeeps ==
    ASSUME ConInv, ConInv', NEW c \in Chars, consoleintr(c)
    PROVE  TakenOrAdded /\ EofAlone
<1>1. /\ Typed < INPUT_BUF /\ Typed' = Typed + 1 /\ r' = r
      /\ ring' = [ring EXCEPT ![e % INPUT_BUF] = c]
      /\ \/ w' = e' /\ Available' = Typed + 1 /\ reader' = wakeup_readers
         \/ w' = w /\ Available' = Available /\ reader' = reader
    BY Zenon, Intr
<1>2. ASSUME NEW i \in 1 .. Available
      PROVE  ring'[(r + i - 1) % INPUT_BUF] = ring[(r + i - 1) % INPUT_BUF]
    BY <1>1, TypedElsewhere DEF ConInv
<1>3. EofAlone
    BY Zenon, <1>1 DEF EofAlone
<1>4. CASE w' = w
    BY Zenon, <1>1, <1>2, <1>3, <1>4, Untouched
<1>5. CASE Available' = Typed + 1
  <2>0. Available \in Nat /\ Available < Available' /\ Available' \in Nat
    BY <1>5, Where DEF ConInv
  <2>1. /\ Committed \in Seq(Chars) /\ Len(Committed) = Available
        /\ \A i \in 1 .. Available : Committed[i] = CharAt(r + i - 1)
    BY Zenon, CommittedIs DEF IsCommitted
  <2> DEFINE C == Committed'
             D == SubSeq(C, 1, Available)
  <2>2. C \in Seq(Chars) /\ Len(C) = Available' /\ \A i \in 1 .. Available' : C[i] = CharAt(r + i - 1)'
    <3>1. IsCommitted'
      BY CommittedIs, PTL
    <3> QED
      BY Zenon, <3>1 DEF IsCommitted
  <2> HIDE DEF C
  <2>3. D \in Seq(Chars) /\ Len(D) = Available /\ \A i \in 1 .. Available : D[i] = C[i]
    BY <2>0, <2>2, SubSeqProperties
  <2>4. ASSUME NEW i \in 1 .. Available PROVE D[i] = Committed[i]
    <3>1. CharAt(r + i - 1)' = CharAt(r + i - 1)
      BY Zenon, <1>1, <1>2 DEF CharAt
    <3> QED
      BY <2>0, <2>1, <2>2, <2>3, <3>1
  <2> HIDE DEF D
  <2>5. D = Committed
    BY Zenon, <2>1, <2>3, <2>4, SeqEqual
  <2> QED
    BY Zenon, <1>1, <1>3, <2>0, <2>1, <2>2, <2>5 DEF TakenOrAdded, C, D
<1> QED
    BY Zenon, <1>1, <1>4, <1>5

LEMMA ReadKeeps ==
    ASSUME ConInv, NEW p \in Readers, consoleread(p)
    PROVE  TakenOrAdded /\ EofAlone
<1>0. /\ Available \in 0 .. INPUT_BUF /\ INPUT_BUF \in Nat \ {0} /\ UMaxC \in Nat \ {0}
      /\ INPUT_BUF < UMaxC /\ r \in 0 .. UMaxC - 1
    BY Zenon, Where, ConSizes DEF ConInv
<1>1. PICK take \in 0 .. Available, copy \in 0 .. Available, c \in {"asleep", "done"} :
          /\ Reads(p, c, take, copy)
          /\ c = "asleep" => take = Available
          /\ c = "done" => /\ take \in {copy, copy + 1}
                           /\ take = copy + 1 => copy = 0 /\ reader[p].got = <<>>
                           /\ \A i \in 1 .. copy : CharAt(r + i - 1) # "eof"
    BY Zenon, Read
<1>2. /\ r' = UIntC(r + take) /\ UNCHANGED <<ring, w, e>>
      /\ reader' = [reader EXCEPT ![p] = [pc |-> c, n |-> @.n - copy,
                      got |-> @.got \o [i \in 1 .. copy |-> CharAt(r + i - 1)]]]
    BY Zenon, <1>1 DEF Reads
<1>3. TakenOrAdded
  <2>1. Available' = Available - take
    BY Zenon, <1>2, Advanced DEF Available
  <2>2. Committed' = SubSeq(Committed, take + 1, Len(Committed)) /\ take \in 0 .. Len(Committed)
    BY Zenon, <1>2, <2>1, Kept
  <2> QED
    BY Zenon, <2>2 DEF TakenOrAdded
<1>4. ASSUME NEW q \in Readers, reader[q].pc = "reading", reader'[q].pc = "done", r' # r,
             CharAt(UIntC(r' - 1)) = "eof"
      PROVE  reader'[q].got = <<>>
  <2>1. q = p /\ c = "done"
    BY Zenon, <1>2, <1>4 DEF ConInv
  <2>2. take # 0
    <3>1. r \in 0 .. UMaxC - 1 /\ 0 \in 0 .. UMaxC - 1
      BY <1>0
    <3>2. UIntC(r + 0) = r
      BY <3>1, Span
    <3> QED
      BY Zenon, <1>2, <1>4, <3>2
  <2>3. CharAt(UIntC(r' - 1)) = CharAt(r + take - 1)
    <3> DEFINE k == take - 1
    <3>1. k \in 0 .. UMaxC - 1 /\ take \in 0 .. UMaxC - 1 /\ r + take - 1 = r + k
      BY <1>0, <2>2
    <3>2. UIntC(r' - 1) = UIntC(r + k)
      <4>1. /\ r' = IF r + take < UMaxC THEN r + take ELSE r + take - UMaxC
            /\ UIntC(r + k) = IF r + k < UMaxC THEN r + k ELSE r + k - UMaxC
        BY Zenon, <1>0, <1>2, <3>1, Span
      <4>2. r' \in 0 .. UMaxC - 1 /\ 1 \in 0 .. UMaxC - 1
        BY <1>0, <3>1, <4>1
      <4>3. UIntC(r' - 1) = IF r' >= 1 THEN r' - 1 ELSE r' - 1 + UMaxC
        BY Zenon, <4>2, Span
      <4> QED
        BY <1>0, <2>2, <3>1, <4>1, <4>2, <4>3
    <3> HIDE DEF k
    <3>3. (UIntC(r + k) + 0) % INPUT_BUF = (r + k + 0) % INPUT_BUF
      BY <1>0, <3>1, SamePlace
    <3>4. UIntC(r + k) + 0 = UIntC(r + k) /\ r + k + 0 = r + k
      BY <1>0, <3>1, Span
    <3> QED
      BY Zenon, <3>1, <3>2, <3>3, <3>4 DEF CharAt
  <2>4. take = copy + 1
    <3> SUFFICES ASSUME take = copy PROVE FALSE
      BY Zenon, <1>1, <2>1
    <3>1. take \in 1 .. copy
      BY <1>0, <2>2
    <3> QED
      BY Zenon, <1>1, <1>4, <2>1, <2>3, <3>1
  <2>5. copy = 0 /\ reader[p].got = <<>>
    BY Zenon, <1>1, <2>1, <2>4
  <2>6. reader'[p].got = <<>> \o [i \in 1 .. 0 |-> CharAt(r + i - 1)]
    BY Zenon, <1>2, <2>5 DEF ConInv
  <2>7. [i \in 1 .. 0 |-> CharAt(r + i - 1)] = <<>>
    OBVIOUS
  <2> QED
    BY <2>1, <2>6, <2>7
<1> QED
    BY Zenon, <1>3, <1>4 DEF EofAlone

\* For any ring and any number of readers: editing never reaches into a
\* completed line, every character leaves the ring once and in order, and the
\* read that takes an end of file returns no bytes.
THEOREM LinesReadOnce == ConSpec => CommittedKept
<1>1. ASSUME ConInv, ConInv', [ConNext]_conVars PROVE [TakenOrAdded /\ EofAlone]_conVars
  <2>1. ASSUME NEW c \in Chars, consoleintr(c) PROVE TakenOrAdded /\ EofAlone
    BY Zenon, <1>1, <2>1, IntrKeeps
  <2>2. ASSUME UNCHANGED <<ring, r, w>> PROVE TakenOrAdded
    BY Zenon, <1>1, <2>2, Untouched
  <2>3. ASSUME UNCHANGED r PROVE EofAlone
    BY Zenon, <2>3 DEF EofAlone
  <2>4. ASSUME backspace \/ killline PROVE UNCHANGED <<ring, r, w>>
    BY Zenon, <2>4 DEF backspace, killline
  <2>5. ASSUME NEW p \in Readers,
               \/ \E n \in 1 .. MaxRead : sys_read_console(p, n)
               \/ consoleread_killed(p) \/ consoleread_return(p)
        PROVE  UNCHANGED <<ring, r, w>>
    BY Zenon, <2>5 DEF sys_read_console, consoleread_killed, consoleread_return
  <2>6. ASSUME NEW p \in Readers, consoleread(p) PROVE TakenOrAdded /\ EofAlone
    BY Zenon, <1>1, <2>6, ReadKeeps
  <2>7. CASE ConNext
    BY Zenon, <2>1, <2>2, <2>3, <2>4, <2>5, <2>6, <2>7 DEF ConNext
  <2> QED
    BY Zenon, <1>1, <2>7
<1> QED
    BY <1>1, ConStarts, ConStep, PTL DEF ConSpec, CommittedKept, TakenOrAdded, EofAlone

-----------------------------------------------------------------------------
(* The clock.  A sleeper's difference of tick counts is the number of      *)
(* ticks since its call, although the counts themselves wrap.              *)

\* What is known of a call of sys_sleep() when the tick count is t.
NapInv(x, t) ==
    /\ DOMAIN x = {"pc", "n", "ticks0", "passed"}
    /\ x.pc \in {"away", "asleep", "woken", "slept"}
    /\ x.pc # "away" => /\ x.n \in Naps /\ x.ticks0 \in 0 .. UMaxT - 1 /\ x.passed \in Nat
                        /\ x.passed <= UIntT(x.n) + Lag
                        /\ t = UIntT(x.ticks0 + x.passed)
    /\ x.pc = "slept" => x.passed >= UIntT(x.n)
    /\ x.pc = "asleep" => x.passed < UIntT(x.n)

ClkInv ==
    /\ ticks \in 0 .. UMaxT - 1 /\ nap = [p \in Sleepers |-> nap[p]]
    /\ \A p \in Sleepers : NapInv(nap[p], ticks)

LEMMA Turns ==
    /\ UMaxT \in Nat \ {0} /\ Lag \in Nat
    /\ \A x \in 0 .. UMaxT - 1 : UIntT(x) = x
    /\ \A x \in Int : UMaxT <= x /\ x < UMaxT + UMaxT => UIntT(x) = x - UMaxT
    /\ \A x \in Int : -UMaxT <= x /\ x < 0 => UIntT(x) = x + UMaxT
    /\ \A n \in Naps : UIntT(n) \in 0 .. UMaxT - 1 /\ UIntT(n) + Lag < UMaxT
<1>1. UMaxT \in Nat \ {0} /\ Lag \in Nat /\ Naps \subseteq Int
    BY Zenon, ClockAssumption
<1>2. ASSUME NEW x \in Int
      PROVE  /\ 0 <= x /\ x < UMaxT => UIntT(x) = x
             /\ UMaxT <= x /\ x < UMaxT + UMaxT => UIntT(x) = x - UMaxT
             /\ -UMaxT <= x /\ x < 0 => UIntT(x) = x + UMaxT
    BY Zenon, <1>1, OneTurn DEF UIntT
<1>3. ASSUME NEW n \in Naps PROVE UIntT(n) \in 0 .. UMaxT - 1 /\ UIntT(n) + Lag < UMaxT
    BY <1>1, ClockAssumption DEF UIntT
<1> QED
    BY <1>1, <1>2, <1>3

\* The test of sys_sleep() counts the ticks that passed.
LEMMA Elapsed ==
    ASSUME NEW t0 \in 0 .. UMaxT - 1, NEW k \in 0 .. UMaxT - 1
    PROVE  /\ UIntT(t0 + k) \in 0 .. UMaxT - 1
           /\ UIntT(UIntT(t0 + k) - t0) = k
           /\ UIntT(UIntT(t0 + k) + 1) = UIntT(t0 + (k + 1))
<1>1. UIntT(t0 + k) = IF t0 + k < UMaxT THEN t0 + k ELSE t0 + k - UMaxT
    BY Turns
<1> DEFINE u == UIntT(t0 + k)
<1>2. u \in 0 .. UMaxT - 1
    BY <1>1, Turns
<1>3. UIntT(u - t0) = k
    BY <1>1, Turns
<1>4. UIntT(u + 1) = UIntT(t0 + (k + 1))
    BY <1>1, Turns
<1> QED
    BY Zenon, <1>2, <1>3, <1>4

LEMMA LoopKeeps ==
    ASSUME NEW x, NEW n \in Naps, NEW t0 \in 0 .. UMaxT - 1, NEW k \in Nat, k <= UIntT(n) + Lag,
           x.n = n, x.ticks0 = t0, x.passed = k, ticks = UIntT(t0 + k),
           DOMAIN x = {"pc", "n", "ticks0", "passed"}
    PROVE  NapInv(Loop(x), ticks)
<1>1. UIntT(ticks - t0) = k /\ UIntT(n) \in 0 .. UMaxT - 1
    BY Elapsed, Turns
<1>2. Loop(x) = [x EXCEPT !.pc = IF k < UIntT(n) THEN "asleep" ELSE "slept"]
    BY Zenon, <1>1 DEF Loop, StillEarly
<1> QED
    BY <1>1, <1>2 DEF NapInv

LEMMA ClkStep == ClkInv /\ [ClkNext]_clkVars => ClkInv'
<1> SUFFICES ASSUME ClkInv, [ClkNext]_clkVars PROVE ClkInv'
    BY Zenon
<1>0. NapInv(NotSleeping, ticks)
    BY Zenon DEF NapInv, NotSleeping
<1>1. ASSUME NEW p \in Sleepers, UNCHANGED ticks, NEW x, nap' = [nap EXCEPT ![p] = x], NapInv(x, ticks)
      PROVE  ClkInv'
    BY Zenon, <1>1 DEF ClkInv
<1>2. ASSUME NEW p \in Sleepers, NEW n \in Naps, sys_sleep(p, n) PROVE ClkInv'
  <2> DEFINE x == [pc |-> "", n |-> n, ticks0 |-> ticks, passed |-> 0]
  <2>1. NapInv(Loop(x), ticks)
    <3>1. ticks = UIntT(ticks + 0) /\ 0 <= UIntT(n) + Lag
      BY Turns DEF ClkInv
    <3> QED
      BY Zenon, <3>1, LoopKeeps DEF ClkInv
  <2> QED
    BY Zenon, <1>1, <1>2, <2>1 DEF sys_sleep
<1>3. ASSUME NEW p \in Sleepers, sys_sleep_woken(p) PROVE ClkInv'
  <2> DEFINE x == nap[p]
  <2>1. NapInv(x, ticks) /\ x.pc = "woken"
    BY Zenon, <1>3 DEF ClkInv, sys_sleep_woken
  <2>2. NapInv(Loop(x), ticks)
    <3> HIDE DEF x
    <3> QED
      BY Zenon, <2>1, LoopKeeps DEF NapInv
  <2> QED
    BY Zenon, <1>0, <1>1, <1>3, <2>2 DEF sys_sleep_woken
<1>4. ASSUME NEW p \in Sleepers, sys_sleep_return(p) PROVE ClkInv'
    BY Zenon, <1>0, <1>1, <1>4 DEF sys_sleep_return
<1>5. ASSUME tick PROVE ClkInv'
  <2>1. ticks' = UIntT(ticks + 1) /\ ticks' \in 0 .. UMaxT - 1
    <3>1. ticks \in 0 .. UMaxT - 1 /\ UMaxT \in Nat \ {0} /\ ticks' = UIntT(ticks + 1)
      BY Zenon, <1>5, Turns DEF tick, ClkInv
    <3>2. CASE ticks + 1 < UMaxT
      BY <3>1, <3>2, Turns
    <3>3. CASE ticks + 1 = UMaxT
      <4>1. UIntT(ticks + 1) = 0
        BY <3>1, <3>3, Turns
      <4> QED
        BY <3>1, <4>1
    <3> QED
      BY <3>1, <3>2, <3>3
  <2>2. ASSUME NEW p \in Sleepers PROVE NapInv(nap'[p], ticks')
    <3>1. CASE nap[p].pc = "away"
      BY Zenon, <1>5, <3>1 DEF tick, NapInv, ClkInv
    <3>2. CASE nap[p].pc # "away"
      <4> DEFINE x == nap[p]
                 y == [x EXCEPT !.pc = Rung(x), !.passed = @ + 1]
      <4>1. NapInv(x, ticks) /\ x.pc \in {"asleep", "woken"} /\ OnTime(x) /\ nap'[p] = y
        BY Zenon, <1>5, <3>2 DEF tick, NapInv, ClkInv
      <4>2. x.passed < UIntT(x.n) + Lag /\ UIntT(x.n) \in 0 .. UMaxT - 1 /\ UIntT(x.n) + Lag < UMaxT
        BY <4>1, Turns DEF NapInv, OnTime
      <4>3. ticks' = UIntT(x.ticks0 + (x.passed + 1))
        BY <2>1, <4>1, <4>2, Turns, Elapsed DEF NapInv
      <4>4. Rung(x) = "woken"
        BY Zenon, <4>1 DEF Rung
      <4> QED
        BY <4>1, <4>2, <4>3, <4>4, Turns DEF NapInv
    <3> QED
      BY Zenon, <3>1, <3>2
  <2>3. nap' = [p \in Sleepers |-> nap'[p]]
    BY Zenon, <1>5 DEF tick
  <2> QED
    BY Zenon, <2>1, <2>2, <2>3 DEF ClkInv
<1>6. CASE UNCHANGED clkVars
    BY Zenon, <1>6 DEF clkVars, ClkInv
<1> QED
    BY Zenon, <1>2, <1>3, <1>4, <1>5, <1>6 DEF ClkNext

\* For any number of processes and any width of the counter: sleep(n) returns
\* after n ticks and not before, and nobody is asleep once they have passed.
THEOREM SleepsFully == ClkSpec => []SleepsLongEnough
<1>1. ClkInit => ClkInv
    BY DEF ClkInit, ClkInv, NapInv, NotSleeping
<1>2. ClkInv => SleepsLongEnough
    BY Zenon DEF ClkInv, NapInv, SleepsLongEnough
<1> QED
    BY <1>1, <1>2, ClkStep, PTL DEF ClkSpec
=============================================================================
