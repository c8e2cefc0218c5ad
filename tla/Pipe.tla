-------------------------------- MODULE Pipe --------------------------------
(* pipe.c: a ring buffer with 32-bit counters that wrap, readers and       *)
(* writers that sleep in it, ends that close when their last descriptor    *)
(* does, and kills.  What a call does between taking p->lock and releasing *)
(* it is one step, but for the way into sleep(): kill() takes no p->lock,  *)
(* so it may come between the test of killed and the sleep.                *)
EXTENDS Integers, Sequences, FiniteSets

CONSTANTS Procs, Data,
          PIPESIZE,   \* bytes of the buffer
          UMax,       \* values of a uint: 2^32, a multiple of PIPESIZE
          Failed,     \* a call's result -1
          MaxIO,      \* bound: bytes of one read or write
          Kills       \* bound: processes that may be killed

ASSUME PipeAssumption ==
    /\ PIPESIZE \in Nat \ {0} /\ UMax \in Nat
    /\ UMax % PIPESIZE = 0 /\ UMax > PIPESIZE
    /\ MaxIO \in Nat \ {0}
    /\ Kills \subseteq Procs

VARIABLES data, nread, nwrite,   \* p->data, p->nread, p->nwrite
          readopen, writeopen,   \* p->readopen, p->writeopen
          ends,                  \* the descriptors each process has open
          pc,                    \* where each process is
          todo,                  \* bytes the current write has left
          want,                  \* bytes the current read asked for
          killed,
          result,                \* what the last read returned
          unwoken                \* history: readers asleep since before a
                                 \* killed writer gave up (pipe.c:86-88)

pipe == <<data, nread, nwrite, readopen, writeopen>>
vars == <<pipe, ends, pc, todo, want, killed, result, unwoken>>

Init ==
    /\ data \in [0 .. PIPESIZE - 1 -> Data]
    /\ nread = 0 /\ nwrite = 0
    /\ readopen = 1 /\ writeopen = 1
    /\ ends = [p \in Procs |-> {"r", "w"}]
    /\ pc = [p \in Procs |-> "idle"]
    /\ todo = [p \in Procs |-> <<>>]
    /\ want = [p \in Procs |-> 0]
    /\ killed = {}
    /\ result = <<>>
    /\ unwoken = {}

UInt(n) == n % UMax
Full == nwrite = UInt(nread + PIPESIZE)
Empty == nread = nwrite

\* Bytes in the buffer.
Count == UInt(nwrite - nread)

\* wakeup() of one of the two channels: those asleep on it run again.
wakeup(f, asleep, awake) == [q \in Procs |-> IF f[q] = asleep THEN awake ELSE f[q]]
WakeReaders(f) == wakeup(f, "asleep_nread", "read")
WakeWriters(f) == wakeup(f, "asleep_nwrite", "write")

\* Those asleep for bytes.
ReadersAsleep(f) == {q \in Procs : f[q] = "asleep_nread"}

\* p->lock is free: nobody is on the way from its test into sleep().
Unlocked == \A q \in Procs : pc[q] \notin {"sleep_nread", "sleep_nwrite"}

Lesser(a, b) == IF a < b THEN a ELSE b

-----------------------------------------------------------------------------
\* A process calls write() or read() on the end it has.
sys_write(p) ==
    /\ pc[p] = "idle" /\ "w" \in ends[p]
    /\ \E n \in 1 .. MaxIO : \E s \in [1 .. n -> Data] : todo' = [todo EXCEPT ![p] = s]
    /\ pc' = [pc EXCEPT ![p] = "write"]
    /\ UNCHANGED <<pipe, ends, want, killed, result, unwoken>>

sys_read(p) ==
    /\ pc[p] = "idle" /\ "r" \in ends[p]
    /\ \E n \in 1 .. MaxIO : want' = [want EXCEPT ![p] = n]
    /\ pc' = [pc EXCEPT ![p] = "read"]
    /\ UNCHANGED <<pipe, ends, todo, killed, result, unwoken>>

\* Mutants: bytes land one place too far; nobody is woken.
pipewrite_shifted(p) ==
    /\ pc[p] = "write" /\ Unlocked
    /\ LET k == Lesser(Len(todo[p]), PIPESIZE - Count)
           rest == SubSeq(todo[p], k + 1, Len(todo[p]))
           stay == [pc EXCEPT ![p] = IF rest = <<>> THEN "idle" ELSE "sleep_nwrite"]
           quit == rest # <<>> /\ (readopen = 0 \/ p \in killed)
       IN  /\ data' = [i \in DOMAIN data |->
                         LET j == (i - nwrite - 1) % PIPESIZE
                         IN  IF j < k THEN todo[p][j + 1] ELSE data[i]]
           /\ nwrite' = UInt(nwrite + k)
           /\ pc' = IF quit THEN [pc EXCEPT ![p] = "idle"] ELSE WakeReaders(stay)
           /\ todo' = [todo EXCEPT ![p] = IF quit THEN <<>> ELSE rest]
           /\ unwoken' = IF quit THEN ReadersAsleep(pc) ELSE {}
    /\ UNCHANGED <<nread, readopen, writeopen, ends, want, killed, result>>

pipewrite_silent(p) ==
    /\ pc[p] = "write" /\ Unlocked
    /\ LET k == Lesser(Len(todo[p]), PIPESIZE - Count)
           rest == SubSeq(todo[p], k + 1, Len(todo[p]))
           quit == rest # <<>> /\ (readopen = 0 \/ p \in killed)
       IN  /\ data' = [i \in DOMAIN data |->
                         LET j == (i - nwrite) % PIPESIZE
                         IN  IF j < k THEN todo[p][j + 1] ELSE data[i]]
           /\ nwrite' = UInt(nwrite + k)
           /\ pc' = [pc EXCEPT ![p] = IF quit \/ rest = <<>> THEN "idle" ELSE "sleep_nwrite"]
           /\ todo' = [todo EXCEPT ![p] = IF quit THEN <<>> ELSE rest]
           /\ unwoken' = IF quit THEN ReadersAsleep(pc) ELSE unwoken
    /\ UNCHANGED <<nread, readopen, writeopen, ends, want, killed, result>>

\* Bytes go in while there is room; then the call returns, gives up, or wakes
\* the readers and goes to sleep.  Giving up wakes nobody.
pipewrite(p) ==
    /\ pc[p] = "write" /\ Unlocked
    /\ LET k == Lesser(Len(todo[p]), PIPESIZE - Count)
           rest == SubSeq(todo[p], k + 1, Len(todo[p]))
           stay == [pc EXCEPT ![p] = IF rest = <<>> THEN "idle" ELSE "sleep_nwrite"]
           quit == rest # <<>> /\ (readopen = 0 \/ p \in killed)
       IN  /\ data' = [i \in DOMAIN data |->
                         LET j == (i - nwrite) % PIPESIZE
                         IN  IF j < k THEN todo[p][j + 1] ELSE data[i]]
           /\ nwrite' = UInt(nwrite + k)
           /\ pc' = IF quit THEN [pc EXCEPT ![p] = "idle"] ELSE WakeReaders(stay)
           /\ todo' = [todo EXCEPT ![p] = IF quit THEN <<>> ELSE rest]
           /\ unwoken' = IF quit THEN ReadersAsleep(pc) ELSE {}
    /\ UNCHANGED <<nread, readopen, writeopen, ends, want, killed, result>>

\* An empty pipe with a writer left: give up if killed, else go to sleep.  If
\* not, take what there is and wake the writers.
piperead(p) ==
    /\ pc[p] = "read" /\ Unlocked
    /\ \/ /\ Empty /\ writeopen = 1
          /\ \/ /\ p \in killed
                /\ pc' = [pc EXCEPT ![p] = "idle"]
                /\ result' = Failed
             \/ /\ p \notin killed
                /\ pc' = [pc EXCEPT ![p] = "sleep_nread"]
                /\ UNCHANGED result
          /\ UNCHANGED nread
       \/ /\ ~(Empty /\ writeopen = 1)
          /\ LET k == Lesser(want[p], Count)
             IN  /\ result' = [j \in 1 .. k |-> data[(nread + j - 1) % PIPESIZE]]
                 /\ nread' = UInt(nread + k)
          /\ pc' = WakeWriters([pc EXCEPT ![p] = "idle"])
    /\ want' = [want EXCEPT ![p] = IF pc'[p] = "idle" THEN 0 ELSE @]
    /\ UNCHANGED <<data, nwrite, readopen, writeopen, ends, todo, killed, unwoken>>

\* sleep(): asleep under ptable.lock, and p->lock is released.
sleep(p) ==
    /\ \/ pc[p] = "sleep_nread" /\ pc' = [pc EXCEPT ![p] = "asleep_nread"]
       \/ pc[p] = "sleep_nwrite" /\ pc' = [pc EXCEPT ![p] = "asleep_nwrite"]
    /\ UNCHANGED <<pipe, ends, todo, want, killed, result, unwoken>>

\* Mutant: closing the last read end wakes the wrong channel.
pipeclose_wrong_channel(p, e) ==
    /\ pc[p] = "idle" /\ e \in ends[p]
    /\ ends' = [ends EXCEPT ![p] = @ \ {e}]
    /\ LET last == \A q \in Procs : e \notin ends'[q]
       IN  /\ last => Unlocked
           /\ writeopen' = IF last /\ e = "w" THEN 0 ELSE writeopen
           /\ readopen' = IF last /\ e = "r" THEN 0 ELSE readopen
           /\ pc' = IF last THEN WakeReaders(pc) ELSE pc
    /\ unwoken' = unwoken \intersect ReadersAsleep(pc')
    /\ UNCHANGED <<data, nread, nwrite, todo, want, killed, result>>

\* close(): fileclose() calls pipeclose() for the last descriptor of an end.
pipeclose(p, e) ==
    /\ pc[p] = "idle" /\ e \in ends[p]
    /\ ends' = [ends EXCEPT ![p] = @ \ {e}]
    /\ LET last == \A q \in Procs : e \notin ends'[q]
       IN  /\ last => Unlocked
           /\ writeopen' = IF last /\ e = "w" THEN 0 ELSE writeopen
           /\ readopen' = IF last /\ e = "r" THEN 0 ELSE readopen
           /\ pc' = CASE last /\ e = "w" -> WakeReaders(pc)
                      [] last /\ e = "r" -> WakeWriters(pc)
                      [] OTHER           -> pc
    /\ unwoken' = unwoken \intersect ReadersAsleep(pc')
    /\ UNCHANGED <<data, nread, nwrite, todo, want, killed, result>>

\* kill(): marks the process, and wakes it if it sleeps; one on its way into
\* sleep() goes on to sleep.
kill(p) ==
    /\ p \in Kills \ killed
    /\ killed' = killed \union {p}
    /\ pc' = [pc EXCEPT ![p] = IF @ = "asleep_nread" THEN "read"
                               ELSE IF @ = "asleep_nwrite" THEN "write" ELSE @]
    /\ unwoken' = unwoken \ {p}
    /\ UNCHANGED <<pipe, ends, todo, want, result>>

Next ==
    \E p \in Procs :
        \/ p \notin killed /\ (sys_write(p) \/ sys_read(p))
        \/ pipewrite(p) \/ piperead(p) \/ sleep(p) \/ kill(p)
        \/ \E e \in {"r", "w"} : pipeclose(p, e)

Spec == Init /\ [][Next]_vars

-----------------------------------------------------------------------------

\* pipe.c is a first-in first-out stream: bytes come out once, in order, and
\* unharmed by the wrap of the ring and of the counters, and a read returns
\* nothing only when the pipe is empty and the last writer gone.
Queue == [j \in 1 .. Count |-> data[(nread + j - 1) % PIPESIZE]]
BS == INSTANCE ByteStream WITH Capacity <- PIPESIZE, queue <- Queue
Stream == BS!Spec

\* pipe.c:85-91, 106: whoever writes, reads, closes or is killed meanwhile, a
\* writer sleeps only on a full pipe that can be read, and a reader only on an
\* empty pipe that can be written, unless it slept already when a killed writer
\* gave up half way and nobody has woken it since: pipe.c:86-88 returns without
\* the wakeup that the bytes it has put in call for.
SleepersHaveReason ==
    \A p \in Procs :
        /\ pc[p] = "asleep_nwrite" => Full /\ readopen = 1
        /\ pc[p] = "asleep_nread" => writeopen = 1 /\ (Empty \/ p \in unwoken)
=============================================================================
