----------------------------- MODULE ByteStream -----------------------------
(* What a pipe promises: a bounded first-in first-out stream of bytes.     *)
EXTENDS Integers, Sequences

CONSTANTS Data, Capacity, Failed

VARIABLES queue,      \* bytes written and not yet read, oldest first
          writeopen,  \* somebody may still write
          result      \* what the last read returned

vars == <<queue, writeopen, result>>

Init ==
    /\ queue = <<>>
    /\ writeopen = 1
    /\ result = <<>>

Take(s, k) == SubSeq(s, 1, k)
Drop(s, k) == SubSeq(s, k + 1, Len(s))

\* Some bytes go in at the end.
Put ==
    /\ writeopen = 1
    /\ \E k \in 1 .. Capacity - Len(queue) :
          \E s \in [1 .. k -> Data] : queue' = queue \o s
    /\ UNCHANGED <<writeopen, result>>

\* A read gets the oldest bytes, none only at the end of the stream.
Get ==
    /\ \/ \E k \in 1 .. Len(queue) : /\ result' = Take(queue, k)
                                     /\ queue' = Drop(queue, k)
       \/ /\ queue = <<>> /\ writeopen = 0
          /\ result' = <<>>
          /\ UNCHANGED queue
       \/ /\ result' = Failed
          /\ UNCHANGED queue
    /\ UNCHANGED writeopen

Close ==
    /\ writeopen = 1
    /\ writeopen' = 0
    /\ UNCHANGED <<queue, result>>

Next == Put \/ Close \/ Get

Spec == Init /\ [][Next]_vars
=============================================================================
