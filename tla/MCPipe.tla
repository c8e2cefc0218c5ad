------------------------------- MODULE MCPipe -------------------------------
(* Small instances of Pipe.                                                *)
EXTENDS Pipe, TLC

CONSTANTS p1, p2, p3, d1, d2

\* Bounds: p1 only writes, up to MaxIO bytes; p2 writes a byte or reads one;
\* p3 only reads, no more than the ring holds.  The ends p1 and p3 do not use
\* are closed before they start, and before p2's.
Roles == /\ want[p1] = 0 /\ Len(todo[p2]) <= 1 /\ todo[p3] = <<>>
         /\ want[p2] <= 1 /\ want[p3] <= PIPESIZE
         /\ "r" \in ends[p1] => "r" \in ends[p2] /\ pc[p1] = "idle"
         /\ "w" \in ends[p3] => "w" \in ends[p2] /\ pc[p3] = "idle"

Perms == Permutations({d1, d2})
=============================================================================
