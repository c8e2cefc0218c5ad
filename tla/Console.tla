------------------------------- MODULE Console -------------------------------
(***************************************************************************)
(* Console input (console.c): the interrupt handler that edits a line in   *)
(* the ring input.buf, and readers that sleep until a line is complete.    *)
(* The indices only grow, as 32-bit counters; a place is an index modulo   *)
(* INPUT_BUF.  A step is what runs between acquiring input.lock and        *)
(* releasing it, in sleep() or for good.                                   *)
(***************************************************************************)
EXTENDS Integers, Sequences

CONSTANTS Readers,
          INPUT_BUF,
          UMaxC,        \* values of input.r, .w, .e; a multiple of INPUT_BUF
          MaxRead       \* bound: bytes of one read()

ASSUME ConsoleAssumption ==
    /\ INPUT_BUF \in Nat \ {0}
    /\ UMaxC \in Nat \ {0} /\ INPUT_BUF < UMaxC /\ UMaxC % INPUT_BUF = 0
    /\ MaxRead \in Nat

VARIABLES ring,         \* input.buf
          r, w, e,      \* input.r, input.w, input.e
          reader        \* per process: [pc, n, got]

conVars == <<ring, r, w, e, reader>>

Chars == {"x", "nl", "eof"}              \* a character, '\n', C('D')
AtHome == [pc |-> "home", n |-> 0, got |-> <<>>]

ConInit == /\ ring = [k \in 0 .. INPUT_BUF - 1 |-> "x"]
           /\ r = 0 /\ w = 0 /\ e = 0
           /\ reader = [p \in Readers |-> AtHome]

UIntC(n) == n % UMaxC
CharAt(i) == ring[i % INPUT_BUF]
Room == UIntC(e - r) < INPUT_BUF

(* What completes a line: its end, end of file, or a full buffer.          *)
Completes_eol(c) == c \in {"nl", "eof"}
Completes(c) == c \in {"nl", "eof"} \/ UIntC(e + 1) = UIntC(r + INPUT_BUF)

(* wakeup(&input.r)                                                        *)
Awake(x) == [x EXCEPT !.pc = IF @ = "asleep" THEN "reading" ELSE @]
wakeup_one == LET p == CHOOSE p \in Readers : TRUE IN [reader EXCEPT ![p] = Awake(@)]
wakeup_readers == [p \in Readers |-> Awake(reader[p])]

(* consoleintr(): an ordinary character, dropped when the ring is full.    *)
consoleintr(c) ==
    /\ Room
    /\ ring' = [ring EXCEPT ![e % INPUT_BUF] = c]
    /\ e' = UIntC(e + 1)
    /\ IF Completes(c)
       THEN w' = e' /\ reader' = wakeup_readers
       ELSE UNCHANGED <<w, reader>>
    /\ UNCHANGED r

(* consoleintr(): ^H or DEL takes back one character of the line being     *)
(* edited, ^U all of them (none is '\n': that would have completed it).    *)
Editing_any == e # r
Editing == e # w
backspace == Editing /\ e' = UIntC(e - 1) /\ UNCHANGED <<ring, r, w, reader>>
killline == /\ Editing
            /\ \E k \in 1 .. INPUT_BUF :
                  /\ e' = UIntC(e - k)
                  /\ e' = w \/ CharAt(UIntC(e' - 1)) = "nl"
                  /\ \A j \in 1 .. k - 1 : UIntC(e - j) # w /\ CharAt(UIntC(e - j - 1)) # "nl"
            /\ UNCHANGED <<ring, r, w, reader>>

(* read() of n bytes from the console.                                     *)
sys_read_console(p, n) ==
    /\ reader[p].pc = "home"
    /\ reader' = [reader EXCEPT ![p] = [pc |-> "reading", n |-> n, got |-> <<>>]]
    /\ UNCHANGED <<ring, r, w, e>>

(* How many of the completed characters a read of n takes: up to n, up to  *)
(* and with the first newline, up to the first end of file; that one is    *)
(* left for the next read unless it comes first, and is never copied.      *)
Available == UIntC(w - r)
StopAt(n) == {k \in 1 .. n : \/ k = n
                             \/ k <= Available /\ CharAt(r + k - 1) \in {"nl", "eof"}}
Stops(k, n) == k \in StopAt(n) /\ \A j \in StopAt(n) : k <= j
Copies(k) == IF CharAt(r + k - 1) = "eof" THEN k - 1 ELSE k
Takes_eof(got, k) == k
Takes(got, k) == IF got # <<>> \/ k > 1 THEN Copies(k) ELSE k

(* consoleread(): take what there is; asleep when that is not enough.  The *)
(* process may be killed while it sleeps, and then returns -1.             *)
Reads(p, pc, take, copy) ==
    /\ r' = UIntC(r + take)
    /\ reader' = [reader EXCEPT ![p] = [pc |-> pc, n |-> @.n - copy,
                     got |-> @.got \o [i \in 1 .. copy |-> CharAt(r + i - 1)]]]
    /\ UNCHANGED <<ring, w, e>>
consoleread(p) ==
    /\ reader[p].pc = "reading"
    /\ \E k \in 1 .. reader[p].n :
          /\ Stops(k, reader[p].n)
          /\ IF k > Available
             THEN Reads(p, "asleep", Available, Available)
             ELSE Reads(p, "done", Takes(reader[p].got, k), Copies(k))
consoleread_killed(p) ==
    /\ reader[p].pc = "asleep"
    /\ reader' = [reader EXCEPT ![p] = AtHome]
    /\ UNCHANGED <<ring, r, w, e>>
consoleread_return(p) ==
    /\ reader[p].pc = "done"
    /\ reader' = [reader EXCEPT ![p] = AtHome]
    /\ UNCHANGED <<ring, r, w, e>>

ConNext == \/ \E c \in Chars : consoleintr(c)
           \/ backspace \/ killline
           \/ \E p \in Readers : \/ \E n \in 1 .. MaxRead : sys_read_console(p, n)
                                 \/ consoleread(p) \/ consoleread_killed(p) \/ consoleread_return(p)

ConSpec == ConInit /\ [][ConNext]_conVars

-----------------------------------------------------------------------------
(* The characters of completed lines that no reader has taken yet.         *)
Committed == [k \in 1 .. Available |-> CharAt(r + k - 1)]

(* Editing never reaches into a completed line: a step of consoleintr()    *)
(* adds behind the committed characters and a step of consoleread() takes  *)
(* from their front, in order, so that every character leaves once; and    *)
(* the read that takes an end of file returns no bytes ("Save ^D for next  *)
(* time, to make sure caller gets a 0-byte result").                       *)
CommittedKept ==
    [][/\ \/ \E k \in 0 .. Len(Committed) : Committed' = SubSeq(Committed, k + 1, Len(Committed))
          \/ r' = r /\ Len(Committed') > Len(Committed) /\ SubSeq(Committed', 1, Len(Committed)) = Committed
       /\ \A p \in Readers : reader[p].pc = "reading" /\ reader'[p].pc = "done" /\ r' # r
             /\ CharAt(UIntC(r' - 1)) = "eof" => reader'[p].got = <<>>]_conVars

(* The console does not lock up: a reader sleeps only while no completed   *)
(* character is waiting, whichever reader the last wakeup served, and a    *)
(* full ring, into which nothing can be typed, has something to read.      *)
ReaderSleepsForLine ==
    /\ \A p \in Readers : reader[p].pc = "asleep" => r = w
    /\ UIntC(e - r) = INPUT_BUF => w # r
=============================================================================
