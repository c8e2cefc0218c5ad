----------------------------- MODULE MCDevices ------------------------------
(* Small instances of the buffer cache with the disk driver, the console   *)
(* and the clock, which share no variable: a behaviour is one of one of    *)
(* them, with the others at rest.                                          *)
EXTENDS BufCache, Console, Clock, TLC

CONSTANTS p1, p2, p3, b1, b2, b3, v1, v2, s1, s2

VARIABLE part

Init == /\ part \in {"disk", "console", "clock"}
        /\ BcInit /\ ConInit /\ ClkInit
        /\ part # "clock" => ticks = 0

\* Which component moves, and that the others do not.
Disk == part = "disk" /\ ~bgetpanic /\ UNCHANGED <<part, conVars, clkVars>>
Line == part = "console" /\ UNCHANGED <<part, bcVars, clkVars>>
Timer == part = "clock" /\ UNCHANGED <<part, bcVars, conVars>>

\* The actions of BcNext, ConNext and ClkNext, one by one.
DiskNext ==
    \/ \E p \in BProcs :
          \/ Disk /\ \E n \in Blocks : bget_cached(p, n)
          \/ Disk /\ \E n \in Blocks : bget(p, n)
          \/ Disk /\ \E v \in Values : bwrite(p, v)
          \/ Disk /\ \E v \in Values : log_write(p, v)
          \/ Disk /\ bread(p)
          \/ Disk /\ iderw(p)
          \/ Disk /\ brelse(p)
          \/ Disk /\ brelse_ref(p)
    \/ Disk /\ ideintr(FALSE)
    \/ Disk /\ ideintr(TRUE)

LineNext ==
    \/ Line /\ \E c \in Chars : consoleintr(c)
    \/ Line /\ backspace
    \/ Line /\ killline
    \/ \E p \in Readers :
          \/ Line /\ \E n \in 1 .. MaxRead : sys_read_console(p, n)
          \/ Line /\ consoleread(p)
          \/ Line /\ consoleread_killed(p)
          \/ Line /\ consoleread_return(p)

TimerNext ==
    \/ Timer /\ tick
    \/ \E p \in Sleepers :
          \/ Timer /\ \E n \in Naps : sys_sleep(p, n)
          \/ Timer /\ sys_sleep_woken(p)
          \/ Timer /\ sys_sleep_return(p)

Next == DiskNext \/ LineNext \/ TimerNext

Spec == Init /\ [][Next]_<<part, bcVars, conVars, clkVars>>

Perms == Permutations({p1, p2, p3}) \union Permutations({b1, b2, b3}) \union Permutations({v1, v2})
SomeNaps == {-2, 0, 1, 3}
=============================================================================
