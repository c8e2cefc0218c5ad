-------------------------------- MODULE Clock --------------------------------
(***************************************************************************)
(* The timer interrupt's tick (trap.c) and sys_sleep() (sysproc.c), which  *)
(* compares a difference of unsigned tick counts with a signed argument.   *)
(***************************************************************************)
EXTENDS Integers

CONSTANTS Sleepers,
          Naps,         \* arguments of sleep()
          UMaxT,        \* values of the uint ticks
          Lag           \* bound: ticks that pass before a woken process runs

\* A woken process runs again before the counter has gone round.
ASSUME ClockAssumption ==
    /\ UMaxT \in Nat \ {0} /\ Lag \in Nat /\ Naps \subseteq Int
    /\ \A n \in Naps : (n % UMaxT) + Lag < UMaxT

VARIABLES ticks,
          nap           \* per process: [pc, n, ticks0, passed]

clkVars == <<ticks, nap>>

UIntT(n) == n % UMaxT
NotSleeping == [pc |-> "away", n |-> 0, ticks0 |-> 0, passed |-> 0]

ClkInit == ticks \in 0 .. UMaxT - 1 /\ nap = [p \in Sleepers |-> NotSleeping]

(* ticks - ticks0 < n: n becomes unsigned.                                 *)
StillEarly_absolute(x) == ticks < UIntT(x.ticks0 + x.n)
StillEarly(x) == UIntT(ticks - x.ticks0) < UIntT(x.n)

(* The test of sys_sleep()'s loop, and what follows it.                    *)
Loop(x) == [x EXCEPT !.pc = IF StillEarly(x) THEN "asleep" ELSE "slept"]

sys_sleep(p, n) ==
    /\ nap[p].pc = "away"
    /\ nap' = [nap EXCEPT ![p] = Loop([pc |-> "", n |-> n, ticks0 |-> ticks, passed |-> 0])]
    /\ UNCHANGED ticks

(* sleep() returns, to the test; killed, sys_sleep() gives up.             *)
sys_sleep_woken(p) ==
    /\ nap[p].pc = "woken"
    /\ \/ nap' = [nap EXCEPT ![p] = Loop(nap[p])]
       \/ nap' = [nap EXCEPT ![p] = NotSleeping]
    /\ UNCHANGED ticks

sys_sleep_return(p) ==
    /\ nap[p].pc = "slept"
    /\ nap' = [nap EXCEPT ![p] = NotSleeping]
    /\ UNCHANGED ticks

(* trap(), IRQ_TIMER on cpu 0: ticks++ and wakeup(&ticks).                 *)
Rung_first(x) == IF x.pc = "asleep" /\ x.passed = 0 THEN "woken" ELSE x.pc
Rung(x) == IF x.pc = "asleep" THEN "woken" ELSE x.pc
OnTime(x) == x.pc = "woken" => x.passed < UIntT(x.n) + Lag
tick ==
    /\ \A p \in Sleepers : OnTime(nap[p]) /\ nap[p].pc # "slept"
    /\ ticks' = UIntT(ticks + 1)
    /\ nap' = [p \in Sleepers |-> IF nap[p].pc = "away" THEN nap[p]
                 ELSE [nap[p] EXCEPT !.pc = Rung(nap[p]), !.passed = @ + 1]]

ClkNext == tick \/ \E p \in Sleepers :
              sys_sleep_woken(p) \/ sys_sleep_return(p) \/ \E n \in Naps : sys_sleep(p, n)

ClkSpec == ClkInit /\ [][ClkNext]_clkVars

-----------------------------------------------------------------------------
(* sleep(n) returns after n ticks and not before, and nobody is asleep     *)
(* once they have passed, also when ticks wraps in between; a negative n   *)
(* counts as the unsigned number it converts to.                           *)
SleepsLongEnough ==
    \A p \in Sleepers : /\ nap[p].pc = "slept" => nap[p].passed >= UIntT(nap[p].n)
                        /\ nap[p].pc = "asleep" => nap[p].passed < UIntT(nap[p].n)
=============================================================================
