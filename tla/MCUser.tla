------------------------------- MODULE MCUser -------------------------------
(* Small instances of the memory of processes, the user allocator, the     *)
(* shell and the debugger driver, which share no variable: a behaviour is  *)
(* one of one of them, with the others at rest.                            *)
EXTENDS Memory, Umalloc, Shell, Debugger, TLC

CONSTANTS p1, p2

VARIABLE part

parts == <<part, memVars, umVars, shVars, dbgVars>>

Init == /\ part \in {"memory", "malloc", "shell", "debugger"}
        /\ MemInit /\ UmInit /\ ShInit /\ DbgInit
        /\ part # "shell" => line = <<>>
        /\ part # "debugger" => mode = "kernel"

\* Which component moves, and that the others do not.
Pages == part = "memory" /\ vmpanic = "none" /\ UNCHANGED <<part, umVars, shVars, dbgVars>>
Heap == part = "malloc" /\ UNCHANGED <<part, memVars, shVars, dbgVars>>
Sh == part = "shell" /\ UNCHANGED <<part, memVars, umVars, dbgVars>>
Dbg == part = "debugger" /\ UNCHANGED <<part, memVars, umVars, shVars>>
Outside == Dbg /\ at \notin {Begin, Over} /\ UNCHANGED <<mode, at, qin, got, slipped, attempt, analysis>>

\* The actions of MemNext, UmNext, ShNext and DbgNext, one by one.
PagesNext == \E p \in MProcs :
    \/ Pages /\ \E n \in Deltas : growproc(p, n)
    \/ Pages /\ \E n \in Deltas : growproc_shrink(p, n)
    \/ Pages /\ \E c \in MProcs : fork(p, c)
    \/ Pages /\ exec(p)
    \/ Pages /\ exec_stack(p)
    \/ Pages /\ \E n \in Pushes : exec_push(p, n)
    \/ Pages /\ \E n \in Pushes : exec_push_fault(p, n)
    \/ Pages /\ exec_commit(p)
    \/ Pages /\ exec_bad(p)
    \/ Pages /\ \E top \in Tops : exec_load(p, top)
    \/ Pages /\ exit(p)
    \/ Pages /\ wait(p)

HeapNext ==
    \/ Heap /\ \E n \in Requests : malloc(n)
    \/ Heap /\ malloc_found
    \/ Heap /\ morecore
    \/ Heap /\ malloc_fails
    \/ Heap /\ \E bp \in Addr : user_free(bp)

Shell ==
    \/ Sh /\ main_wait
    \/ \E k \in Slot : \/ Sh /\ runcmd_exec(k)
                       \/ Sh /\ runcmd_redir(k)
                       \/ Sh /\ runcmd_back(k)
                       \/ Sh /\ runcmd_list(k)
                       \/ Sh /\ runcmd_pipe(k)
                       \/ Sh /\ program(k)

Driver ==
    \/ Dbg /\ run_debugger
    \/ Dbg /\ expect
    \/ Dbg /\ timeout
    \/ Dbg /\ get_gemini_analysis
    \/ Dbg /\ cleanup

Next ==
    \/ PagesNext \/ HeapNext \/ Shell \/ Driver
    \/ Sh /\ main_cd
    \/ Sh /\ main_fork
    \/ Sh /\ main_panic
    \/ Sh /\ parse
    \/ Outside /\ gdb_prompt
    \/ Outside /\ gdb_reads
    \/ Outside /\ gdb_dies
    \/ Outside /\ qemu_boots
    \/ Outside /\ qemu_runs
    \/ Outside /\ qemu_dies

(* The kernel runs every process of a command line on, and the driver's    *)
(* time-outs expire; nothing is asked of GDB, QEMU and the network.        *)
Spec == Init /\ [][Next]_parts /\ WF_parts(Shell) /\ WF_parts(Driver)

SomeDeltas == {-8, -3, -1, 1, 3}
SomeLines == {<<"w", "|", "w", "|", "w">>, <<"w", "|", "w", "|", "w", "|", "w">>,
              <<"w", "|", "w", "&", ";", "w", "|", "w">>, <<"(", "w", ";", "w", ")", "|", "w", ">", "w">>}
=============================================================================
