------------------------------ MODULE Debugger ------------------------------
(***************************************************************************)
(* debugger.py: one session of the driver with GDB and QEMU, the request   *)
(* for an analysis with its retries, and the clean-up.                     *)
(*                                                                         *)
(* A step of the driver sends a command and waits for one of some outputs; *)
(* pexpect takes the output up to the first of them and keeps the rest, and*)
(* raises or reports a time-out otherwise.  GDB and QEMU are external: they*)
(* answer in order, at any time, or never.                                 *)
(***************************************************************************)
EXTENDS Integers, Sequences, FiniteSets

CONSTANTS MaxRetries    \* max_retries of get_gemini_analysis()

VARIABLES mode,         \* "kernel" or "user"
          at,           \* the step of the script, or Begin, Gemini, Quit, Over
          gin, gout,    \* lines sent to GDB, and its output not yet taken
          gdb,          \* what GDB is doing
          qin, qout,    \* the same for QEMU's console
          qemu,
          got,          \* the text taken for each command that is reported
          slipped,      \* a time-out was swallowed while GDB still owed an answer
          attempt,      \* requests made to the analysis service
          analysis      \* its outcome

dbgVars == <<mode, at, gin, gout, gdb, qin, qout, qemu, got, slipped, attempt, analysis>>

Step(ch, cmd, want, late) == [ch |-> ch, cmd |-> cmd, want |-> want, late |-> late, keep |-> FALSE]
Ask(cmd) == Step("gdb", cmd, {"(gdb)"}, "raise")
Keep(cmd) == [Ask(cmd) EXCEPT !.keep = TRUE]
Question == {"sure", "load"}

(* run_debugger(): start GDB, connect, wait for the prompt, two settings.  *)
(* The confirmation of a pending breakpoint is left out: GDB is given none *)
(* before its first prompt, and the question would be in gdb.after, which  *)
(* the test of gdb.before does not see.                                    *)
connect == <<Ask(""), Step("gdb", "target", {"Remote", "(gdb)", "refused"}, "raise"), Ask(""),
             Ask("set pagination off"), Ask("set height 0")>>

(* Both modes boot to the shell's prompt and type the program's name.      *)
ShellWait_untimed == Step("qemu", "", {"$"}, "never")
ShellWait == Step("qemu", "", {"$"}, "raise")
boot == <<Step("gdb", "c", {"Continuing."}, "raise"), ShellWait>>

(* The breakpoint is hit, and GDB is back at its prompt.                   *)
Stopped_early == <<Step("gdb", "program", {"hit"}, "raise")>>
Stopped == <<Step("gdb", "program", {"hit"}, "raise"), Ask("")>>

run_kernel_debugger ==
    connect \o <<Ask("break")>> \o boot \o Stopped
    \o <<Keep("bt"), Keep("info registers"), Keep("info frame 1"),
         Keep("info symbol"), Keep("list"), Keep("disassemble"), Ask("frame 0")>>

run_user_debugger ==
    connect \o boot
    \o <<Step("qemu", "program", {"report"}, "end"), Step("qemu", "", {"end"}, "raise"),
         Step("gdb", "^C", {"(gdb)"}, "next"),
         Step("gdb", "file", Question \cup {"(gdb)"}, "next"), Step("gdb", "", Question \cup {"(gdb)"}, "next"),
         Step("gdb", "", {"(gdb)"}, "next"),
         Keep("list"), Keep("disassemble"), Keep("info symbol")>>

Script == IF mode = "kernel" THEN run_kernel_debugger ELSE run_user_debugger
Gemini == Len(Script) + 1
Quit == 0
Over == -1
Begin == -2
Scripted == at \in 1 .. Len(Script)
Now == Script[at]
StepOf(cmd) == CHOOSE i \in 1 .. Len(Script) : Script[i].cmd = cmd

DbgInit ==
    /\ mode \in {"kernel", "user"}
    /\ at = Begin /\ gin = <<>> /\ gout = <<>> /\ gdb = "dead"
    /\ qin = <<>> /\ qout = <<>> /\ qemu = "dead"
    /\ got = <<>> /\ slipped = FALSE /\ attempt = 0 /\ analysis = "none"

(* Going to step i sends its command.  After the last step comes the       *)
(* request; its end and any exception lead to the clean-up, which sends "q".*)
Send(in, cmd) == IF cmd = "" THEN in ELSE Append(in, cmd)
GoTo(i, in) ==
    /\ at' = i
    /\ LET cmd == IF i = Gemini THEN "" ELSE Script[i].cmd IN
       IF cmd = "program" THEN gin' = in /\ qin' = <<cmd>> ELSE gin' = Send(in, cmd) /\ UNCHANGED qin
Finish == at' = Quit /\ gin' = (IF gdb = "dead" THEN gin ELSE Append(gin, "q")) /\ UNCHANGED qin

-----------------------------------------------------------------------------
(* run_debugger(): a failed build ends it before anything is started.      *)
run_debugger ==
    /\ at = Begin
    /\ \/ at' = Over /\ UNCHANGED <<gdb, qemu>>
       \/ at' = 1 /\ gdb' = "start" /\ qemu' = "stopped"
    /\ UNCHANGED <<mode, gin, gout, qin, qout, got, slipped, attempt, analysis>>

Out == IF Now.ch = "gdb" THEN gout ELSE qout
Matches == {i \in 1 .. Len(Out) : Out[i] \in Now.want}
First == CHOOSE i \in Matches : \A j \in Matches : i <= j
Take(i) == IF Now.ch = "gdb" THEN gout' = SubSeq(gout, i + 1, Len(gout)) /\ UNCHANGED qout
           ELSE qout' = SubSeq(qout, i + 1, Len(qout)) /\ UNCHANGED gout

(* pexpect finds an output.  A question is confirmed, at most twice; the   *)
(* prompt ends the two rounds of questions at once.  Without a return      *)
(* address in the frame, or a RIP in the report, the steps that need it are*)
(* left out.                                                               *)
expect ==
    /\ Scripted /\ Matches # {}
    /\ Take(First)
    /\ got' = IF Now.keep THEN Append(got, <<Now.cmd, SubSeq(Out, 1, First - 1)>>) ELSE got
    /\ CASE Out[First] = "refused" -> Finish
         [] Out[First] \in Question -> GoTo(at + 1, Append(gin, "y"))
         [] Out[First] = "(gdb)" /\ Question \subseteq Now.want -> GoTo(StepOf("list") - 1, gin)
         [] Now.cmd = "info frame 1" -> GoTo(at + 1, gin) \/ GoTo(StepOf("frame 0"), gin)
         [] Out[First] = "end" -> GoTo(at + 1, gin) \/ GoTo(Gemini, gin)
         [] OTHER -> GoTo(at + 1, gin)
    /\ UNCHANGED <<mode, gdb, qemu, slipped, attempt, analysis>>

(* The time-out, or the end of the output: raised, swallowed by "except:   *)
(* pass" and the loop's break, or reported and the session over.           *)
Owes == gin # <<>> \/ gdb # "prompt"
timeout ==
    /\ Scripted /\ Matches = {} /\ Now.late # "never"
    /\ IF Now.late = "next" /\ ~(gdb = "dead" /\ Question \subseteq Now.want)
       THEN /\ GoTo(IF Question \subseteq Now.want THEN StepOf("list") - 1 ELSE at + 1, gin)
            /\ slipped' = (slipped \/ Owes)
       ELSE Finish /\ UNCHANGED slipped
    /\ UNCHANGED <<mode, gout, gdb, qout, qemu, got, attempt, analysis>>

(* get_gemini_analysis(): a good answer ends the loop; another status, or  *)
(* an exception, tries again until the attempts are used up.               *)
Again(n) == n < MaxRetries
get_gemini_analysis ==
    /\ at = Gemini
    /\ attempt' = attempt + 1
    /\ \/ analysis' \in {"complete", "keys missing"} /\ Finish
       \/ analysis' = analysis /\ Again(attempt') /\ UNCHANGED <<at, gin, qin>>
       \/ analysis' = "error" /\ ~Again(attempt') /\ Finish
    /\ UNCHANGED <<mode, gout, gdb, qout, qemu, got, slipped>>

(* The finally clause: GDB confirms and is closed, or is closed by force   *)
(* when the question does not come; then QEMU.                             *)
ClosedGdb_polite == IF gdb = "quit" THEN "dead" ELSE gdb
ClosedGdb == "dead"
cleanup ==
    /\ at = Quit
    /\ at' = Over /\ gdb' = ClosedGdb /\ qemu' = "dead"
    /\ gin' = <<>> /\ gout' = <<>> /\ qin' = <<>> /\ qout' = <<>>
    /\ UNCHANGED <<mode, got, slipped, attempt, analysis>>

driver == run_debugger \/ expect \/ timeout \/ get_gemini_analysis \/ cleanup

-----------------------------------------------------------------------------
(* GDB and QEMU.  GDB reads its next line at its prompt or at a question,  *)
(* which it repeats until the line is "y"; while the kernel runs only the  *)
(* interrupt character is read.                                            *)
Says(out, next) == gout' = gout \o out /\ gdb' = next
gdb_prompt == gdb = "start" /\ Says(<<"(gdb)">>, "prompt") /\ UNCHANGED <<gin, qout, qemu>>
gdb_reads ==
    /\ gin # <<>> /\ gin' = Tail(gin)
    /\ LET cmd == Head(gin) IN
       \/ /\ gdb = "prompt"
          /\ CASE cmd = "target" -> Says(<<"Remote", "(gdb)">>, "prompt") \/ Says(<<"refused", "(gdb)">>, "prompt")
               [] cmd = "c" -> Says(<<"Continuing.">>, "running")
               [] cmd = "file" -> Says(<<"sure">>, "sure") \/ Says(<<"load">>, "load") \/ Says(<<cmd, "(gdb)">>, "prompt")
               [] cmd = "q" -> Says(<<"Quit anyway?">>, "quit") \/ Says(<<>>, "dead")
               [] cmd = "^C" -> Says(<<"(gdb)">>, "prompt")
               [] OTHER -> Says(<<cmd, "(gdb)">>, "prompt")
       \/ /\ gdb = "running" /\ cmd = "^C" /\ Says(<<"(gdb)">>, "prompt")
       \/ /\ gdb \in Question
          /\ CASE cmd # "y" -> Says(<<gdb>>, gdb)
               [] cmd = "y" /\ gdb = "sure" -> Says(<<"load">>, "load") \/ Says(<<"(gdb)">>, "prompt")
               [] OTHER -> Says(<<"(gdb)">>, "prompt")
    /\ UNCHANGED <<qout, qemu>>
gdb_dies == gdb # "dead" /\ Says(<<>>, "dead") /\ UNCHANGED <<gin, qout, qemu>>

(* QEMU boots while GDB lets it run; the program faults in the kernel, is  *)
(* reported by trap(), or does neither.                                    *)
qemu_boots == gdb = "running" /\ qemu = "stopped" /\ qemu' = "shell" /\ qout' = <<"$">> /\ UNCHANGED <<gin, gout, gdb>>
qemu_runs ==
    /\ gdb = "running" /\ qemu = "shell" /\ qin # <<>> /\ qemu' = "ran" /\ UNCHANGED gin
    /\ \/ mode = "kernel" /\ Says(<<"hit", "(gdb)">>, "prompt") /\ UNCHANGED qout
       \/ qout' \in {qout, qout \o <<"report", "end">>} /\ UNCHANGED <<gout, gdb>>

qemu_dies == qemu # "dead" /\ qemu' = "dead" /\ UNCHANGED <<gin, gout, gdb, qout>>

external == /\ at \notin {Begin, Over}
            /\ gdb_prompt \/ gdb_reads \/ gdb_dies \/ qemu_boots \/ qemu_runs \/ qemu_dies
            /\ UNCHANGED <<mode, at, qin, got, slipped, attempt, analysis>>

DbgNext == driver \/ external

-----------------------------------------------------------------------------
(* Unless a time-out was swallowed while GDB still owed an answer, every   *)
(* text that goes into the report is the answer to its own command and     *)
(* nothing else: no prompt is left over that would shift the answers.      *)
AnswersOwn == slipped \/ \A i \in 1 .. Len(got) : got[i][2] = <<got[i][1]>>

(* A session always ends, and with GDB and QEMU closed, whatever is raised *)
(* and wherever: every wait has its time-out.                              *)
SessionEnds == /\ at = 1 ~> at = Over
               /\ [](at = Over => gdb = "dead" /\ qemu = "dead")
=============================================================================
