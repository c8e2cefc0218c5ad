-------------------------------- MODULE Shell --------------------------------
(***************************************************************************)
(* The shell (sh.c): the recursive-descent parser, on lines of tokens, and *)
(* runcmd(), on processes with descriptors that share pipes.               *)
(*                                                                         *)
(* A line is a sequence of token kinds; ">" stands for ">" and ">>", which *)
(* make the same node.  A word is known by its place.  A parser takes the  *)
(* place it is at and returns a tree and the place after it, or Syntax     *)
(* where the code calls panic().                                           *)
(***************************************************************************)
EXTENDS Integers, Sequences, FiniteSets

CONSTANTS MAXARGS,
          MaxLine,      \* bound: tokens of a line that is parsed
          RunLines,     \* bound: the lines that are also run
          NShProcs      \* process slots for a line that is run

VARIABLES line,         \* the line that getcmd() read
          tree,         \* what parsecmd() made of it: [cmd, at]
          sh            \* the processes; slot 1 is the shell's main()

shVars == <<line, tree, sh>>

Tokens == {"w", "|", "&", ";", "(", ")", "<", ">"}
Syntax == [cmd |-> <<"panic">>, at |-> 0]
At(i) == IF i <= Len(line) THEN line[i] ELSE "end"
Node(c, i) == [cmd |-> c, at |-> i]

(* parseredirs(): each redirection wraps the command so far.               *)
RECURSIVE parseredirs(_, _)
parseredirs(c, i) ==
    IF At(i) \notin {"<", ">"} THEN Node(c, i)
    ELSE IF At(i + 1) # "w" THEN Syntax
    ELSE parseredirs(<<"redir", c, At(i), i + 1>>, i + 2)

(* An argument goes into the exec node under the redirections.             *)
RECURSIVE AddArg(_, _)
AddArg(c, i) == IF c[1] = "exec" THEN <<"exec", Append(c[2], i)>>
                ELSE <<"redir", AddArg(c[2], i), c[3], c[4]>>
RECURSIVE Argc(_)
Argc(c) == IF c[1] = "exec" THEN Len(c[2]) ELSE Argc(c[2])

(* parseexec()'s loop over arguments and redirections.                     *)
RECURSIVE parseargs(_)
parseargs(n) ==
    CASE n = Syntax -> Syntax
      [] At(n.at) \in {"|", ")", "&", ";", "end"} -> n
      [] At(n.at) # "w" -> Syntax
      [] Argc(n.cmd) + 1 >= MAXARGS -> Syntax
      [] OTHER -> parseargs(parseredirs(AddArg(n.cmd, n.at), n.at + 1))

RECURSIVE parseline(_), parsepipe(_), parseblock(_), parseback(_)
parseexec(i) == IF At(i) = "(" THEN parseblock(i) ELSE parseargs(parseredirs(<<"exec", <<>>>>, i))
parseblock(i) ==
    LET n == parseline(i + 1) IN
    IF n = Syntax \/ At(n.at) # ")" THEN Syntax ELSE parseredirs(n.cmd, n.at + 1)

(* parsepipe(): the rest of the line's pipeline is the right-hand side.    *)
PipeNode_left(l, r) == IF r.cmd[1] = "pipe" THEN <<"pipe", <<"pipe", l.cmd, r.cmd[2]>>, r.cmd[3]>>
                       ELSE <<"pipe", l.cmd, r.cmd>>
PipeNode(l, r) == <<"pipe", l.cmd, r.cmd>>
parsepipe(i) ==
    LET l == parseexec(i) IN
    IF l = Syntax \/ At(l.at) # "|" THEN l
    ELSE LET r == parsepipe(l.at + 1) IN IF r = Syntax THEN Syntax ELSE Node(PipeNode(l, r), r.at)

parseback(n) == IF n = Syntax \/ At(n.at) # "&" THEN n ELSE parseback(Node(<<"back", n.cmd>>, n.at + 1))
parseline(i) ==
    LET l == parseback(parsepipe(i)) IN
    IF l = Syntax \/ At(l.at) # ";" THEN l
    ELSE LET r == parseline(l.at + 1) IN IF r = Syntax THEN Syntax ELSE Node(<<"list", l.cmd, r.cmd>>, r.at)

(* parsecmd(): anything left over is a syntax error.                       *)
parsecmd == LET n == parseline(1) IN IF n.at = Len(line) + 1 THEN n ELSE Syntax

-----------------------------------------------------------------------------
(* Processes.  A descriptor is closed, the console, a file, or an end of   *)
(* the pipe that the process in slot k made.                               *)
Slot == 1 .. NShProcs
Fds == 0 .. 8
Closed == <<"closed", 0>>
Tty == <<"tty", 0>>
NoProc == [st |-> "none", cmd |-> <<"none">>, pc |-> 0, parent |-> 0, fd |-> [d \in Fds |-> Closed], bg |-> FALSE]
Main == [NoProc EXCEPT !.st = "main", !.fd = [d \in Fds |-> IF d <= 2 THEN Tty ELSE Closed]]

ShInit == /\ line \in (UNION {[1 .. n -> Tokens] : n \in 0 .. MaxLine}) \cup RunLines
          /\ tree = Node(<<"none">>, 0)
          /\ sh = [k \in Slot |-> IF k = 1 THEN Main ELSE NoProc]

Unused == {k \in Slot : sh[k].st = "none"}
Least(S) == CHOOSE d \in S : \A x \in S : d <= x
Spare == Least(Unused)
Child(k, c, fd, bg) == [st |-> "run", cmd |-> c, pc |-> 0, parent |-> k, fd |-> fd, bg |-> bg]

(* exit(): descriptors close, children go to init, which reaps them.       *)
Exit(k) == [j \in Slot |->
    IF j = k THEN IF sh[k].parent = 0 THEN NoProc ELSE [NoProc EXCEPT !.st = "zombie", !.parent = sh[k].parent, !.bg = sh[k].bg]
    ELSE IF sh[j].parent # k THEN sh[j]
    ELSE IF sh[j].st = "zombie" THEN NoProc ELSE [sh[j] EXCEPT !.parent = 0]]

(* main(): a line that begins with the word cd is the shell's own.         *)
Prompted == sh[1].st = "main" /\ sh[1].pc = 0
main_cd == Prompted /\ At(1) = "w" /\ sh' = [sh EXCEPT ![1].pc = 2] /\ UNCHANGED <<line, tree>>

(* For any other it forks a child that parses the line and runs it.  A line*)
(* that is not one of RunLines is only parsed.                             *)
main_fork == /\ Prompted
             /\ sh' = [sh EXCEPT ![1].pc = 1, ![2] = Child(1, <<"parse">>, sh[1].fd, FALSE)]
             /\ UNCHANGED <<line, tree>>

(* fork1() fails, other processes having filled the table: panic("fork") is*)
(* the end of the shell.                                                   *)
main_panic == Prompted /\ sh' = Exit(1) /\ UNCHANGED <<line, tree>>

parse == /\ sh[2].cmd = <<"parse">>
         /\ tree' = parsecmd
         /\ sh' = IF tree' = Syntax \/ line \notin RunLines THEN Exit(2) ELSE [sh EXCEPT ![2].cmd = tree'.cmd]
         /\ UNCHANGED line

Running(k, what) == sh[k].st = "run" /\ sh[k].cmd[1] = what /\ UNCHANGED <<line, tree>>

(* fork1(): a child in s, or panic("fork"), which exits and leaves the     *)
(* children made so far to init.                                           *)
fork1(k, s, c, fd, bg) ==
    IF Unused = {} THEN sh' = [j \in Slot |-> [Exit(k)[j] EXCEPT !.bg = @ \/ (sh[j].parent = k /\ sh[j].st # "zombie")]]
    ELSE sh' = [s EXCEPT ![Spare] = Child(k, c, fd, bg)]

(* runcmd(): EXEC becomes the program; it exits without arguments or when  *)
(* exec() fails.                                                           *)
runcmd_exec(k) ==
    /\ Running(k, "exec")
    /\ \/ sh[k].cmd[2] # <<>> /\ sh' = [sh EXCEPT ![k].st = "program", ![k].cmd = <<"none">>]
       \/ sh' = Exit(k)

(* REDIR: close and open, which may fail.                                  *)
runcmd_redir(k) ==
    /\ Running(k, "redir")
    /\ \/ sh' = [sh EXCEPT ![k].cmd = @[2], ![k].fd[IF sh[k].cmd[3] = "<" THEN 0 ELSE 1] = <<"file", 0>>]
       \/ sh' = Exit(k)

(* BACK: the child is left to init.                                        *)
runcmd_back(k) ==
    /\ Running(k, "back")
    /\ \/ sh[k].pc = 0 /\ fork1(k, [sh EXCEPT ![k].pc = 1], sh[k].cmd[2], sh[k].fd, TRUE)
       \/ sh[k].pc = 1 /\ sh' = Exit(k)

(* wait(): one zombie child; at once when there are no children.           *)
Kids(k) == {j \in Slot : sh[j].parent = k /\ sh[j].st # "none"}
sh_wait(k, next) == \E j \in Slot \cup {0} :
    /\ IF j = 0 THEN Kids(k) = {} ELSE j \in Kids(k) /\ sh[j].st = "zombie"
    /\ sh' = [(IF j = 0 THEN sh ELSE [sh EXCEPT ![j] = NoProc]) EXCEPT ![k] = next]

runcmd_list(k) ==
    /\ Running(k, "list")
    /\ \/ sh[k].pc = 0 /\ fork1(k, [sh EXCEPT ![k].pc = 1], sh[k].cmd[2], sh[k].fd, sh[k].bg)
       \/ sh[k].pc = 1 /\ sh_wait(k, [sh[k] EXCEPT !.pc = 0, !.cmd = @[3]])

(* PIPE, in the order of the code: pipe(), which may fail, and the left    *)
(* child, the right child, the closes, and two waits.                      *)
Free3(fd) == {d \in Fds : fd[d] = Closed}
PipeFds(fd) == LET d0 == Least(Free3(fd)) IN <<d0, Least(Free3(fd) \ {d0})>>
WithPipe(k, fd) == [fd EXCEPT ![PipeFds(fd)[1]] = <<"r", k>>, ![PipeFds(fd)[2]] = <<"w", k>>]
Ends(k) == {d \in Fds \ (0 .. 2) : sh[k].fd[d] \in {<<"r", k>>, <<"w", k>>}}

(* A child's descriptors after its close, dup, close, close.               *)
Sided_leaky(k, fd, d, e) == [fd EXCEPT ![d] = <<e, k>>]
Sided(k, fd, d, e) == [x \in Fds |-> IF x = d THEN <<e, k>>
                                     ELSE IF x > 2 /\ fd[x] \in {<<"r", k>>, <<"w", k>>} THEN Closed ELSE fd[x]]
AfterWait_once(pc) == 5
AfterWait(pc) == pc + 1

runcmd_pipe(k) ==
    /\ Running(k, "pipe")
    /\ \/ sh[k].pc = 0 /\ sh' = Exit(k)
       \/ /\ sh[k].pc = 0
          /\ LET fd == WithPipe(k, sh[k].fd) IN
             fork1(k, [sh EXCEPT ![k].pc = 1, ![k].fd = fd], sh[k].cmd[2], Sided(k, fd, 1, "w"), sh[k].bg)
       \/ sh[k].pc = 1 /\ fork1(k, [sh EXCEPT ![k].pc = 2], sh[k].cmd[3], Sided(k, sh[k].fd, 0, "r"), sh[k].bg)
       \/ sh[k].pc = 2 /\ sh' = [sh EXCEPT ![k].pc = 3, ![k].fd = [d \in Fds |-> IF d \in Ends(k) THEN Closed ELSE @[d]]]
       \/ sh[k].pc \in {3, 4} /\ sh_wait(k, [sh[k] EXCEPT !.pc = AfterWait(@)])
       \/ sh[k].pc = 5 /\ sh' = Exit(k)

(* A program reads its input to the end before it exits: from a pipe, until*)
(* no process has the write end open.                                      *)
Writers(k) == {j \in Slot : \E d \in Fds : sh[j].fd[d] = <<"w", k>>}
program(k) ==
    /\ sh[k].st = "program"
    /\ sh[k].fd[0][1] = "r" => Writers(sh[k].fd[0][2]) = {}
    /\ sh' = Exit(k)
    /\ UNCHANGED <<line, tree>>

main_wait == sh[1].pc = 1 /\ sh_wait(1, [sh[1] EXCEPT !.pc = 2]) /\ UNCHANGED <<line, tree>>

run == \/ main_wait
       \/ \E k \in Slot : \/ runcmd_exec(k) \/ runcmd_redir(k) \/ runcmd_back(k)
                          \/ runcmd_list(k) \/ runcmd_pipe(k) \/ program(k)
ShNext == main_cd \/ main_fork \/ main_panic \/ parse \/ run

-----------------------------------------------------------------------------
(* The grammar that the parser is meant to follow, as the trees that tokens*)
(* i .. j - 1 may stand for.                                               *)
WordsIn(i, j) == {k \in i .. j - 1 : line[k] = "w" /\ ~(k > i /\ line[k - 1] \in {"<", ">"})}
RedirsIn(i, j) == {k \in i .. j - 1 : line[k] \in {"<", ">"}}
Plain(i, j) == /\ \A k \in i .. j - 1 : line[k] \in {"w", "<", ">"}
               /\ \A k \in RedirsIn(i, j) : k + 1 < j /\ line[k + 1] = "w"
RECURSIVE Ascending(_)
Ascending(S) == IF S = {} THEN <<>> ELSE LET m == Least(S) IN <<m>> \o Ascending(S \ {m})
RECURSIVE Wrap(_, _)
Wrap(c, ks) == IF ks = <<>> THEN c ELSE Wrap(<<"redir", c, line[Head(ks)], Head(ks) + 1>>, Tail(ks))

RECURSIVE Lines(_, _), Backs(_, _), Pipelines(_, _)
Commands(i, j) ==
    (IF Plain(i, j) /\ Cardinality(WordsIn(i, j)) < MAXARGS
     THEN {Wrap(<<"exec", Ascending(WordsIn(i, j))>>, Ascending(RedirsIn(i, j)))} ELSE {})
    \cup UNION {{Wrap(c, Ascending(RedirsIn(m + 1, j))) : c \in Lines(i + 1, m)} :
                  m \in {m \in i + 1 .. j - 1 : line[i] = "(" /\ line[m] = ")"
                                                /\ Plain(m + 1, j) /\ WordsIn(m + 1, j) = {}}}
Pipelines(i, j) == Commands(i, j)
    \cup UNION {{<<"pipe", l, r>> : l \in Commands(i, m), r \in Pipelines(m + 1, j)} : m \in {m \in i .. j - 1 : line[m] = "|"}}
Backs(i, j) == Pipelines(i, j)
    \cup IF i < j /\ line[j - 1] = "&" THEN {<<"back", c>> : c \in Backs(i, j - 1)} ELSE {}
Lines(i, j) == Backs(i, j)
    \cup UNION {{<<"list", l, r>> : l \in Backs(i, m), r \in Lines(m + 1, j)} : m \in {m \in i .. j - 1 : line[m] = ";"}}

(* parsecmd() accepts exactly the lines of the grammar and builds the one  *)
(* tree it has: every word and redirection in its place, "|" tighter than  *)
(* "&", "&" tighter than ";", and the last redirection outermost.          *)
ParsesGrammar ==
    [][tree' # tree => Lines(1, Len(line) + 1) = IF tree' = Syntax THEN {} ELSE {tree'.cmd}]_shVars

(* The prompt returns, and exactly when the command is done.  Every parsed *)
(* line comes to an end once its programs do: no process keeps a write end *)
(* open that it should have closed, so each reader of a pipeline sees end  *)
(* of file and each wait() returns.  And whatever order the children exit  *)
(* in, by then every process of the command is gone but those put in the   *)
(* background or left behind by fork1()'s panic.                           *)
PromptReturns ==
    /\ tree.cmd # <<"none">> ~> sh[1].pc = 2
    /\ [](sh[1].pc = 2 => \A k \in Slot \ {1} : sh[k].st = "none" \/ sh[k].bg)
=============================================================================
