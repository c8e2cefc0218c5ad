------------------------------ MODULE FileTable ------------------------------
(***************************************************************************)
(* Open files: the system file table of file.c, the descriptor tables of   *)
(* the processes and the system calls of sysfile.c, pipe.c and proc.c that *)
(* make, copy and drop references to it.                                   *)
(*                                                                         *)
(* A step is what one holder of ftable.lock does, together with the        *)
(* process-local code around it.  fileclose() takes two steps: it copies   *)
(* and clears the table entry under the lock, and only then drops the      *)
(* inode reference or the pipe end that the copy names.  Between the two   *)
(* another process can reuse the entry.                                    *)
(***************************************************************************)
EXTENDS Integers, Sequences, FiniteSets

CONSTANTS FProcs,      \* process slots; slot 1 is the first process
          NFILE,       \* entries of ftable
          NOFILE,      \* descriptors of a process
          OpenInodes,  \* inodes that open() finds
          PipePages    \* pages kalloc() can give to pipes

ASSUME FileTableAssumption == /\ IsFiniteSet(FProcs) /\ 1 \in FProcs
                              /\ NFILE \in Nat /\ NOFILE \in Nat

VARIABLES ftable,      \* struct file: [ref, type, obj, w]
          ofile,       \* proc->ofile; 0 is a closed descriptor
          fstate,      \* "unused", "running" or "exiting"
          half,        \* the file pipealloc() got first; 0 when none
          closing,     \* what the process still has to close, in order
          iref,        \* references that open files hold on an inode
          pipes        \* struct pipe: [readopen, writeopen]

ftVars == <<ftable, ofile, fstate, half, closing, iref, pipes>>

File == 1 .. NFILE
Fd == 0 .. NOFILE - 1
NoFile == [ref |-> 0, type |-> "NONE", obj |-> 0, w |-> 0]

FtInit == /\ ftable = [f \in File |-> NoFile]
          /\ ofile = [p \in FProcs |-> [d \in Fd |-> 0]]
          /\ fstate = [q \in FProcs |-> IF q = 1 THEN "running" ELSE "unused"]
          /\ half = [p \in FProcs |-> 0]
          /\ closing = [p \in FProcs |-> <<>>]
          /\ iref = [i \in OpenInodes |-> 0]
          /\ pipes = [q \in PipePages |-> [readopen |-> 0, writeopen |-> 0]]

FreeFiles == {f \in File : ftable[f].ref = 0}
FreeFds(p) == {d \in Fd : ofile[p][d] = 0}
Lowest(S) == {x \in S : \A y \in S : x <= y}

(* A process that can start a system call.                                 *)
InUser(p) == fstate[p] = "running" /\ closing[p] = <<>> /\ half[p] = 0

(* filealloc(): the first entry without references gets one.               *)
filealloc(f) == ftable' = [ftable EXCEPT ![f].ref = 1]

(* sys_open() once namei() or create() has a reference to inode i.  Without*)
(* a free file or a free descriptor it closes what it has (a file that is  *)
(* still of type NONE) and puts the inode back.                            *)
sys_open(p, i) ==
    /\ InUser(p)
    /\ \E f \in Lowest(FreeFiles), d \in Lowest(FreeFds(p)) :
          /\ ftable' = [ftable EXCEPT ![f] = [ref |-> 1, type |-> "INODE", obj |-> i, w |-> 1]]
          /\ ofile' = [ofile EXCEPT ![p][d] = f]
    /\ iref' = [iref EXCEPT ![i] = @ + 1]
    /\ UNCHANGED <<fstate, half, closing, pipes>>

(* sys_open() that found a file but no descriptor: fileclose(f), then iput.*)
sys_open_full(p, i) ==
    /\ InUser(p)
    /\ FreeFds(p) = {}
    /\ \E f \in Lowest(FreeFiles) :
          /\ filealloc(f)
          /\ closing' = [closing EXCEPT ![p] = << <<"close", f>>, <<"drop", [ref |-> 0, type |-> "INODE", obj |-> i, w |-> 0]>> >>]
    /\ iref' = [iref EXCEPT ![i] = @ + 1]
    /\ UNCHANGED <<ofile, fstate, half, pipes>>

(* argfd(): a descriptor that is open.                                     *)
argfd(p, d) == ofile[p][d] # 0

(* filedup(); its panic needs ref < 1.                                     *)
filedup(f) == ftable[f].ref >= 1 /\ ftable' = [ftable EXCEPT ![f].ref = @ + 1]

sys_dup(p, d) ==
    /\ InUser(p) /\ argfd(p, d)
    /\ \E e \in Lowest(FreeFds(p)) : ofile' = [ofile EXCEPT ![p][e] = ofile[p][d]]
    /\ filedup(ofile[p][d])
    /\ UNCHANGED <<fstate, half, closing, iref, pipes>>

sys_close(p, d) ==
    /\ InUser(p) /\ argfd(p, d)
    /\ ofile' = [ofile EXCEPT ![p][d] = 0]
    /\ closing' = [closing EXCEPT ![p] = << <<"close", ofile[p][d]>> >>]
    /\ UNCHANGED <<ftable, fstate, half, iref, pipes>>

(* What is left of the entry when its last reference goes (nothing reads   *)
(* the object of a file of type NONE).                                     *)
Cleared_keep_type(f) == [f EXCEPT !.ref = 0]
Cleared(f) == NoFile

(* What fileclose() hands over to pipeclose() or iput(): ff, its own copy. *)
ClosedCopy(f) == <<"drop", [ftable[f] EXCEPT !.ref = 0]>>

(* fileclose(), the part under ftable.lock.  Its panic needs ref < 1.      *)
fileclose(p) ==
    /\ closing[p] # <<>> /\ Head(closing[p])[1] = "close"
    /\ LET f == Head(closing[p])[2] IN
          /\ ftable[f].ref >= 1
          /\ IF ftable[f].ref > 1
             THEN /\ ftable' = [ftable EXCEPT ![f].ref = @ - 1]
                  /\ closing' = [closing EXCEPT ![p] = Tail(@)]
             ELSE /\ ftable' = [ftable EXCEPT ![f] = Cleared(@)]
                  /\ closing' = [closing EXCEPT ![p] = <<ClosedCopy(f)>> \o Tail(@)]
    /\ UNCHANGED <<ofile, fstate, half, iref, pipes>>

(* fileclose(), after the lock: pipeclose(), iput(), or nothing for NONE.  *)
fileclose_drop(p) ==
    /\ closing[p] # <<>> /\ Head(closing[p])[1] = "drop"
    /\ LET ff == Head(closing[p])[2] IN
          /\ iref' = IF ff.type = "INODE" THEN [iref EXCEPT ![ff.obj] = @ - 1] ELSE iref
          /\ pipes' = CASE ff.type # "PIPE" -> pipes
                        [] ff.type = "PIPE" /\ ff.w = 1 -> [pipes EXCEPT ![ff.obj].writeopen = 0]
                        [] ff.type = "PIPE" /\ ff.w # 1 -> [pipes EXCEPT ![ff.obj].readopen = 0]
    /\ closing' = [closing EXCEPT ![p] = Tail(@)]
    /\ UNCHANGED <<ftable, ofile, fstate, half>>

(* Bound: pipes are made while pages remain for them (kalloc() panics when *)
(* it has none, so that pipealloc() never sees it fail).                   *)
PageLeft == Cardinality({p \in FProcs : half[p] # 0})
            < Cardinality({q \in PipePages : pipes[q].readopen + pipes[q].writeopen = 0})

(* sys_pipe(): pipealloc()'s first filealloc().                            *)
sys_pipe(p) ==
    /\ InUser(p) /\ PageLeft
    /\ \E f \in Lowest(FreeFiles) : filealloc(f) /\ half' = [half EXCEPT ![p] = f]
    /\ UNCHANGED <<ofile, fstate, closing, iref, pipes>>

(* What sys_pipe() closes when only one of two descriptors was free.       *)
PipeUndo_one(f0, f1) == << <<"close", f0>> >>
PipeUndo(f0, f1) == << <<"close", f0>>, <<"close", f1>> >>

PipeEnd(q, w) == [ref |-> 1, type |-> "PIPE", obj |-> q, w |-> w]

(* pipealloc()'s second filealloc() and its page, then the descriptors.    *)
pipealloc(p, q) ==
    /\ half[p] # 0
    /\ pipes[q] = [readopen |-> 0, writeopen |-> 0]
    /\ \E f0 \in {half[p]}, f1 \in Lowest(FreeFiles) :
           /\ ftable' = [ftable EXCEPT ![f0] = PipeEnd(q, 0), ![f1] = PipeEnd(q, 1)]
           /\ IF Cardinality(FreeFds(p)) >= 2
              THEN /\ \E d0 \in Lowest(FreeFds(p)) : \E d1 \in Lowest(FreeFds(p) \ {d0}) :
                         ofile' = [ofile EXCEPT ![p][d0] = f0, ![p][d1] = f1]
                   /\ UNCHANGED closing
              ELSE /\ closing' = [closing EXCEPT ![p] = PipeUndo(f0, f1)]
                   /\ UNCHANGED ofile
    /\ pipes' = [pipes EXCEPT ![q] = [readopen |-> 1, writeopen |-> 1]]
    /\ half' = [half EXCEPT ![p] = 0]
    /\ UNCHANGED <<fstate, iref>>

(* pipealloc() that finds no second file closes the first.                 *)
pipealloc_bad(p) ==
    /\ half[p] # 0 /\ FreeFiles = {}
    /\ closing' = [closing EXCEPT ![p] = << <<"close", half[p]>> >>]
    /\ half' = [half EXCEPT ![p] = 0]
    /\ UNCHANGED <<ftable, ofile, fstate, iref, pipes>>

(* filedup() of every descriptor of the parent.                            *)
DupAll(p) == [f \in File |-> [ftable[f] EXCEPT !.ref = @ + Cardinality({d \in Fd : ofile[p][d] = f})]]

fork(p, c) ==
    /\ InUser(p) /\ fstate[c] = "unused"
    /\ ftable' = DupAll(p)
    /\ ofile' = [ofile EXCEPT ![c] = ofile[p]]
    /\ fstate' = [fstate EXCEPT ![c] = "running"]
    /\ UNCHANGED <<half, closing, iref, pipes>>

(* exit() by any process but the last, which stands for init.              *)
exit(p) ==
    /\ InUser(p) /\ \E q \in FProcs \ {p} : fstate[q] = "running"
    /\ fstate' = [fstate EXCEPT ![p] = "exiting"]
    /\ UNCHANGED <<ftable, ofile, half, closing, iref, pipes>>

(* exit()'s loop over the descriptors, one close at a time.                *)
exit_close(p) ==
    /\ fstate[p] = "exiting" /\ closing[p] = <<>>
    /\ IF \E d \in Fd : ofile[p][d] # 0
       THEN \E d \in Lowest({e \in Fd : ofile[p][e] # 0}) :
               /\ closing' = [closing EXCEPT ![p] = << <<"close", ofile[p][d]>> >>]
               /\ ofile' = [ofile EXCEPT ![p][d] = 0]
               /\ UNCHANGED fstate
       ELSE fstate' = [fstate EXCEPT ![p] = "unused"] /\ UNCHANGED <<ofile, closing>>
    /\ UNCHANGED <<ftable, half, iref, pipes>>

FtNext == \E p \in FProcs :
    \/ \E i \in OpenInodes : sys_open(p, i) \/ sys_open_full(p, i)
    \/ \E d \in Fd : sys_dup(p, d) \/ sys_close(p, d)
    \/ fileclose(p) \/ fileclose_drop(p)
    \/ sys_pipe(p) \/ pipealloc_bad(p) \/ \E q \in PipePages : pipealloc(p, q)
    \/ \E c \in FProcs : fork(p, c)
    \/ exit(p) \/ exit_close(p)

-----------------------------------------------------------------------------
FtSpec == FtInit /\ [][FtNext]_ftVars

Holders(f) == {x \in FProcs \X Fd : ofile[x[1]][x[2]] = f}
InFlight(f) == {p \in FProcs : half[p] = f}

(* The closes still to do, by process and place from the end of its list:  *)
(* a close that is done leaves the places of the others as they are.       *)
Places(p) == 0 .. Len(closing[p]) - 1
ToDo(p, k) == closing[p][Len(closing[p]) - k]
Closing(f) == UNION {{p} \X {k \in Places(p) : ToDo(p, k) = <<"close", f>>} : p \in FProcs}
Dropping(ty, o, w) == UNION {{p} \X {k \in Places(p) : ToDo(p, k) = <<"drop", [ref |-> 0, type |-> ty, obj |-> o, w |-> w]>>}
                             : p \in FProcs}

(* The live references to an object: table entries in use and closes that  *)
(* have given up their entry and not reached pipeclose() or iput() yet.    *)
Uses(ty, o, w) ==
    Cardinality({f \in File : ftable[f].ref > 0 /\ ftable[f].type = ty /\ ftable[f].obj = o /\ ftable[f].w = w})
  + Cardinality(Dropping(ty, o, w))

(* The count of a file (file.h) is the number of descriptors, over all     *)
(* processes, plus the references system calls hold on the way: no file is *)
(* freed while a descriptor names it, and none is left without a holder.   *)
FileRefsExact ==
    \A f \in File : ftable[f].ref = Cardinality(Holders(f)) + Cardinality(InFlight(f)) + Cardinality(Closing(f))

(* fileclose() gives every inode reference and every pipe end back exactly *)
(* once, on every path of open, pipe, dup, fork and exit: the inode count  *)
(* is the number of uses, and a pipe end is open exactly while one use of  *)
(* it remains (each end is one struct file).                               *)
ObjectsClosedOnce ==
    /\ \A i \in OpenInodes : iref[i] = Uses("INODE", i, 0) + Uses("INODE", i, 1)
    /\ \A q \in PipePages : /\ pipes[q].readopen = Uses("PIPE", q, 0)
                            /\ pipes[q].writeopen = Uses("PIPE", q, 1)
=============================================================================
