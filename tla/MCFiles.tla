------------------------------ MODULE MCFiles -------------------------------
(* Small instances of the inode cache, the open-file table, the file       *)
(* contents and the directory tree, which share no variable: a behaviour   *)
(* is one of one of them, with the others at rest.                         *)
EXTENDS Inode, FileTable, FileData, Dirs, TLC

CONSTANTS p1, p2, i1, q1, name1

VARIABLE part

Init == /\ part \in {"inodes", "table", "data", "dirs"}
        /\ InodeInit /\ FtInit /\ FdInit /\ DirInit
        /\ part # "inodes" => \A n \in Names : dir[n] = 0

\* Which component moves, and that the others do not.
Inodes == part = "inodes" /\ UNCHANGED <<part, ftVars, fdVars, dirVars>>
Table == part = "table" /\ UNCHANGED <<part, inodeVars, fdVars, dirVars>>
Contents == part = "data" /\ ~fpanic /\ UNCHANGED <<part, inodeVars, ftVars, dirVars>>
Tree == part = "dirs" /\ ~dirpanic /\ ~late /\ UNCHANGED <<part, inodeVars, ftVars, fdVars>>

\* The actions of InodeNext (but sys_link's, a call not made here), FtNext,
\* FdNext and DirNext, one by one.
InodesNext == \E p \in Procs :
    \/ Inodes /\ iput(p)
    \/ Inodes /\ iput_free(p)
    \/ Inodes /\ iput_end(p)
    \/ Inodes /\ namei(p, "open")
    \/ \E call \in {"open", "reopen", "create", "unlink"} :
          \/ Inodes /\ ilock(p, call)
          \/ Inodes /\ ilock_read(p, call)
    \/ Inodes /\ opened(p)
    \/ Inodes /\ open_fails(p)
    \/ Inodes /\ create(p)
    \/ Inodes /\ ialloc(p)
    \/ Inodes /\ ialloc_iget(p)
    \/ Inodes /\ created(p)
    \/ Inodes /\ nlink_dec(p)
    \/ Inodes /\ unlink(p)
    \/ Inodes /\ unlink_entry(p)
    \/ Inodes /\ Call(p)

TableNext == \E p \in FProcs :
    \/ Table /\ \E i \in OpenInodes : sys_open(p, i)
    \/ Table /\ \E i \in OpenInodes : sys_open_full(p, i)
    \/ Table /\ \E d \in Fd : sys_dup(p, d)
    \/ Table /\ \E d \in Fd : sys_close(p, d)
    \/ Table /\ fileclose(p)
    \/ Table /\ fileclose_drop(p)
    \/ Table /\ sys_pipe(p)
    \/ Table /\ pipealloc_bad(p)
    \/ Table /\ \E q \in PipePages : pipealloc(p, q)
    \/ Table /\ \E c \in FProcs : fork(p, c)
    \/ Table /\ exit(p)
    \/ Table /\ exit_close(p)

ContentsNext ==
    \/ Contents /\ \E p \in DProcs, i \in DInodes, n \in Sizes :
                      \E off \in 0 .. inode[i].size : filewrite(p, i, off, n)
    \/ Contents /\ \E p \in DProcs : writei_begin(p)
    \/ Contents /\ \E p \in DProcs : writei(p)
    \/ Contents /\ \E p \in DProcs : writei_end(p)
    \/ Contents /\ \E i \in DInodes : itrunc(i)

TreeNext == \E p \in DirProcs :
    \/ Tree /\ \E d \in Inum, path \in Paths : sys_mkdir(p, d, path)
    \/ Tree /\ \E d \in Inum, path \in Paths : sys_mknod(p, d, path)
    \/ Tree /\ \E d \in Inum, path \in Paths : path_call(p, "unlink", d, path)
    \/ Tree /\ \E d \in Inum, path \in Paths : path_call(p, "chdir", d, path)
    \/ Tree /\ ilock_panic(p)
    \/ Tree /\ namex(p)
    \/ Tree /\ create_found(p)
    \/ Tree /\ create_new(p)
    \/ Tree /\ sys_unlink(p)
    \/ Tree /\ sys_chdir(p)

Next == InodesNext \/ TableNext \/ ContentsNext \/ TreeNext

Spec == Init /\ [][Next]_<<part, inodeVars, ftVars, fdVars, dirVars>>

Perms == Permutations({p1, p2})
SomePaths == {<<"a">>, <<"b">>, <<"a", "b">>, <<"..">>}
=============================================================================
