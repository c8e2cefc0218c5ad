------------------------------ MODULE MCInode -------------------------------
(* Small instances of Inode.                                               *)
EXTENDS Inode, TLC

CONSTANTS p1, p2, a, b, c

Spec == InodeInit /\ [][InodeNext]_inodeVars

\* Bound: no ialloc() comes to an inode while the iput() that freed it on
\* disk is still on its way (the case of the run inode_reuse).
NoEarlyReuse == \A p, q \in Procs :
    At(p, "iput", "end") /\ At(q, "create", "ialloc") => icache[ip[p]].inum # New(q)

\* Bound: neither the cache nor the disk runs out of inodes, a panic in
\* iget() and ialloc() that stops the machine.
NotExhausted == \A p \in Procs : pc[p] \notin {<<"iget", "panic">>, <<"ialloc", "panic">>}

Perms == Permutations(Procs) \union Permutations(Names)
=============================================================================
